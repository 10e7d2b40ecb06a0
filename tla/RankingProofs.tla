---------------------------- MODULE RankingProofs ----------------------------
(***************************************************************************)
(* What is ranked offline, for any scores, judgments, depths, margins and   *)
(* sizes. First what the operators on sequences do, then the sorts of       *)
(* Evaluation as listings of a total order. On top of them the reranker's   *)
(* data and its two judges: what is mined for a query is clean, the search  *)
(* by chunks is exact, the validation measures what the evaluation would,   *)
(* and the rerank and the cascade are compared on the candidates that they  *)
(* were given. Then the fusion study: the vectorised fusion is the          *)
(* reference fusion, a run file sorts back into the list it was written     *)
(* from, what is swept is what is reported, no document passes one that     *)
(* both lists have above it, Holm's correction is the sequential rule, and  *)
(* the randomization test keeps its level. The theorems of the              *)
(* specification itself, TrainingIsClean and FusionIsAsReported, are        *)
(* OfflineStudiesProofs'.                                                   *)
(***************************************************************************)
EXTENDS FusionStudy, HardNegatives, FiniteSetTheorems, SequenceTheorems, WellFoundedInduction, TLAPS

\* A function on 1 .. n is a sequence.
LEMMA IsSequence == ASSUME NEW S, NEW n \in Nat, NEW s \in [1 .. n -> S] PROVE s \in Seq(S)
  BY SeqDef

\* The least of two numbers.
LEMMA LesserOf == ASSUME NEW a \in Nat, NEW b \in Nat PROVE Min({a, b}) = IF a <= b THEN a ELSE b
  BY DEF Min

-----------------------------------------------------------------------------
\* A sequence is one of its own elements.
LEMMA OwnElements ==
    ASSUME NEW S, NEW s \in Seq(S)
    PROVE  Len(s) \in Nat /\ DOMAIN s = 1 .. Len(s) /\ s \in Seq(Range(s))
<1>1. Len(s) \in Nat /\ DOMAIN s = 1 .. Len(s) /\ s \in [1 .. Len(s) -> S]
  BY LenProperties
<1>2. s \in [1 .. Len(s) -> Range(s)]
  BY <1>1 DEF Range
<1>3. QED
  BY <1>1, <1>2, IsSequence

-----------------------------------------------------------------------------
(* Sequences: what the operators of the library and of Evaluation do. *)
IsSeq(s) == s \in Seq(Range(s))

\* What a sequence is as a function.
LEMMA SeqIs ==
    ASSUME NEW s, IsSeq(s)
    PROVE  Len(s) \in Nat /\ DOMAIN s = 1 .. Len(s) /\ s = [i \in 1 .. Len(s) |-> s[i]]
BY LenProperties DEF IsSeq

\* A function on the first n numbers is a sequence.
LEMMA FunctionIsSeq ==
    ASSUME NEW n \in Nat, NEW s, s = [i \in 1 .. n |-> s[i]]
    PROVE  IsSeq(s) /\ Len(s) = n
<1>1. s \in [1 .. n -> Range(s)]
  BY DEF Range
<1>2. QED
  BY <1>1, IsSequence, OwnElements DEF IsSeq

\* What a concatenation is, and what it consists of.
LEMMA ConcatIs ==
    ASSUME NEW s, NEW t, IsSeq(s), IsSeq(t)
    PROVE  /\ IsSeq(s \o t) /\ Len(s \o t) = Len(s) + Len(t) /\ Range(s \o t) = Range(s) \cup Range(t)
           /\ \A i \in 1 .. Len(s) : (s \o t)[i] = s[i]
           /\ \A i \in 1 .. Len(t) : (s \o t)[Len(s) + i] = t[i]
<1> DEFINE S == Range(s) \cup Range(t)
           u == s \o t
<1>1. s \in Seq(S) /\ t \in Seq(S) /\ Len(s) \in Nat /\ Len(t) \in Nat
  <2>1. Len(s) \in Nat /\ DOMAIN s = 1 .. Len(s) /\ Len(t) \in Nat /\ DOMAIN t = 1 .. Len(t)
    BY SeqIs
  <2>2. s \in [1 .. Len(s) -> S] /\ t \in [1 .. Len(t) -> S]
    BY <2>1, SeqIs DEF Range
  <2>3. QED
    BY <2>1, <2>2, IsSequence
<1>2. /\ u \in Seq(S) /\ Len(u) = Len(s) + Len(t)
      /\ \A i \in 1 .. Len(s) + Len(t) : u[i] = IF i <= Len(s) THEN s[i] ELSE t[i - Len(s)]
  BY <1>1, ConcatProperties, Zenon
<1>3. PICK m \in Nat, n \in Nat : m = Len(s) /\ n = Len(t)
  BY <1>1
<1>4. IsSeq(u) /\ DOMAIN u = 1 .. m + n
  BY <1>2, <1>3, OwnElements DEF IsSeq
<1>5. \A i \in 1 .. m : u[i] = s[i]
  <2>1. TAKE i \in 1 .. m
  <2>2. i \in 1 .. m + n /\ i <= m
    BY <1>3
  <2>3. QED
    BY ONLY <1>2, <1>3, <2>2
<1>6. \A i \in 1 .. n : u[m + i] = t[i]
  <2>1. TAKE i \in 1 .. n
  <2>2. m + i \in 1 .. m + n /\ ~ m + i <= m /\ m + i - m = i
    BY <1>3
  <2>3. QED
    BY ONLY <1>2, <1>3, <2>2
<1> HIDE DEF u
<1>7. Range(u) \subseteq S
  BY <1>2, OwnElements, LenProperties DEF Range
<1>8. ASSUME NEW x \in S PROVE x \in Range(u)
  <2>1. CASE x \in Range(s)
    <3>1. PICK i \in 1 .. m : x = s[i]
      BY <1>3, <2>1, SeqIs DEF Range
    <3>2. i \in DOMAIN u /\ u[i] = x
      BY <1>3, <1>4, <1>5, <3>1
    <3>3. QED
      BY <3>2 DEF Range
  <2>2. CASE x \in Range(t)
    <3>1. PICK i \in 1 .. n : x = t[i]
      BY <1>3, <2>2, SeqIs DEF Range
    <3>2. m + i \in DOMAIN u /\ u[m + i] = x
      BY <1>3, <1>4, <1>6, <3>1
    <3>3. QED
      BY <3>2 DEF Range
  <2>3. QED
    BY <2>1, <2>2
<1>9. Range(u) = S
  BY <1>7, <1>8
<1>10. QED
  BY <1>2, <1>3, <1>4, <1>5, <1>6, <1>9 DEF u

\* Every non-empty set of natural numbers has a least one.
LEMMA LeastOf ==
    ASSUME NEW M \in SUBSET Nat, M # {}
    PROVE  \E m \in M : \A n \in M : m <= n
<1>1. PICK m \in M : \A n \in M : ~(<<n, m>> \in OpToRel(<, Nat))
  BY WFMin, NatLessThanWellFounded
<1>2. ASSUME NEW n \in M PROVE m <= n
  <2>1. SUFFICES ASSUME n < m PROVE FALSE
    OBVIOUS
  <2>2. <<n, m>> \in OpToRel(<, Nat)
    BY <2>1 DEF OpToRel
  <2>3. QED
    BY <1>1, <2>2
<1>3. QED
  BY <1>2

\* The recursion that puts sequences together, one after another.
Joined(ss, n, f) == f = [i \in 1 .. n |-> IF i = 1 THEN ss[i] ELSE f[i - 1] \o ss[i]]

\* A fold that concatenates exists, up to any length.
LEMMA JoinedExists ==
    ASSUME NEW ss, NEW n \in Nat PROVE \E f : Joined(ss, n, f)
<1> DEFINE Bad == {m \in Nat : ~\E f : Joined(ss, m, f)}
<1>1. Bad = {}
  <2>1. SUFFICES ASSUME Bad # {} PROVE FALSE
    OBVIOUS
  <2>2. PICK m \in Bad : \A k \in Bad : m <= k
    <3>1. Bad \in SUBSET Nat
      OBVIOUS
    <3> HIDE DEF Bad
    <3> QED BY <2>1, <3>1, LeastOf
  <2>3. m \in Nat /\ ~\E f : Joined(ss, m, f)
    BY <2>2
  <2>4. m # 0
    <3>1. SUFFICES ASSUME m = 0 PROVE FALSE
      OBVIOUS
    <3>2. \A f : 1 .. 0 = {}
      OBVIOUS
    <3>3. Joined(ss, 0, [i \in {} |-> 0])
      BY <3>2 DEF Joined
    <3>4. QED
      BY <2>3, <3>1, <3>3
  <2>5. m - 1 \in Nat /\ m - 1 \notin Bad
    BY <2>2, <2>3, <2>4
  <2>6. PICK f : Joined(ss, m - 1, f)
    BY <2>5
  <2> DEFINE h == [i \in 1 .. m |-> IF i = 1 THEN ss[i] ELSE f[i - 1] \o ss[i]]
  <2>7. \A i \in 1 .. m - 1 : h[i] = f[i]
    <3>1. SUFFICES ASSUME NEW i \in 1 .. m - 1 PROVE h[i] = f[i]
      OBVIOUS
    <3>2. f[i] = IF i = 1 THEN ss[i] ELSE f[i - 1] \o ss[i]
      BY ONLY <2>6, i \in 1 .. m - 1 DEF Joined
    <3>3. i \in 1 .. m
      BY <2>3
    <3>4. h[i] = IF i = 1 THEN ss[i] ELSE f[i - 1] \o ss[i]
      BY ONLY <3>3
    <3>5. QED
      BY ONLY <3>2, <3>4
  <2>8. \A i \in 1 .. m : i # 1 => i - 1 \in 1 .. m - 1
    BY <2>3
  <2>9. \A i \in 1 .. m : h[i] = IF i = 1 THEN ss[i] ELSE h[i - 1] \o ss[i]
    <3>1. \A i \in 1 .. m : h[i] = IF i = 1 THEN ss[i] ELSE f[i - 1] \o ss[i]
      OBVIOUS
    <3> HIDE DEF h
    <3> QED BY <2>7, <2>8, <3>1
  <2>10. Joined(ss, m, h)
    BY <2>9 DEF Joined
  <2>11. QED
    BY <2>3, <2>10
<1>2. QED
  BY <1>1

\* Sequences put together have all their elements.
LEMMA FlattenIs ==
    ASSUME NEW ss, IsSeq(ss), \A i \in DOMAIN ss : IsSeq(ss[i])
    PROVE  IsSeq(FlattenSeq(ss)) /\ Range(FlattenSeq(ss)) = UNION {Range(ss[i]) : i \in DOMAIN ss}
<1>1. PICK n \in Nat : n = Len(ss) /\ DOMAIN ss = 1 .. n
  BY SeqIs
<1>2. CASE n = 0
  <2>1. FlattenSeq(ss) = ss
    BY <1>1, <1>2 DEF FlattenSeq
  <2>2. DOMAIN ss = {}
    BY <1>1, <1>2
  <2>3. QED
    BY <2>1, <2>2 DEF Range
<1>3. CASE n # 0
  <2>1. FlattenSeq(ss) = (CHOOSE f : Joined(ss, n, f))[n]
    BY <1>1, <1>3 DEF FlattenSeq, Joined
  <2>2. PICK f : Joined(ss, n, f) /\ FlattenSeq(ss) = f[n]
    BY <2>1, JoinedExists
  <2>3. \A i \in 1 .. n : f[i] = IF i = 1 THEN ss[i] ELSE f[i - 1] \o ss[i]
    BY <2>2 DEF Joined
  <2> DEFINE Bad == {i \in 1 .. n : ~(IsSeq(f[i]) /\ Range(f[i]) = UNION {Range(ss[j]) : j \in 1 .. i})}
  <2>4. Bad = {}
    <3>1. SUFFICES ASSUME Bad # {} PROVE FALSE
      OBVIOUS
    <3>2. PICK m \in Bad : \A k \in Bad : m <= k
      <4>1. Bad \in SUBSET Nat
        OBVIOUS
      <4> HIDE DEF Bad
      <4> QED BY <3>1, <4>1, LeastOf
    <3>3. m \in 1 .. n /\ ~(IsSeq(f[m]) /\ Range(f[m]) = UNION {Range(ss[j]) : j \in 1 .. m})
      BY <3>2
    <3>4. CASE m = 1
      <4>1. f[m] = ss[1] /\ 1 \in DOMAIN ss /\ 1 .. m = {1}
        BY <1>1, <2>3, <3>3, <3>4
      <4>2. IsSeq(f[m]) /\ Range(f[m]) = UNION {Range(ss[j]) : j \in 1 .. m}
        BY <4>1
      <4>3. QED
        BY <3>3, <4>2
    <3>5. CASE m # 1
      <4>1. m - 1 \in 1 .. n /\ ~ m <= m - 1 /\ 1 .. m = (1 .. m - 1) \cup {m} /\ m \in DOMAIN ss
        BY <1>1, <3>3, <3>5
      <4>2. m - 1 \notin Bad
        BY <3>2, <4>1
      <4>3. IsSeq(f[m - 1]) /\ Range(f[m - 1]) = UNION {Range(ss[j]) : j \in 1 .. m - 1}
        BY <4>1, <4>2
      <4>4. f[m] = f[m - 1] \o ss[m]
        BY <2>3, <3>3, <3>5
      <4>5. IsSeq(f[m]) /\ Range(f[m]) = Range(f[m - 1]) \cup Range(ss[m])
        BY <4>1, <4>3, <4>4, ConcatIs
      <4>6. Range(f[m]) = UNION {Range(ss[j]) : j \in 1 .. m}
        BY <4>1, <4>3, <4>5
      <4>7. QED
        BY <3>3, <4>5, <4>6
    <3>6. QED
      BY <3>4, <3>5
  <2>5. n \in 1 .. n
    BY <1>3
  <2>6. QED
    BY <1>1, <2>2, <2>4, <2>5
<1>4. QED
  BY <1>2, <1>3

-----------------------------------------------------------------------------
(* Sorting by a number, the greatest first and ties in the order of places. *)

\* The members before one, and how many they are.
Behind(S, f, x) == {y \in S : f[y] > f[x] \/ (f[y] = f[x] /\ y < x)}
Place(S, f, x) == Cardinality(Behind(S, f, x))

\* Places count from 0 and tell the members of a set apart.
Placed(S, f) ==
    /\ Cardinality(S) \in Nat
    /\ \A x \in S : Place(S, f, x) \in Nat /\ Place(S, f, x) < Cardinality(S)
    /\ \A x, y \in S : Place(S, f, x) = Place(S, f, y) => x = y
    /\ \A i \in 1 .. Cardinality(S) : \E x \in S : Place(S, f, x) = i - 1

\* The numbers before a member of a finite set tell its place in the order of the values.
LEMMA Places ==
    ASSUME NEW S, IsFiniteSet(S), S \subseteq Nat, NEW f \in [S -> Int]
    PROVE  Placed(S, f)
<1> DEFINE r(x) == Place(S, f, x)
           B(x) == Behind(S, f, x)
<1>1. Cardinality(S) \in Nat /\ \A x \in S : f[x] \in Int /\ x \in Nat
  BY FS_CardinalityType
<1>2. ASSUME NEW x \in S PROVE IsFiniteSet(B(x)) /\ r(x) \in Nat /\ r(x) < Cardinality(S)
  <2>1. B(x) \in SUBSET S
    BY DEF Behind
  <2>2. IsFiniteSet(B(x)) /\ r(x) <= Cardinality(S) /\ (r(x) = Cardinality(S) => B(x) = S)
    BY <2>1, FS_Subset DEF Place
  <2>3. r(x) \in Nat
    BY <2>2, FS_CardinalityType DEF Place
  <2>4. x \notin B(x)
    BY <1>1 DEF Behind
  <2>5. QED
    BY <1>1, <2>2, <2>3, <2>4
<1>3. ASSUME NEW x \in S, NEW y \in S, x \in B(y) PROVE r(x) < r(y)
  <2>1. B(x) \cup {x} \in SUBSET B(y)
    <3>1. f[x] \in Int /\ f[y] \in Int /\ x \in Nat /\ y \in Nat /\ (f[x] > f[y] \/ (f[x] = f[y] /\ x < y))
      BY <1>1, <1>3 DEF Behind
    <3>2. ASSUME NEW z \in B(x) PROVE z \in B(y)
      <4>1. z \in S /\ f[z] \in Int /\ z \in Nat /\ (f[z] > f[x] \/ (f[z] = f[x] /\ z < x))
        BY <1>1, <3>2 DEF Behind
      <4>2. PICK fx \in Int, fy \in Int, fz \in Int : fx = f[x] /\ fy = f[y] /\ fz = f[z]
        BY <3>1, <4>1
      <4>3. f[z] > f[y] \/ (f[z] = f[y] /\ z < y)
        BY <3>1, <4>1, <4>2
      <4>4. QED
        BY <4>1, <4>3 DEF Behind
    <3>3. QED
      BY <1>3, <3>2
  <2>2. x \notin B(x)
    BY <1>1 DEF Behind
  <2>3. Cardinality(B(x) \cup {x}) = r(x) + 1
    BY <1>2, <2>2, FS_AddElement DEF Place
  <2>4. Cardinality(B(x) \cup {x}) <= r(y)
    BY <1>2, <2>1, FS_Subset DEF Place
  <2>5. QED
    BY <1>2, <2>3, <2>4
<1>4. \A x, y \in S : r(x) = r(y) => x = y
  <2> SUFFICES ASSUME NEW x \in S, NEW y \in S, x # y PROVE r(x) # r(y)
    OBVIOUS
  <2>1. x \in B(y) \/ y \in B(x)
    <3>1. f[x] \in Int /\ f[y] \in Int /\ x \in Nat /\ y \in Nat
      BY <1>1
    <3>2. f[x] > f[y] \/ f[y] > f[x] \/ (f[x] = f[y] /\ (x < y \/ y < x))
      BY <3>1
    <3>3. QED
      BY <3>2 DEF Behind
  <2>2. r(x) \in Nat /\ r(y) \in Nat
    BY <1>2
  <2>3. (x \in B(y) => r(x) < r(y)) /\ (y \in B(x) => r(y) < r(x))
    BY <1>3
  <2> HIDE DEF r, B
  <2>4. QED
    BY <2>1, <2>2, <2>3
<1>5. ASSUME NEW i \in 1 .. Cardinality(S) PROVE \E x \in S : r(x) = i - 1
  <2> DEFINE T == 0 .. (Cardinality(S) - 1)
             g == [x \in S |-> r(x)]
  <2>1. IsFiniteSet(T) /\ Cardinality(T) = Cardinality(S)
    <3>1. PICK n \in Nat : n = Cardinality(S)
      BY <1>1
    <3>2. 0 \in Int /\ n - 1 \in Int
      OBVIOUS
    <3>3. IsFiniteSet(0 .. (n - 1)) /\ Cardinality(0 .. (n - 1)) = IF 0 > n - 1 THEN 0 ELSE n - 1 - 0 + 1
      BY <3>2, FS_Interval, Zenon
    <3>4. QED
      BY <3>1, <3>3
  <2>2. g \in Injection(S, T)
    <3>1. \A x \in S : r(x) \in T
      BY <1>1, <1>2
    <3> HIDE DEF r, T
    <3>3. g \in [S -> T] /\ \A x, y \in S : g[x] = g[y] => x = y
      BY <3>1, <1>4
    <3> HIDE DEF g
    <3>4. QED
      BY <3>3 DEF Injection, IsInjective
  <2>3. i - 1 \in T
    BY <1>1
  <2> HIDE DEF T, g
  <2>4. g \in Surjection(S, T)
    BY <2>1, <2>2, FS_Injection
  <2>5. \E x \in S : g[x] = i - 1
    BY <2>3, <2>4 DEF Surjection
  <2>6. QED
    BY <2>5 DEF g
<1>6. QED
  BY <1>1, <1>2, <1>4, <1>5 DEF Placed

\* What is concatenated to nothing is itself.
LEMMA WorkedOut == ASSUME NEW s, IsSeq(s) PROVE <<>> \o s = s
<1>1. s \in Seq(Range(s))
  BY DEF IsSeq
<1>2. QED
  BY <1>1, ConcatEmptySeq

\* What Ordered looks up: the members that have a place.
LookUp(placed, k) == (CHOOSE p \in placed : p[1] = k)[2]
WithPlaces(S, g) == {<<g[x], x>> : x \in S}
LooksUp(S, g, n, s) == \A i \in 1 .. n : s[i] = LookUp(WithPlaces(S, g), i - 1)
Filled(S, g, n) == \A i \in 1 .. n : \E x \in S : g[x] = i - 1
Lists(S, g, n, s) == \A i \in 1 .. n : s[i] \in S /\ g[s[i]] = i - 1

\* What a table of places gives back is what stands at each place.
LEMMA LookedUp ==
    ASSUME NEW S, NEW g, NEW n, NEW s, LooksUp(S, g, n, s), Filled(S, g, n) PROVE Lists(S, g, n, s)
<1> SUFFICES ASSUME NEW i \in 1 .. n PROVE s[i] \in S /\ g[s[i]] = i - 1
  BY DEF Lists
<1> DEFINE placed == WithPlaces(S, g)
<1>1. PICK k : k = i - 1
  OBVIOUS
<1>2. PICK x \in S : g[x] = k
  BY <1>1 DEF Filled
<1>3. <<g[x], x>> \in placed /\ <<g[x], x>>[1] = k
  BY <1>2 DEF WithPlaces
<1>4. PICK p : p = CHOOSE q \in placed : q[1] = k
  OBVIOUS
<1>5. p \in placed /\ p[1] = k
  BY ONLY <1>3, <1>4, Zenon
<1>6. PICK z \in S : p = <<g[z], z>>
  BY <1>5 DEF WithPlaces
<1>7. p[1] = g[z] /\ p[2] = z
  BY ONLY <1>6
<1>8. s[i] = p[2]
  BY <1>1, <1>4 DEF LookUp, LooksUp
<1>9. QED
  BY ONLY <1>1, <1>5, <1>7, <1>8, z \in S

\* The numbers of a set in increasing order.
LEMMA Increasing ==
    ASSUME NEW P, IsFiniteSet(P), P \subseteq Nat
    PROVE  /\ IsSeq(Ordered(P, <)) /\ Len(Ordered(P, <)) = Cardinality(P)
           /\ Range(Ordered(P, <)) = P /\ IsInjective(Ordered(P, <))
<1> DEFINE f == [x \in P |-> 0]
           n == Cardinality(P)
           placed == {<<Cardinality({y \in P : y < x}), x>> : x \in P}
           g == [x \in P |-> Cardinality({y \in P : y < x})]
           s == [i \in 1 .. n |-> (CHOOSE p \in placed : p[1] = i - 1)[2]]
<1>1. /\ n \in Nat
      /\ \A x \in P : Place(P, f, x) \in Nat /\ Place(P, f, x) < n
      /\ \A x, y \in P : Place(P, f, x) = Place(P, f, y) => x = y
      /\ \A i \in 1 .. n : \E x \in P : Place(P, f, x) = i - 1
  <2>1. f \in [P -> Int]
    OBVIOUS
  <2> HIDE DEF f
  <2>2. Placed(P, f)
    BY ONLY IsFiniteSet(P), P \subseteq Nat, <2>1, Places
  <2> QED BY ONLY <2>2 DEF Placed, n
<1>2. \A x \in P : Cardinality({y \in P : y < x}) = Place(P, f, x)
  <2>1. SUFFICES ASSUME NEW x \in P PROVE {y \in P : y < x} = Behind(P, f, x)
    BY DEF Place
  <2>2. QED
    BY DEF Behind
<1> HIDE DEF f
<1>3. \A i \in 1 .. n : \E x \in P : Cardinality({y \in P : y < x}) = i - 1
  BY <1>1, <1>2
<1>4. \A i \in 1 .. n : s[i] \in P /\ Place(P, f, s[i]) = i - 1
  <2>1. placed = WithPlaces(P, g) /\ \A x \in P : g[x] = Cardinality({y \in P : y < x})
    BY DEF WithPlaces
  <2>2. \A i \in 1 .. n : s[i] = LookUp(placed, i - 1)
    BY DEF LookUp
  <2> HIDE DEF s, g, placed, n
  <2>3. LooksUp(P, g, n, s)
    BY ONLY <2>1, <2>2 DEF LooksUp
  <2>4. Filled(P, g, n)
    BY <1>3, <2>1 DEF Filled
  <2>5. Lists(P, g, n, s)
    BY ONLY <2>3, <2>4, LookedUp
  <2>6. QED
    BY <1>2, <2>1, <2>5 DEF Lists
<1>5. Ordered(P, <) = <<>> \o s
  BY Zenon DEF Ordered
<1>6. DOMAIN s = 1 .. n /\ s = [i \in 1 .. n |-> s[i]]
  BY ONLY TRUE
<1> HIDE DEF s, n
<1>7. IsSeq(s) /\ Len(s) = n
  BY <1>1, <1>6, FunctionIsSeq
<1>8. Range(s) = P
  <2>1. ASSUME NEW x \in P PROVE x \in Range(s)
    <3>1. PICK p : p = Place(P, f, x) /\ p \in Nat /\ p < n
      BY <1>1
    <3>2. PICK i : i = p + 1
      OBVIOUS
    <3>5. i \in 1 .. n /\ i - 1 = p
      BY ONLY <1>1, <3>1, <3>2
    <3>3. s[i] = x
      <4>1. s[i] \in P /\ Place(P, f, s[i]) = p
        BY ONLY <1>4, <3>5
      <4>2. QED
        BY ONLY <1>1, <3>1, <4>1, x \in P
    <3>4. QED
      BY <1>6, <3>5, <3>3 DEF Range
  <2>2. QED
    BY <1>4, <1>6, <2>1 DEF Range
<1>9. IsInjective(s)
  <2>1. SUFFICES ASSUME NEW i \in 1 .. n, NEW j \in 1 .. n, s[i] = s[j] PROVE i = j
    BY <1>6 DEF IsInjective
  <2>2. i - 1 = j - 1
    BY <1>4, <2>1
  <2>3. QED
    BY <1>1, <2>2
<1>10. QED
  BY <1>5, <1>7, <1>8, <1>9, WorkedOut DEF n

\* A list of one.
LEMMA SingleIs == ASSUME NEW x PROVE IsSeq(<<x>>) /\ Range(<<x>>) = {x} /\ Len(<<x>>) = 1 /\ <<x>>[1] = x
<1> DEFINE s == <<x>>
<1>1. DOMAIN s = 1 .. 1 /\ s[1] = x /\ s = [i \in 1 .. 1 |-> s[i]]
  OBVIOUS
<1>2. IsSeq(s) /\ Len(s) = 1
  BY ONLY <1>1, FunctionIsSeq
<1>3. Range(s) = {x}
  BY <1>1 DEF Range
<1>4. QED
  BY <1>1, <1>2, <1>3

\* A sequence has finitely many elements.
LEMMA RangeIsFinite == ASSUME NEW s, IsSeq(s) PROVE IsFiniteSet(Range(s))
<1>1. PICK n \in Nat : DOMAIN s = 1 .. n
  BY SeqIs
<1>2. IsFiniteSet(1 .. n)
  <2>1. 1 \in Int /\ n \in Int
    OBVIOUS
  <2>2. QED
    BY ONLY <2>1, FS_Interval
<1>3. s \in Surjection(1 .. n, Range(s))
  <2>1. s = [i \in 1 .. n |-> s[i]]
    BY <1>1, SeqIs
  <2>2. s \in [1 .. n -> Range(s)] /\ \A x \in Range(s) : \E i \in 1 .. n : s[i] = x
    BY <1>1, <2>1 DEF Range
  <2>3. QED
    BY <2>2 DEF Surjection
<1>4. QED
  BY <1>2, <1>3, FS_Surjection

\* The empty sequence.
LEMMA EmptySequences ==
    /\ <<>> \in Seq(Range(<<>>)) /\ Len(<<>>) = 0 /\ DOMAIN <<>> = {}
BY DEF Range

\* The elements at some places of a sequence, in its order.
WhereAt(s, passing) ==
    LET kept[i \in 0 .. Len(s)] ==
            IF i = 0 THEN <<>> ELSE IF i \in passing THEN Append(kept[i - 1], s[i]) ELSE kept[i - 1]
    IN  kept[Len(s)]
Keeping(s, P, n, kept) ==
    kept = [i \in 0 .. n |->
            IF i = 0 THEN <<>> ELSE IF i \in P THEN Append(kept[i - 1], s[i]) ELSE kept[i - 1]]

\* The recursion that keeps the elements which pass exists, up to any length.
LEMMA KeepingExists ==
    ASSUME NEW s, NEW P, NEW n \in Nat PROVE \E f : Keeping(s, P, n, f)
<1> DEFINE Bad == {m \in Nat : ~\E f : Keeping(s, P, m, f)}
<1>1. Bad = {}
  <2>1. SUFFICES ASSUME Bad # {} PROVE FALSE
    OBVIOUS
  <2>2. PICK m \in Bad : \A k \in Bad : m <= k
    <3>1. Bad \in SUBSET Nat
      OBVIOUS
    <3> HIDE DEF Bad
    <3> QED BY <2>1, <3>1, LeastOf
  <2>3. m \in Nat /\ ~\E f : Keeping(s, P, m, f)
    BY <2>2
  <2>4. m # 0
    <3>1. SUFFICES ASSUME m = 0 PROVE FALSE
      OBVIOUS
    <3>2. PICK g : g = [i \in 0 .. 0 |-> <<>>]
      OBVIOUS
    <3>3. Keeping(s, P, 0, g)
      BY <3>2 DEF Keeping
    <3>4. QED
      BY <2>3, <3>1, <3>3
  <2>5. m - 1 \in Nat /\ m - 1 \notin Bad
    BY <2>2, <2>3, <2>4
  <2>6. PICK f : Keeping(s, P, m - 1, f)
    BY <2>5
  <2> DEFINE h == [i \in 0 .. m |-> IF i = 0 THEN <<>> ELSE IF i \in P THEN Append(f[i - 1], s[i]) ELSE f[i - 1]]
  <2>7. \A i \in 0 .. m - 1 : i \in 0 .. m /\ h[i] = f[i]
    <3>1. SUFFICES ASSUME NEW i \in 0 .. m - 1 PROVE i \in 0 .. m /\ h[i] = f[i]
      OBVIOUS
    <3>2. f[i] = IF i = 0 THEN <<>> ELSE IF i \in P THEN Append(f[i - 1], s[i]) ELSE f[i - 1]
      BY ONLY <2>6, i \in 0 .. m - 1 DEF Keeping
    <3>3. i \in 0 .. m
      BY <2>3
    <3>4. h[i] = IF i = 0 THEN <<>> ELSE IF i \in P THEN Append(f[i - 1], s[i]) ELSE f[i - 1]
      BY ONLY <3>3
    <3>5. QED
      BY ONLY <3>2, <3>3, <3>4
  <2>8. \A i \in 0 .. m : i # 0 => i - 1 \in 0 .. m - 1
    BY <2>3
  <2>9. h = [i \in 0 .. m |-> IF i = 0 THEN <<>> ELSE IF i \in P THEN Append(h[i - 1], s[i]) ELSE h[i - 1]]
    <3>1. h = [i \in 0 .. m |-> IF i = 0 THEN <<>> ELSE IF i \in P THEN Append(f[i - 1], s[i]) ELSE f[i - 1]]
      BY ONLY TRUE
    <3> HIDE DEF h
    <3> QED BY <2>7, <2>8, <3>1
  <2> HIDE DEF h
  <2>10. Keeping(s, P, m, h)
    BY <2>9 DEF Keeping
  <2>11. QED
    BY <2>3, <2>10
<1>2. QED
  BY <1>1

\* What appending adds.
LEMMA AppendIs ==
    ASSUME NEW s, IsSeq(s), NEW x
    PROVE  IsSeq(Append(s, x)) /\ Len(Append(s, x)) = Len(s) + 1 /\ Range(Append(s, x)) = Range(s) \cup {x}
<1>1. IsSeq(<<x>>) /\ Range(<<x>>) = {x} /\ Len(<<x>>) = 1
  BY SingleIs
<1>2. Append(s, x) = s \o <<x>>
  <2>1. s \in Seq(Range(s) \cup {x}) /\ x \in Range(s) \cup {x}
    <3>1. s \in [1 .. Len(s) -> Range(s) \cup {x}] /\ Len(s) \in Nat
      BY SeqIs DEF Range
    <3>2. QED
      BY <3>1, IsSequence
  <2>2. QED
    BY <2>1, AppendIsConcat
<1>3. QED
  BY <1>1, <1>2, ConcatIs

\* What is kept are the elements that pass.
LEMMA WhereIs ==
    ASSUME NEW s, IsSeq(s), NEW P, P \subseteq DOMAIN s
    PROVE  IsSeq(WhereAt(s, P)) /\ Range(WhereAt(s, P)) = {s[i] : i \in P}
<1>1. PICK n \in Nat : n = Len(s) /\ DOMAIN s = 1 .. n
  BY SeqIs
<1>2. WhereAt(s, P) = (CHOOSE f : Keeping(s, P, Len(s), f))[Len(s)]
  BY Zenon DEF WhereAt, Keeping
<1>3. PICK f : f = CHOOSE g : Keeping(s, P, n, g)
  OBVIOUS
<1>4. Keeping(s, P, n, f)
  BY <1>3, KeepingExists
<1> DEFINE Good(m) == IsSeq(f[m]) /\ Range(f[m]) = {s[i] : i \in P \cap 1 .. m}
           Bad == {m \in 0 .. n : ~Good(m)}
<1>5. Bad = {}
  <2>1. SUFFICES ASSUME Bad # {} PROVE FALSE
    OBVIOUS
  <2>2. PICK m \in Bad : \A k \in Bad : m <= k
    <3>1. Bad \in SUBSET Nat
      OBVIOUS
    <3> HIDE DEF Bad
    <3> QED BY <2>1, <3>1, LeastOf
  <2>3. m \in 0 .. n /\ ~Good(m)
    BY <2>2
  <2>4. f[m] = IF m = 0 THEN <<>> ELSE IF m \in P THEN Append(f[m - 1], s[m]) ELSE f[m - 1]
    BY ONLY <1>4, m \in 0 .. n DEF Keeping
  <2>5. m # 0
    <3>1. SUFFICES ASSUME m = 0 PROVE FALSE
      OBVIOUS
    <3>2. f[m] = <<>> /\ IsSeq(<<>>) /\ Range(<<>>) = {}
      BY <2>4, <3>1, EmptySequences DEF IsSeq, Range
    <3>3. P \cap 1 .. m = {}
      BY <3>1
    <3>4. QED
      BY <2>3, <3>2, <3>3
  <2>6. PICK k : k = m - 1
    OBVIOUS
  <2>7. k \in 0 .. n /\ m \in 1 .. n /\ k \notin Bad /\ 1 .. m = (1 .. k) \cup {m}
    BY <2>2, <2>3, <2>5, <2>6
  <2>8. IsSeq(f[k]) /\ Range(f[k]) = {s[i] : i \in P \cap 1 .. k}
    BY <2>7
  <2>9. CASE m \in P
    <3>1. f[m] = Append(f[k], s[m])
      BY ONLY <2>4, <2>5, <2>6, <2>9
    <3>2. IsSeq(f[m]) /\ Range(f[m]) = {s[i] : i \in P \cap 1 .. k} \cup {s[m]}
      BY ONLY <3>1, <2>8, AppendIs
    <3>3. P \cap 1 .. m = (P \cap 1 .. k) \cup {m}
      BY ONLY <2>7, <2>9
    <3>4. {s[i] : i \in P \cap 1 .. m} = {s[i] : i \in P \cap 1 .. k} \cup {s[m]}
      BY ONLY <3>3
    <3>5. QED
      BY <2>3, <3>2, <3>4
  <2>10. CASE m \notin P
    <3>1. f[m] = f[k]
      BY ONLY <2>4, <2>5, <2>6, <2>10
    <3>2. P \cap 1 .. m = P \cap 1 .. k
      BY ONLY <2>7, <2>10
    <3>3. QED
      BY <2>3, <2>8, <3>1, <3>2
  <2>11. QED
    BY <2>9, <2>10
<1>6. Good(n)
  BY <1>5
<1>7. P \cap 1 .. n = P
  BY <1>1
<1>8. QED
  BY <1>1, <1>2, <1>3, <1>6, <1>7

-----------------------------------------------------------------------------
\* The first k of a list.
LEMMA TopIs ==
    ASSUME NEW s, IsSeq(s), NEW k \in Nat
    PROVE  /\ IsSeq(Top(s, k)) /\ Len(Top(s, k)) \in Nat /\ Len(Top(s, k)) <= k /\ Len(Top(s, k)) <= Len(s)
           /\ \A i \in 1 .. Len(Top(s, k)) : Top(s, k)[i] = s[i]
<1>1. PICK m \in Nat : m = Len(s) /\ DOMAIN s = 1 .. m
  BY SeqIs
<1>2. PICK n \in Nat : n = Min({k, m}) /\ n <= k /\ n <= m
  BY LesserOf
<1>3. Top(s, k) = SubSeq(s, 1, n)
  BY <1>1, <1>2 DEF Top
<1>4. \A i \in 1 .. n : s[i] \in Range(s)
  BY <1>1, <1>2 DEF Range
<1>5. /\ SubSeq(s, 1, n) \in Seq(Range(s)) /\ Len(SubSeq(s, 1, n)) = n
      /\ \A i \in 1 .. n : SubSeq(s, 1, n)[i] = s[i]
  <2>1. 1 \in Int /\ n \in Int
    OBVIOUS
  <2>2. /\ SubSeq(s, 1, n) \in Seq(Range(s)) /\ Len(SubSeq(s, 1, n)) = IF 1 <= n THEN n - 1 + 1 ELSE 0
        /\ \A i \in 1 .. n - 1 + 1 : SubSeq(s, 1, n)[i] = s[1 + i - 1]
    BY ONLY <1>4, <2>1, SubSeqProperties
  <2>3. n - 1 + 1 = n /\ \A i \in 1 .. n : 1 + i - 1 = i
    OBVIOUS
  <2>4. (IF 1 <= n THEN n - 1 + 1 ELSE 0) = n
    OBVIOUS
  <2>5. QED
    BY ONLY <2>2, <2>3, <2>4
<1>6. QED
  BY <1>1, <1>2, <1>3, <1>5, OwnElements DEF IsSeq

\* Clicks are counted by position as by rank.
LEMMA CountedOnce ==
    ASSUME NEW s, IsFiniteSet(DOMAIN s), IsInjective(s), NEW I, I \subseteq DOMAIN s, NEW T, T = {s[i] : i \in I}
    PROVE  Cardinality(T) = Cardinality(I)
<1>1. IsFiniteSet(I)
  BY FS_Subset
<1> DEFINE f == [i \in I |-> s[i]]
<1>2. f \in Bijection(I, T)
  BY DEF Bijection, Injection, Surjection, IsInjective
<1>3. ExistsBijection(I, T)
  BY <1>2 DEF ExistsBijection
<1>4. QED
  BY ONLY <1>1, <1>3, FS_Bijection

InOrder(ranks) == Ordered(ranks, <)
-----------------------------------------------------------------------------
(* Sorting by any total order: the members before one, and its rank. *)
Before(S, R, x) == {u \in S : <<u, x>> \in R}
RankBy(S, R, x) == Cardinality(Before(S, R, x))
TotalOrder(S, R) ==
    /\ \A x \in S : <<x, x>> \notin R
    /\ \A x, y, z \in S : <<x, y>> \in R /\ <<y, z>> \in R => <<x, z>> \in R
    /\ \A x, y \in S : x # y => <<x, y>> \in R \/ <<y, x>> \in R

\* In a total order, the number of members before one tells it from every other.
LEMMA RanksBy ==
    ASSUME NEW S, IsFiniteSet(S), NEW R, TotalOrder(S, R)
    PROVE  /\ \A x \in S : RankBy(S, R, x) \in Nat /\ RankBy(S, R, x) < Cardinality(S)
           /\ \A x, y \in S : /\ <<x, y>> \in R <=> RankBy(S, R, x) < RankBy(S, R, y)
                              /\ RankBy(S, R, x) = RankBy(S, R, y) => x = y
           /\ \A i \in 1 .. Cardinality(S) : \E x \in S : RankBy(S, R, x) = i - 1
<1> DEFINE r(x) == RankBy(S, R, x)
<1>1. Cardinality(S) \in Nat
  BY FS_CardinalityType
<1>2. ASSUME NEW x \in S PROVE IsFiniteSet(Before(S, R, x)) /\ r(x) \in Nat /\ r(x) < Cardinality(S)
  <2>1. Before(S, R, x) \in SUBSET S
    BY DEF Before
  <2>2. IsFiniteSet(Before(S, R, x)) /\ r(x) <= Cardinality(S) /\ (r(x) = Cardinality(S) => Before(S, R, x) = S)
    BY <2>1, FS_Subset DEF RankBy
  <2>3. r(x) \in Nat
    BY <2>2, FS_CardinalityType DEF RankBy
  <2>4. x \notin Before(S, R, x)
    BY DEF Before, TotalOrder
  <2>5. QED
    BY <1>1, <2>2, <2>3, <2>4
<1>3. ASSUME NEW x \in S, NEW y \in S, <<x, y>> \in R PROVE r(x) < r(y)
  <2>1. Before(S, R, x) \cup {x} \in SUBSET Before(S, R, y)
    BY <1>3 DEF Before, TotalOrder
  <2>2. x \notin Before(S, R, x)
    BY DEF Before, TotalOrder
  <2>3. Cardinality(Before(S, R, x) \cup {x}) = r(x) + 1
    BY <1>2, <2>2, FS_AddElement DEF RankBy
  <2>4. Cardinality(Before(S, R, x) \cup {x}) <= r(y)
    BY <1>2, <2>1, FS_Subset DEF RankBy
  <2>5. QED
    BY <1>2, <2>3, <2>4
<1>4. \A x, y \in S : (<<x, y>> \in R <=> r(x) < r(y)) /\ (r(x) = r(y) => x = y)
  <2> SUFFICES ASSUME NEW x \in S, NEW y \in S
               PROVE  (<<x, y>> \in R <=> r(x) < r(y)) /\ (r(x) = r(y) => x = y)
    OBVIOUS
  <2>1. x = y \/ <<x, y>> \in R \/ <<y, x>> \in R
    BY DEF TotalOrder
  <2>2. r(x) \in Nat /\ r(y) \in Nat
    BY <1>2
  <2>3. (<<x, y>> \in R => r(x) < r(y)) /\ (<<y, x>> \in R => r(y) < r(x))
    BY <1>3
  <2> HIDE DEF r
  <2>4. QED
    BY <2>1, <2>2, <2>3
<1>5. ASSUME NEW i \in 1 .. Cardinality(S) PROVE \E x \in S : r(x) = i - 1
  <2> DEFINE T == 0 .. (Cardinality(S) - 1)
             f == [x \in S |-> r(x)]
  <2>1. IsFiniteSet(T) /\ Cardinality(T) = Cardinality(S)
    <3>1. PICK n \in Nat : n = Cardinality(S)
      BY <1>1
    <3>2. 0 \in Int /\ n - 1 \in Int
      OBVIOUS
    <3>3. IsFiniteSet(0 .. (n - 1)) /\ Cardinality(0 .. (n - 1)) = IF 0 > n - 1 THEN 0 ELSE n - 1 - 0 + 1
      BY <3>2, FS_Interval, Zenon
    <3>4. QED
      BY <3>1, <3>3
  <2>2. f \in Injection(S, T)
    <3>1. \A x \in S : r(x) \in T
      BY <1>1, <1>2
    <3>2. \A x, y \in S : r(x) = r(y) => x = y
      BY <1>4
    <3> HIDE DEF r, T
    <3>3. f \in [S -> T] /\ \A x, y \in S : f[x] = f[y] => x = y
      BY <3>1, <3>2
    <3> HIDE DEF f
    <3>4. QED
      BY <3>3 DEF Injection, IsInjective
  <2>3. i - 1 \in T
    BY <1>1
  <2> HIDE DEF T, f
  <2>4. f \in Surjection(S, T)
    BY <2>1, <2>2, FS_Injection
  <2>5. \E x \in S : f[x] = i - 1
    BY <2>3, <2>4 DEF Surjection
  <2>6. QED
    BY <2>5 DEF f
<1>6. QED
  BY <1>2, <1>4, <1>5

\* A set listed in an order, each member once.
Listing(S, R, s) ==
    /\ IsSeq(s) /\ Len(s) = Cardinality(S) /\ Range(s) = S
    /\ \A i, j \in DOMAIN s : i < j => <<s[i], s[j]>> \in R
Ranked(S, R) == [x \in S |-> RankBy(S, R, x)]
Reads(placed, n, s) == s = [i \in 1 .. n |-> (CHOOSE p \in placed : p[1] = i - 1)[2]]

\* Reading the members of a set by the number before them lists the set in its order.
LEMMA OrderedIs ==
    ASSUME NEW S, IsFiniteSet(S), NEW R, TotalOrder(S, R), NEW placed, placed = WithPlaces(S, Ranked(S, R)),
           NEW s, Reads(placed, Cardinality(S), s)
    PROVE  Listing(S, R, <<>> \o s)
<1>1. PICK n \in Nat : n = Cardinality(S)
  BY FS_CardinalityType
<1>2. PICK g : g = Ranked(S, R)
  OBVIOUS
<1>3. \A x \in S : g[x] = RankBy(S, R, x)
  BY <1>2 DEF Ranked
<1>4. s = [i \in 1 .. n |-> (CHOOSE p \in placed : p[1] = i - 1)[2]]
  BY <1>1 DEF Reads
<1>5. s = [i \in 1 .. n |-> s[i]] /\ \A i \in 1 .. n : s[i] = LookUp(placed, i - 1)
  BY ONLY <1>4 DEF LookUp
<1>6. LooksUp(S, g, n, s)
  BY ONLY <1>2, <1>5, placed = WithPlaces(S, Ranked(S, R)) DEF LooksUp
<1>7. Filled(S, g, n)
  BY <1>1, <1>3, RanksBy DEF Filled
<1>8. Lists(S, g, n, s)
  BY ONLY <1>6, <1>7, LookedUp
<1>9. IsSeq(s) /\ Len(s) = n
  BY <1>5, FunctionIsSeq
<1>10. DOMAIN s = 1 .. n
  BY <1>9, SeqIs
<1>11. \A i \in 1 .. n : s[i] \in S /\ RankBy(S, R, s[i]) = i - 1
  BY <1>3, <1>8 DEF Lists
<1>12. Range(s) = S
  <2>1. ASSUME NEW x \in S PROVE x \in Range(s)
    <3>1. PICK k \in Nat : k = RankBy(S, R, x) /\ k < n
      BY <1>1, RanksBy
    <3>2. PICK i : i = k + 1
      OBVIOUS
    <3>3. i \in 1 .. n /\ k = i - 1
      BY <3>1, <3>2
    <3>4. s[i] \in S /\ RankBy(S, R, s[i]) = k
      BY <1>11, <3>3
    <3>5. s[i] = x
      BY <3>1, <3>4, RanksBy
    <3>6. QED
      BY <1>10, <3>3, <3>5 DEF Range
  <2>2. QED
    BY <1>10, <1>11, <2>1 DEF Range
<1>13. ASSUME NEW i \in DOMAIN s, NEW j \in DOMAIN s, i < j PROVE <<s[i], s[j]>> \in R
  <2>1. /\ s[i] \in S /\ s[j] \in S /\ RankBy(S, R, s[i]) = i - 1 /\ RankBy(S, R, s[j]) = j - 1
        /\ i \in 1 .. n /\ j \in 1 .. n
    BY <1>10, <1>11
  <2>2. RankBy(S, R, s[i]) < RankBy(S, R, s[j])
    BY <1>13, <2>1
  <2>3. QED
    BY <2>1, <2>2, RanksBy
<1>14. <<>> \o s = s
  BY <1>9, WorkedOut
<1>15. QED
  BY <1>1, <1>9, <1>12, <1>13, <1>14 DEF Listing

\* There is one such list, it has no repetitions, and every beginning of it lists
\* what is in it.
LEMMA ListingIsInjective ==
    ASSUME NEW S, NEW R, TotalOrder(S, R), NEW s, Listing(S, R, s)
    PROVE  IsInjective(s) /\ \A i, j \in DOMAIN s : <<s[i], s[j]>> \in R => i < j
<1>1. Len(s) \in Nat /\ DOMAIN s = 1 .. Len(s) /\ \A i \in DOMAIN s : s[i] \in S
  BY SeqIs DEF Listing, Range
<1>2. ASSUME NEW i \in DOMAIN s, NEW j \in DOMAIN s
      PROVE  /\ s[i] = s[j] => i = j
             /\ <<s[i], s[j]>> \in R => i < j
  <2>1. PICK n \in Nat : n = Len(s)
    BY <1>1
  <2>2. i \in 1 .. n /\ j \in 1 .. n /\ s[i] \in S /\ s[j] \in S
    BY <1>1, <2>1
  <2>3. (i < j => <<s[i], s[j]>> \in R) /\ (j < i => <<s[j], s[i]>> \in R)
    BY DEF Listing
  <2>4. i < j \/ j < i \/ i = j
    BY <2>2
  <2>5. PICK x, y : x = s[i] /\ y = s[j]
    OBVIOUS
  <2>6. <<x, x>> \notin R /\ <<y, y>> \notin R /\ (<<x, y>> \in R /\ <<y, x>> \in R => <<x, x>> \in R)
    BY <2>2, <2>5 DEF TotalOrder
  <2>7. QED
    BY ONLY <2>3, <2>4, <2>5, <2>6
<1>3. QED
  BY <1>2 DEF IsInjective

\* There is one way to list a set in a total order.
LEMMA OneListing ==
    ASSUME NEW S, NEW R, TotalOrder(S, R), NEW s, Listing(S, R, s), NEW t, Listing(S, R, t)
    PROVE  s = t
<1>1. PICK n : n = Cardinality(S)
  OBVIOUS
<1>2. /\ n \in Nat /\ DOMAIN s = 1 .. n /\ DOMAIN t = 1 .. n /\ Range(s) = S /\ Range(t) = S
      /\ s = [i \in 1 .. n |-> s[i]] /\ t = [i \in 1 .. n |-> t[i]]
  BY <1>1, SeqIs DEF Listing
<1>3. /\ \A i, j \in 1 .. n : s[i] = s[j] => i = j
      /\ \A i, j \in 1 .. n : t[i] = t[j] => i = j
      /\ \A i, j \in 1 .. n : i < j => <<s[i], s[j]>> \in R /\ <<t[i], t[j]>> \in R
  BY <1>2, ListingIsInjective DEF IsInjective, Listing
<1> DEFINE Bad == {i \in 1 .. n : s[i] # t[i]}
<1>4. Bad = {}
  <2>1. SUFFICES ASSUME Bad # {} PROVE FALSE
    OBVIOUS
  <2>2. PICK m \in Bad : \A k \in Bad : m <= k
    <3>1. Bad \in SUBSET Nat
      BY <1>2
    <3> HIDE DEF Bad
    <3> QED BY <2>1, <3>1, LeastOf
  <2>3. m \in 1 .. n /\ s[m] # t[m] /\ \A i \in 1 .. n : i < m => s[i] = t[i]
    BY <1>2, <2>2
  <2>4. s[m] \in S /\ t[m] \in S
    BY <1>2, <2>3 DEF Range
  <2>5. PICK j \in 1 .. n : t[j] = s[m]
    BY <1>2, <2>4 DEF Range
  <2>6. PICK k \in 1 .. n : s[k] = t[m]
    BY <1>2, <2>4 DEF Range
  <2>7. m < j /\ m < k
    <3>1. j # m /\ k # m
      BY <2>3, <2>5, <2>6
    <3>2. ~ j < m /\ ~ k < m
      BY <1>3, <2>3, <2>5, <2>6, <3>1
    <3>3. QED
      BY <1>2, <2>3, <3>1, <3>2
  <2>8. <<s[m], s[k]>> \in R /\ <<t[m], t[j]>> \in R
    BY <1>3, <2>3, <2>7
  <2>9. PICK x, y : x = s[m] /\ y = t[m]
    OBVIOUS
  <2>10. <<x, y>> \in R /\ <<y, x>> \in R /\ x \in S /\ y \in S
    BY <2>4, <2>5, <2>6, <2>8, <2>9
  <2>11. QED
    BY ONLY <2>10, TotalOrder(S, R) DEF TotalOrder
<1>5. QED
  BY <1>2, <1>4

\* The sorts of the studies: by a number, the greatest first, ties by an order.
ByScore(S, f, T) == {p \in S \X S : f[p[1]] > f[p[2]] \/ (f[p[1]] = f[p[2]] /\ p \in T)}
Less == {p \in Nat \X Nat : p[1] < p[2]}
After == {p \in Nat \X Nat : StringBelow(p[2], p[1])}

\* Who is ahead by score.
LEMMA ByScoreIs ==
    ASSUME NEW S, NEW f, NEW T
    PROVE  \A x, y \in S : <<x, y>> \in ByScore(S, f, T) <=> f[x] > f[y] \/ (f[x] = f[y] /\ <<x, y>> \in T)
BY DEF ByScore

\* Scores with ties broken by a total order are a total order.
LEMMA ByScoreIsTotal ==
    ASSUME NEW S, NEW f, \A x \in S : f[x] \in Int, NEW T, TotalOrder(S, T)
    PROVE  TotalOrder(S, ByScore(S, f, T))
<1> DEFINE R == ByScore(S, f, T)
<1>1. \A x, y \in S : <<x, y>> \in R <=> f[x] > f[y] \/ (f[x] = f[y] /\ <<x, y>> \in T)
  BY ByScoreIs
<1> HIDE DEF R
<1>2. ASSUME NEW x \in S PROVE <<x, x>> \notin R
  BY <1>1 DEF TotalOrder
<1>3. ASSUME NEW x \in S, NEW y \in S, NEW z \in S, <<x, y>> \in R, <<y, z>> \in R PROVE <<x, z>> \in R
  <2>1. PICK i \in Int, j \in Int, k \in Int : i = f[x] /\ j = f[y] /\ k = f[z]
    OBVIOUS
  <2>2. (i > j \/ (i = j /\ <<x, y>> \in T)) /\ (j > k \/ (j = k /\ <<y, z>> \in T))
    BY <1>1, <1>3, <2>1
  <2>3. <<x, y>> \in T /\ <<y, z>> \in T => <<x, z>> \in T
    BY DEF TotalOrder
  <2>4. i > k \/ (i = k /\ <<x, z>> \in T)
    BY ONLY <2>2, <2>3, i \in Int, j \in Int, k \in Int
  <2>5. QED
    BY <1>1, <2>1, <2>4
<1>4. ASSUME NEW x \in S, NEW y \in S, x # y PROVE <<x, y>> \in R \/ <<y, x>> \in R
  <2>1. PICK i \in Int, j \in Int : i = f[x] /\ j = f[y]
    OBVIOUS
  <2>2. i > j \/ j > i \/ i = j
    OBVIOUS
  <2>3. <<x, y>> \in T \/ <<y, x>> \in T
    BY <1>4 DEF TotalOrder
  <2>4. QED
    BY <1>1, <2>1, <2>2, <2>3
<1>5. QED
  BY <1>2, <1>3, <1>4 DEF TotalOrder, R

\* Numbers are totally ordered.
LEMMA LessIsTotal ==
    ASSUME NEW S, S \subseteq Nat PROVE TotalOrder(S, Less) /\ \A x, y \in S : <<x, y>> \in Less <=> x < y
<1>1. \A x, y \in S : (<<x, y>> \in Less <=> x < y) /\ x \in Nat /\ y \in Nat
  BY DEF Less
<1>2. QED
  BY <1>1 DEF TotalOrder

\* Strings of digits: by what leads, then by the rest.
Lead(x) == IF x < 10 THEN x ELSE x \div 10

\* Numbers as decimal strings, descending, are totally ordered.
LEMMA AfterIsTotal ==
    ASSUME NEW S, S \subseteq Nat PROVE TotalOrder(S, After) /\ \A x, y \in S : <<x, y>> \in After <=> StringBelow(y, x)
<1>1. \A x, y \in S : (<<x, y>> \in After <=> StringBelow(y, x)) /\ x \in Nat /\ y \in Nat
  BY DEF After
<1>2. \A x \in Nat : Lead(x) \in Nat
  <2>1. SUFFICES ASSUME NEW x \in Nat PROVE Lead(x) \in Nat
    OBVIOUS
  <2>2. x \div 10 \in Nat
    OBVIOUS
  <2>3. QED
    BY <2>2 DEF Lead
<1>3. \A x, y \in S : StringBelow(y, x) <=> Lead(y) < Lead(x) \/ (Lead(y) = Lead(x) /\ y < x)
  BY DEF StringBelow, Lead
<1>4. \A x, y \in S : <<x, y>> \in After <=> Lead(y) < Lead(x) \/ (Lead(y) = Lead(x) /\ y < x)
  BY <1>1, <1>3
<1>5. ASSUME NEW x \in S, NEW y \in S, NEW z \in S, <<x, y>> \in After, <<y, z>> \in After PROVE <<x, z>> \in After
  <2>1. PICK i \in Nat, j \in Nat, k \in Nat : i = Lead(x) /\ j = Lead(y) /\ k = Lead(z)
    BY <1>1, <1>2
  <2>2. (j < i \/ (j = i /\ y < x)) /\ (k < j \/ (k = j /\ z < y)) /\ x \in Nat /\ y \in Nat /\ z \in Nat
    BY <1>1, <1>4, <1>5, <2>1
  <2>3. k < i \/ (k = i /\ z < x)
    BY ONLY <2>2, i \in Nat, j \in Nat, k \in Nat
  <2>4. QED
    BY <1>4, <2>1, <2>3
<1>6. ASSUME NEW x \in S, NEW y \in S, x # y PROVE <<x, y>> \in After \/ <<y, x>> \in After
  <2>1. PICK i \in Nat, j \in Nat : i = Lead(x) /\ j = Lead(y)
    BY <1>1, <1>2
  <2>2. i < j \/ j < i \/ (i = j /\ (x < y \/ y < x))
    BY <1>1, <1>6
  <2>3. QED
    BY <1>4, <2>1, <2>2
<1>7. ASSUME NEW x \in S PROVE <<x, x>> \notin After
  <2>1. PICK i \in Nat : i = Lead(x) /\ x \in Nat
    BY <1>1, <1>2
  <2>2. QED
    BY <1>4, <2>1
<1>8. QED
  BY <1>1, <1>5, <1>6, <1>7 DEF TotalOrder

\* Either way of breaking ties makes scores a total order.
LEMMA ScoresAreTotal ==
    ASSUME NEW S, NEW f, Numbered(S, f)
    PROVE  TotalOrder(S, ByScore(S, f, Less)) /\ TotalOrder(S, ByScore(S, f, After))
<1>1. S \subseteq Nat /\ \A x \in S : f[x] \in Int
  BY DEF Numbered
<1>2. TotalOrder(S, Less) /\ TotalOrder(S, After)
  BY <1>1, LessIsTotal, AfterIsTotal
<1>3. QED
  BY <1>1, <1>2, ByScoreIsTotal

\* The members before one, in the words of the sorts.
LEMMA ScoredBefore ==
    ASSUME NEW S, NEW f, Numbered(S, f), NEW x \in S
    PROVE  /\ Before(S, ByScore(S, f, Less), x) = {y \in S : Ahead(f[y], f[x], y < x)}
           /\ Before(S, ByScore(S, f, After), x) = {y \in S : Ahead(f[y], f[x], StringBelow(x, y))}
<1>1. S \subseteq Nat
  BY DEF Numbered
<1>2. \A y \in S : (<<y, x>> \in Less <=> y < x) /\ (<<y, x>> \in After <=> StringBelow(x, y))
  BY <1>1, LessIsTotal, AfterIsTotal
<1>3. QED
  BY <1>2, ByScoreIs DEF Before, Ahead

\* Each of the sorts lists its set.
LEMMA SortLists ==
    ASSUME NEW S, NEW f, Numbered(S, f), NEW placed, NEW s, Reads(placed, Cardinality(S), s)
    PROVE  /\ placed = {<<Cardinality({y \in S : Ahead(f[y], f[x], y < x)}), x>> : x \in S}
                  => Listing(S, ByScore(S, f, Less), <<>> \o s)
           /\ placed = {<<Cardinality({y \in S : Ahead(f[y], f[x], StringBelow(x, y))}), x>> : x \in S}
                  => Listing(S, ByScore(S, f, After), <<>> \o s)
<1>1. IsFiniteSet(S) /\ TotalOrder(S, ByScore(S, f, Less)) /\ TotalOrder(S, ByScore(S, f, After))
  BY ScoresAreTotal DEF Numbered
<1>2. ASSUME placed = {<<Cardinality({y \in S : Ahead(f[y], f[x], y < x)}), x>> : x \in S}
      PROVE  Listing(S, ByScore(S, f, Less), <<>> \o s)
  <2>1. PICK R : R = ByScore(S, f, Less)
    OBVIOUS
  <2>2. ASSUME NEW x \in S
        PROVE  Ranked(S, R)[x] = Cardinality({y \in S : Ahead(f[y], f[x], y < x)})
    <3>1. Before(S, R, x) = {y \in S : Ahead(f[y], f[x], y < x)}
      BY <2>1, ScoredBefore
    <3>2. Ranked(S, R)[x] = Cardinality(Before(S, R, x))
      BY ONLY x \in S DEF Ranked, RankBy
    <3>3. QED
      BY ONLY <3>1, <3>2
  <2>3. placed = WithPlaces(S, Ranked(S, R))
    BY ONLY <1>2, <2>2 DEF WithPlaces
  <2>4. QED
    BY ONLY <1>1, <2>1, <2>3, OrderedIs, Reads(placed, Cardinality(S), s)
<1>3. ASSUME placed = {<<Cardinality({y \in S : Ahead(f[y], f[x], StringBelow(x, y))}), x>> : x \in S}
      PROVE  Listing(S, ByScore(S, f, After), <<>> \o s)
  <2>1. PICK R : R = ByScore(S, f, After)
    OBVIOUS
  <2>2. ASSUME NEW x \in S
        PROVE  Ranked(S, R)[x] = Cardinality({y \in S : Ahead(f[y], f[x], StringBelow(x, y))})
    <3>1. Before(S, R, x) = {y \in S : Ahead(f[y], f[x], StringBelow(x, y))}
      BY <2>1, ScoredBefore
    <3>2. Ranked(S, R)[x] = Cardinality(Before(S, R, x))
      BY ONLY x \in S DEF Ranked, RankBy
    <3>3. QED
      BY ONLY <3>1, <3>2
  <2>3. placed = WithPlaces(S, Ranked(S, R))
    BY ONLY <1>3, <2>2 DEF WithPlaces
  <2>4. QED
    BY ONLY <1>1, <2>1, <2>3, OrderedIs, Reads(placed, Cardinality(S), s)
<1>4. QED
  BY <1>2, <1>3

\* Sorted lists by score, the lower id first among equals.
LEMMA SortedLists ==
    ASSUME NEW f, Numbered(DOMAIN f, f)
    PROVE  Listing(DOMAIN f, ByScore(DOMAIN f, f, Less), Sorted(f))
<1> DEFINE S == DOMAIN f
           placed == {<<Cardinality({y \in S : Ahead(f[y], f[x], y < x)}), x>> : x \in S}
           s == [i \in 1 .. Cardinality(S) |-> (CHOOSE p \in placed : p[1] = i - 1)[2]]
<1>1. Sorted(f) = <<>> \o s
  BY Zenon DEF Sorted, Ordered
<1>2. Reads(placed, Cardinality(S), s)
  BY Zenon DEF Reads
<1>3. placed = {<<Cardinality({y \in S : Ahead(f[y], f[x], y < x)}), x>> : x \in S}
  OBVIOUS
<1> HIDE DEF s, placed, S
<1>4. QED
  BY <1>1, <1>2, <1>3, SortLists DEF S

\* rank_run lists by score, the greater string first among equals.
LEMMA RunIsRanked ==
    ASSUME NEW f, Numbered(DOMAIN f, f)
    PROVE  Listing(DOMAIN f, ByScore(DOMAIN f, f, After), rank_run(f))
<1> DEFINE S == DOMAIN f
           placed == {<<Cardinality({y \in S : Ahead(f[y], f[x], StringBelow(x, y))}), x>> : x \in S}
           s == [i \in 1 .. Cardinality(S) |-> (CHOOSE p \in placed : p[1] = i - 1)[2]]
<1>1. rank_run(f) = <<>> \o s
  BY Zenon DEF rank_run, Ordered
<1>2. Reads(placed, Cardinality(S), s)
  BY Zenon DEF Reads
<1>3. placed = {<<Cardinality({y \in S : Ahead(f[y], f[x], StringBelow(x, y))}), x>> : x \in S}
  OBVIOUS
<1> HIDE DEF s, placed, S
<1>4. QED
  BY <1>1, <1>2, <1>3, SortLists DEF S

\* A sort of rows by score lists them so.
LEMMA RowsAreListed ==
    ASSUME NEW f, NEW rows, Numbered(rows, f)
    PROVE  Listing(rows, ByScore(rows, f, Less), ByScoreThenRow(f, rows))
<1> DEFINE S == rows
           placed == {<<Cardinality({y \in S : Ahead(f[y], f[x], y < x)}), x>> : x \in S}
           s == [i \in 1 .. Cardinality(S) |-> (CHOOSE p \in placed : p[1] = i - 1)[2]]
<1>1. ByScoreThenRow(f, rows) = <<>> \o s
  BY Zenon DEF ByScoreThenRow, Ordered
<1>2. Reads(placed, Cardinality(S), s)
  BY Zenon DEF Reads
<1>3. placed = {<<Cardinality({y \in S : Ahead(f[y], f[x], y < x)}), x>> : x \in S}
  OBVIOUS
<1> HIDE DEF s, placed, S
<1>4. QED
  BY <1>1, <1>2, <1>3, SortLists DEF S

Negated(f) == [i \in DOMAIN f |-> -f[i]]

\* LengthOrder lists the pairs by length, the earlier first among equals.
LEMMA LengthsAreListed ==
    ASSUME NEW f, Numbered(DOMAIN f, Negated(f))
    PROVE  Listing(DOMAIN f, ByScore(DOMAIN f, Negated(f), Less), LengthOrder(f))
<1> DEFINE S == DOMAIN f
           placed == {<<Cardinality({y \in S : Ahead(-f[y], -f[x], y < x)}), x>> : x \in S}
           s == [i \in 1 .. Cardinality(S) |-> (CHOOSE p \in placed : p[1] = i - 1)[2]]
<1>1. LengthOrder(f) = <<>> \o s
  BY Zenon DEF LengthOrder, Ordered
<1>2. Reads(placed, Cardinality(S), s)
  BY Zenon DEF Reads
<1> DEFINE g == Negated(f)
<1>3. \A x \in S : g[x] = -f[x]
  BY DEF Negated
<1>4. placed = {<<Cardinality({y \in S : Ahead(g[y], g[x], y < x)}), x>> : x \in S}
  BY <1>3
<1> HIDE DEF s, placed, S, g
<1>5. QED
  BY <1>1, <1>2, <1>4, SortLists DEF S, g

\* InOrder lists a set of numbers upwards.
LEMMA NumbersAreListed ==
    ASSUME NEW P, IsFiniteSet(P), P \subseteq Nat
    PROVE  Listing(P, Less, InOrder(P))
<1> DEFINE placed == {<<Cardinality({y \in P : y < x}), x>> : x \in P}
           s == [i \in 1 .. Cardinality(P) |-> (CHOOSE p \in placed : p[1] = i - 1)[2]]
<1>1. InOrder(P) = <<>> \o s
  BY Zenon DEF InOrder, Ordered
<1>2. Reads(placed, Cardinality(P), s)
  BY Zenon DEF Reads
<1>3. TotalOrder(P, Less) /\ \A x, y \in P : <<x, y>> \in Less <=> x < y
  BY LessIsTotal
<1>4. ASSUME NEW x \in P PROVE Ranked(P, Less)[x] = Cardinality({y \in P : y < x})
  <2>1. Before(P, Less, x) = {y \in P : y < x}
    BY <1>3 DEF Before
  <2>2. QED
    BY <2>1 DEF Ranked, RankBy
<1>5. placed = WithPlaces(P, Ranked(P, Less))
  BY <1>4 DEF WithPlaces
<1> HIDE DEF placed, s
<1>6. QED
  BY <1>1, <1>2, <1>3, <1>5, OrderedIs

\* The best of a list: the first of them, before all the others.
LEMMA TopLength ==
    ASSUME NEW s, IsSeq(s), NEW k \in Nat
    PROVE  Len(Top(s, k)) = IF k <= Len(s) THEN k ELSE Len(s)
<1>1. PICK m \in Nat : m = Len(s)
  BY SeqIs
<1>2. PICK n \in Nat : n = Min({k, m}) /\ n = IF k <= m THEN k ELSE m
  BY LesserOf
<1>3. Top(s, k) = SubSeq(s, 1, n)
  BY <1>1, <1>2 DEF Top
<1>4. \A i \in 1 .. n : s[i] \in Range(s)
  BY <1>1, <1>2, SeqIs DEF Range
<1>5. Len(SubSeq(s, 1, n)) = IF 1 <= n THEN n - 1 + 1 ELSE 0
  <2>1. 1 \in Int /\ n \in Int
    OBVIOUS
  <2>2. QED
    BY ONLY <1>4, <2>1, SubSeqProperties
<1>6. Len(SubSeq(s, 1, n)) = n
  BY <1>5
<1>7. QED
  BY <1>1, <1>2, <1>3, <1>6

\* Without repetitions, there are as many as the list is long.
LEMMA NoRepetitions ==
    ASSUME NEW t, IsSeq(t), IsInjective(t)
    PROVE  IsFiniteSet(Range(t)) /\ Cardinality(Range(t)) = Len(t)
<1>1. PICK n \in Nat : n = Len(t) /\ DOMAIN t = 1 .. n /\ t = [i \in 1 .. n |-> t[i]]
  BY SeqIs
<1>2. t \in [1 .. n -> Range(t)]
  BY <1>1 DEF Range
<1>3. t \in Injection(1 .. n, Range(t))
  BY <1>1, <1>2 DEF Injection
<1>4. t \in Surjection(1 .. n, Range(t))
  BY <1>1, <1>2 DEF Surjection, Range
<1>5. IsFiniteSet(1 .. n) /\ Cardinality(1 .. n) = n
  <2>1. 1 \in Int /\ n \in Int
    OBVIOUS
  <2>2. IsFiniteSet(1 .. n) /\ Cardinality(1 .. n) = IF 1 > n THEN 0 ELSE n - 1 + 1
    BY ONLY <2>1, FS_Interval
  <2>3. QED
    BY <2>2
<1>6. QED
  BY <1>1, <1>3, <1>4, <1>5, FS_Surjection

\* t is the first n of s.
Begins(t, s, n) ==
    /\ IsSeq(t) /\ Len(t) = n /\ DOMAIN t = 1 .. n /\ n \in Nat /\ n <= Len(s) /\ \A i \in 1 .. n : t[i] = s[i]

\* The first k of a list are where it begins.
LEMMA TopBegins ==
    ASSUME NEW s, IsSeq(s), NEW k \in Nat, NEW n, n = IF k <= Len(s) THEN k ELSE Len(s)
    PROVE  Begins(Top(s, k), s, n)
<1>1. Len(s) \in Nat
  BY SeqIs
<1>2. n \in Nat /\ n <= Len(s)
  BY <1>1
<1>3. IsSeq(Top(s, k)) /\ Len(Top(s, k)) = n /\ \A i \in 1 .. n : Top(s, k)[i] = s[i]
  BY TopIs, TopLength
<1>4. DOMAIN Top(s, k) = 1 .. n
  BY <1>3, SeqIs
<1>5. QED
  BY <1>2, <1>3, <1>4 DEF Begins

Best(S, R, t) ==
    /\ Range(t) \subseteq S /\ IsInjective(t) /\ Listing(Range(t), R, t)
    /\ \A x \in Range(t), y \in S \ Range(t) : <<x, y>> \in R

\* Where a sorted list begins are its best.
LEMMA BeginningIsBest ==
    ASSUME NEW S, NEW R, TotalOrder(S, R), NEW s, Listing(S, R, s), NEW n, NEW t, Begins(t, s, n)
    PROVE  Best(S, R, t)
<1>1. PICK m \in Nat : m = Len(s)
  BY SeqIs DEF Listing
<1>2. /\ n \in Nat /\ n <= m /\ IsSeq(t) /\ Len(t) = n /\ DOMAIN t = 1 .. n /\ DOMAIN s = 1 .. m
      /\ \A i \in 1 .. n : t[i] = s[i] /\ i \in 1 .. m
  <2>1. n <= m /\ DOMAIN s = 1 .. m
    BY <1>1, SeqIs DEF Listing, Begins
  <2>2. n \in Nat
    BY DEF Begins
  <2>3. \A i \in 1 .. n : i \in 1 .. m
    BY <2>1, <2>2
  <2>4. QED
    BY <2>1, <2>2, <2>3 DEF Begins
<1>3. /\ \A i, j \in 1 .. m : s[i] = s[j] => i = j
      /\ \A i, j \in 1 .. m : i < j => <<s[i], s[j]>> \in R
      /\ S = {s[i] : i \in 1 .. m}
  <2>1. IsInjective(s)
    BY ListingIsInjective
  <2>2. QED
    BY <1>2, <2>1 DEF IsInjective, Listing, Range
<1>4. Range(t) = {s[i] : i \in 1 .. n}
  BY <1>2 DEF Range
<1>5. Range(t) \subseteq S
  BY <1>2, <1>3, <1>4
<1>6. IsInjective(t)
  BY <1>2, <1>3 DEF IsInjective
<1>7. Listing(Range(t), R, t)
  <2>1. Cardinality(Range(t)) = n
    BY <1>2, <1>6, NoRepetitions
  <2>2. \A i, j \in DOMAIN t : i < j => <<t[i], t[j]>> \in R
    BY <1>2, <1>3
  <2>3. QED
    BY <1>2, <2>1, <2>2 DEF Listing
<1>8. ASSUME NEW x \in Range(t), NEW y \in S \ Range(t) PROVE <<x, y>> \in R
  <2>1. PICK i \in 1 .. n : x = s[i]
    BY <1>4
  <2>2. PICK j \in 1 .. m : y = s[j]
    BY <1>3
  <2>3. j \notin 1 .. n
    BY <1>4, <2>2
  <2>4. i < j /\ i \in 1 .. m
    BY <1>1, <1>2, <2>1, <2>2, <2>3
  <2>5. QED
    BY <1>3, <2>1, <2>2, <2>4
<1>9. QED
  BY <1>5, <1>6, <1>7, <1>8 DEF Best

\* The first k of a sorted list are the best k.
LEMMA TopIsBest ==
    ASSUME NEW S, NEW R, TotalOrder(S, R), NEW s, Listing(S, R, s), NEW k \in Nat
    PROVE  Best(S, R, Top(s, k))
<1>1. PICK n : n = IF k <= Len(s) THEN k ELSE Len(s)
  OBVIOUS
<1>2. Begins(Top(s, k), s, n)
  BY <1>1, TopBegins DEF Listing
<1>3. QED
  BY <1>2, BeginningIsBest

\* The greatest and the least of the scores of a set.
LEMMA GreatestScore ==
    ASSUME NEW S, NEW f, Numbered(S, f), S # {}, NEW m, m = Max({f[x] : x \in S})
    PROVE  m \in Int /\ (\E x \in S : m = f[x]) /\ \A x \in S : m >= f[x]
<1> DEFINE R == ByScore(S, f, Less)
           V == {f[x] : x \in S}
<1>1. TotalOrder(S, R) /\ IsFiniteSet(S) /\ Cardinality(S) \in Nat /\ Cardinality(S) # 0
  BY ScoresAreTotal, FS_CardinalityType, FS_EmptySet DEF Numbered
<1>2. 1 \in 1 .. Cardinality(S)
  BY <1>1
<1>3. PICK x \in S : RankBy(S, R, x) = 0
  <2>1. PICK x \in S : RankBy(S, R, x) = 1 - 1
    BY <1>1, <1>2, RanksBy
  <2>2. QED
    BY <2>1
<1>4. Before(S, R, x) = {}
  <2>1. Before(S, R, x) \in SUBSET S
    BY DEF Before
  <2>2. IsFiniteSet(Before(S, R, x))
    BY <1>1, <2>1, FS_Subset
  <2>3. QED
    BY <1>3, <2>2, FS_EmptySet DEF RankBy
<1>5. ASSUME NEW y \in S PROVE f[x] >= f[y]
  <2>1. f[x] \in Int /\ f[y] \in Int
    BY DEF Numbered
  <2>2. <<y, x>> \notin R
    BY <1>4 DEF Before
  <2>3. ~ f[y] > f[x]
    BY <2>2, ByScoreIs
  <2>4. QED
    BY <2>1, <2>3
<1>6. f[x] \in V /\ \A v \in V : f[x] >= v
  BY <1>5
<1>7. m = CHOOSE v \in V : \A w \in V : v >= w
  BY DEF Max
<1>8. m \in V /\ \A w \in V : m >= w
  <2> HIDE DEF V
  <2> QED BY <1>6, <1>7
<1>9. \E y \in S : m = f[y]
  BY <1>8
<1>10. QED
  BY <1>8, <1>9 DEF Numbered

-----------------------------------------------------------------------------
(* Exact search: merging the best of two sets. *)

\* As many of D as k allows, and no one outside scores more.
BestSet(P, D, f, k) ==
    /\ P \subseteq D /\ Cardinality(P) = IF k <= Cardinality(D) THEN k ELSE Cardinality(D)
    /\ \A x \in P, y \in D \ P : f[x] >= f[y]

\* A member with k others at or above it, all of them seen, is not missed by the best k.
LEMMA Crowded ==
    ASSUME NEW D, NEW f, Numbered(D, f), NEW k \in Nat, NEW P, BestSet(P, D, f, k),
           NEW U, IsFiniteSet(U), P \subseteq U, NEW T, T \subseteq U, Cardinality(T) = k,
           \A x \in T, y \in U \ T : f[x] >= f[y],
           NEW x \in T, f[x] \in Int, NEW y \in D \ P
    PROVE  f[x] >= f[y]
<1>1. IsFiniteSet(P) /\ IsFiniteSet(T) /\ IsFiniteSet(D)
  BY FS_Subset DEF BestSet, Numbered
<1>2. Cardinality(P) = k
  <2>1. SUFFICES ASSUME Cardinality(P) = Cardinality(D) PROVE FALSE
    BY DEF BestSet
  <2>2. P = D
    BY <1>1, <2>1, FS_Subset DEF BestSet
  <2>3. QED
    BY <2>2
<1>3. CASE x \in P
  BY <1>3 DEF BestSet
<1>4. CASE x \notin P
  <2>1. ~ P \subseteq T
    <3>1. P \subseteq T => P = T
      BY <1>1, <1>2, FS_Subset
    <3>2. QED
      BY <1>4, <3>1
  <2>2. PICK z \in P : z \notin T
    BY <2>1
  <2>3. f[x] >= f[z] /\ f[z] >= f[y]
    BY <2>2 DEF BestSet
  <2>4. f[z] \in Int /\ f[y] \in Int
    BY <2>2 DEF BestSet, Numbered
  <2>5. QED
    BY <2>3, <2>4
<1>5. QED
  BY <1>3, <1>4

\* The best k of what was kept and of a chunk are the best k of both together.
LEMMA Merged ==
    ASSUME NEW D, NEW C, NEW f, NEW E, E = D \cup C, Numbered(E, f), NEW k \in Nat,
           NEW P, BestSet(P, D, f, k), NEW Q, BestSet(Q, C, f, k), NEW U, U = P \cup Q,
           NEW t, t = Top(ByScoreThenRow(f, U), k)
    PROVE  /\ BestSet(Range(t), E, f, k) /\ IsInjective(t)
           /\ Range(t) \subseteq U /\ Listing(Range(t), ByScore(U, f, Less), t)
<1>1. U = P \cup Q
  OBVIOUS
<1>2. PICK R : R = ByScore(U, f, Less)
  OBVIOUS
<1>3. PICK s : s = ByScoreThenRow(f, U)
  OBVIOUS
<1>4. Numbered(U, f) /\ Numbered(D, f) /\ Numbered(C, f) /\ IsFiniteSet(U) /\ IsFiniteSet(E)
  <2>1. U \in SUBSET E /\ D \in SUBSET E /\ C \in SUBSET E
    BY <1>1 DEF BestSet
  <2>2. IsFiniteSet(U) /\ IsFiniteSet(D) /\ IsFiniteSet(C) /\ IsFiniteSet(E)
    BY <2>1, FS_Subset DEF Numbered
  <2>3. QED
    BY <2>1, <2>2 DEF Numbered
<1>5. Listing(U, R, s) /\ TotalOrder(U, R)
  BY <1>2, <1>3, <1>4, RowsAreListed, ScoresAreTotal
<1>6. PICK T : T = Range(t)
  OBVIOUS
<1>7. Best(U, R, t) /\ t = Top(s, k)
  BY <1>1, <1>3, <1>5, TopIsBest
<1>8. T \subseteq U /\ IsInjective(t) /\ \A x \in T, y \in U \ T : f[x] >= f[y] /\ f[x] \in Int
  <2>1. T \subseteq U /\ IsInjective(t) /\ \A x \in T, y \in U \ T : <<x, y>> \in R
    BY <1>6, <1>7 DEF Best
  <2>2. \A x \in U : f[x] \in Int
    BY <1>4 DEF Numbered
  <2>3. ASSUME NEW x \in T, NEW y \in U \ T PROVE f[x] > f[y] \/ f[x] = f[y]
    <3>1. \A v, w \in U : <<v, w>> \in R <=> f[v] > f[w] \/ (f[v] = f[w] /\ <<v, w>> \in Less)
      BY <1>2, ByScoreIs
    <3>2. x \in U /\ y \in U /\ <<x, y>> \in R
      BY <2>1
    <3>3. QED
      BY ONLY <3>1, <3>2
  <2>4. QED
    BY <2>1, <2>2, <2>3
<1>9. PICK u \in Nat, d \in Nat, c \in Nat, e \in Nat :
          u = Cardinality(U) /\ d = Cardinality(D) /\ c = Cardinality(C) /\ e = Cardinality(E)
  <2>1. IsFiniteSet(D) /\ IsFiniteSet(C)
    BY <1>4 DEF Numbered
  <2>2. QED
    BY <1>4, <2>1, FS_CardinalityType
<1>10. Cardinality(T) = IF k <= u THEN k ELSE u
  <2>1. IsSeq(t) /\ Len(t) = IF k <= u THEN k ELSE u
    <3>1. IsSeq(s) /\ Len(s) = u
      BY <1>5, <1>9 DEF Listing
    <3>2. QED
      BY <1>7, <3>1, TopLength, TopIs
  <2>2. QED
    BY <1>6, <1>8, <2>1, NoRepetitions
<1>11. u <= e /\ d <= e /\ c <= e /\ Cardinality(P) <= u /\ Cardinality(Q) <= u
  <2>1. /\ U \in SUBSET E /\ D \in SUBSET E /\ C \in SUBSET E
        /\ P \in SUBSET U /\ Q \in SUBSET U
    BY <1>1 DEF BestSet
  <2>2. QED
    BY <1>4, <1>9, <2>1, FS_Subset
<1>12. Cardinality(T) = IF k <= e THEN k ELSE e
  <2>1. CASE k <= d \/ k <= c
    <3>1. Cardinality(P) = k \/ Cardinality(Q) = k
      BY <1>9, <2>1 DEF BestSet
    <3>2. k <= u
      BY <1>9, <1>11, <3>1
    <3>3. QED
      BY <1>9, <1>10, <1>11, <3>2
  <2>2. CASE ~(k <= d) /\ ~(k <= c)
    <3>1. Cardinality(P) = Cardinality(D) /\ Cardinality(Q) = Cardinality(C)
      BY <1>9, <2>2 DEF BestSet
    <3>2. IsFiniteSet(D) /\ IsFiniteSet(C) /\ P \in SUBSET D /\ Q \in SUBSET C
      BY <1>4 DEF Numbered, BestSet
    <3>3. P = D /\ Q = C
      BY <3>1, <3>2, FS_Subset
    <3>4. u = e
      BY <1>1, <1>9, <3>3
    <3>5. QED
      BY <1>10, <3>4
  <2>3. QED
    BY <2>1, <2>2
<1>13. T \subseteq E
  BY <1>1, <1>8 DEF BestSet
<1>14. ASSUME NEW x \in T, NEW y \in E \ T PROVE f[x] >= f[y]
  <2>1. CASE y \in U
    BY <1>8, <2>1
  <2>2. CASE y \notin U
    <3>1. (y \in D \ P \/ y \in C \ Q) /\ f[x] \in Int /\ P \subseteq U /\ Q \subseteq U
      BY <1>1, <1>4, <1>8, <2>2 DEF Numbered
    <3>2. Cardinality(T) = k
      <4>1. y \in D \ P => Cardinality(P) = k
        <5>1. SUFFICES ASSUME y \in D \ P, Cardinality(P) = Cardinality(D) PROVE FALSE
          BY DEF BestSet
        <5>2. P = D
          BY <1>4, <5>1, FS_Subset DEF BestSet, Numbered
        <5>3. QED
          BY <5>1, <5>2
      <4>2. y \in C \ Q => Cardinality(Q) = k
        <5>1. SUFFICES ASSUME y \in C \ Q, Cardinality(Q) = Cardinality(C) PROVE FALSE
          BY DEF BestSet
        <5>2. Q = C
          BY <1>4, <5>1, FS_Subset DEF BestSet, Numbered
        <5>3. QED
          BY <5>1, <5>2
      <4>3. k <= u
        BY <1>11, <3>1, <4>1, <4>2
      <4>4. QED
        BY <1>10, <4>3
    <3>3. \A v \in T, w \in U \ T : f[v] >= f[w]
      BY <1>8
    <3>4. CASE y \in D \ P
      BY ONLY <1>4, <1>8, <3>1, <3>2, <3>3, <3>4, k \in Nat, BestSet(P, D, f, k), x \in T, Crowded
    <3>5. CASE y \in C \ Q
      BY ONLY <1>4, <1>8, <3>1, <3>2, <3>3, <3>5, k \in Nat, BestSet(Q, C, f, k), x \in T, Crowded
    <3>6. QED
      BY <3>1, <3>4, <3>5
  <2>3. QED
    BY <2>1, <2>2
<1>15. BestSet(T, E, f, k)
  BY <1>9, <1>12, <1>13, <1>14 DEF BestSet
<1>16. QED
  BY <1>1, <1>2, <1>6, <1>7, <1>8, <1>15 DEF Best

\* The chunks one after another, the best of what was seen so far.
ChunkOf(rows, size, c) == {rows[i] : i \in (c - 1) * size + 1 .. Min({c * size, Len(rows)})}
Merging(f, k, rows, size, n, kept) ==
    kept = [c \in 0 .. n |->
               IF c = 0 THEN {<<>>} ELSE MergedWith(f, k, kept[c - 1], ChunkOf(rows, size, c))]

\* The recursion over the chunks exists, up to any number of them.
LEMMA MergingExists ==
    ASSUME NEW f, NEW k, NEW rows, NEW size, NEW n \in Nat PROVE \E kept : Merging(f, k, rows, size, n, kept)
<1> DEFINE Bad == {m \in Nat : ~\E kept : Merging(f, k, rows, size, m, kept)}
<1>1. Bad = {}
  <2>1. SUFFICES ASSUME Bad # {} PROVE FALSE
    OBVIOUS
  <2>2. PICK m \in Bad : \A j \in Bad : m <= j
    <3>1. Bad \in SUBSET Nat
      OBVIOUS
    <3> HIDE DEF Bad
    <3> QED BY <2>1, <3>1, LeastOf
  <2>3. m \in Nat /\ ~\E kept : Merging(f, k, rows, size, m, kept)
    BY <2>2
  <2>4. m # 0
    <3> DEFINE g == [c \in 0 .. 0 |-> {<<>>}]
    <3>1. SUFFICES ASSUME m = 0 PROVE FALSE
      OBVIOUS
    <3>2. g = [c \in 0 .. 0 |-> IF c = 0 THEN {<<>>} ELSE MergedWith(f, k, g[c - 1], ChunkOf(rows, size, c))]
      OBVIOUS
    <3> HIDE DEF g
    <3>3. Merging(f, k, rows, size, 0, g)
      BY <3>2 DEF Merging
    <3>4. QED
      BY <2>3, <3>1, <3>3
  <2>5. m - 1 \in Nat /\ m - 1 \notin Bad
    BY <2>2, <2>3, <2>4
  <2>6. PICK g : Merging(f, k, rows, size, m - 1, g)
    BY <2>5
  <2> DEFINE h == [c \in 0 .. m |->
                      IF c = 0 THEN {<<>>} ELSE MergedWith(f, k, g[c - 1], ChunkOf(rows, size, c))]
  <2>7. \A c \in 0 .. m - 1 : c \in 0 .. m /\ h[c] = g[c]
    <3>1. TAKE c \in 0 .. m - 1
    <3>2. g[c] = IF c = 0 THEN {<<>>} ELSE MergedWith(f, k, g[c - 1], ChunkOf(rows, size, c))
      BY ONLY <2>6, c \in 0 .. m - 1 DEF Merging
    <3>3. c \in 0 .. m
      BY <2>3
    <3>4. h[c] = IF c = 0 THEN {<<>>} ELSE MergedWith(f, k, g[c - 1], ChunkOf(rows, size, c))
      BY ONLY <3>3
    <3>5. QED
      BY ONLY <3>2, <3>3, <3>4
  <2>8. \A c \in 0 .. m : c # 0 => c - 1 \in 0 .. m - 1
    BY <2>3
  <2>9. h = [c \in 0 .. m |-> IF c = 0 THEN {<<>>} ELSE MergedWith(f, k, h[c - 1], ChunkOf(rows, size, c))]
    <3>1. ASSUME NEW c \in 0 .. m
          PROVE  (IF c = 0 THEN {<<>>} ELSE MergedWith(f, k, g[c - 1], ChunkOf(rows, size, c)))
                     = IF c = 0 THEN {<<>>} ELSE MergedWith(f, k, h[c - 1], ChunkOf(rows, size, c))
      <4>1. c # 0 => h[c - 1] = g[c - 1]
        BY ONLY <2>7, <2>8, c \in 0 .. m
      <4> HIDE DEF h
      <4>2. QED
        BY ONLY <4>1
    <3>2. QED
      BY ONLY <3>1
  <2> HIDE DEF h
  <2>10. Merging(f, k, rows, size, m, h)
    BY <2>9 DEF Merging
  <2>11. QED
    BY <2>3, <2>10
<1>2. QED
  BY <1>1

ChunksIn(rows, size) == (Len(rows) + size - 1) \div size

\* The search by chunks is where that recursion ends.
LEMMA MergesTo ==
    ASSUME NEW f, NEW k, NEW size, NEW rows, rows = InOrder(DOMAIN f), NEW n \in Nat, n = ChunksIn(rows, size)
    PROVE  \E kept : Merging(f, k, rows, size, n, kept) /\ TopKByChunks(f, k, size) = kept[n]
<1> DEFINE r == InOrder(DOMAIN f)
           m == (Len(r) + size - 1) \div size
<1>1. TopKByChunks(f, k, size) = (CHOOSE kept : Merging(f, k, r, size, m, kept))[m]
  BY Zenon DEF TopKByChunks, Merging, ChunkOf, InOrder
<1>2. r = rows /\ m = n
  BY DEF ChunksIn
<1> HIDE DEF r, m
<1>3. PICK g : g = CHOOSE kept : Merging(f, k, rows, size, n, kept)
  OBVIOUS
<1>4. Merging(f, k, rows, size, n, g)
  BY <1>3, MergingExists
<1>5. QED
  BY <1>1, <1>2, <1>3, <1>4

\* Best first, ties by row.
Descends(s, f) ==
    \A i, j \in DOMAIN s : i < j => f[s[i]] > f[s[j]] \/ (f[s[i]] = f[s[j]] /\ s[i] < s[j])

\* A list sorted by score descends.
LEMMA ListsDescend ==
    ASSUME NEW S, S \subseteq Nat, NEW f, NEW U, U \subseteq S, NEW t, IsSeq(t), Range(t) \subseteq U,
           Listing(Range(t), ByScore(U, f, Less), t)
    PROVE  Descends(t, f)
<1> SUFFICES ASSUME NEW i \in DOMAIN t, NEW j \in DOMAIN t, i < j
             PROVE  f[t[i]] > f[t[j]] \/ (f[t[i]] = f[t[j]] /\ t[i] < t[j])
  BY DEF Descends
<1>1. PICK x, y : x = t[i] /\ y = t[j]
  OBVIOUS
<1>2. x \in U /\ y \in U
  BY <1>1 DEF Range
<1>3. <<x, y>> \in ByScore(U, f, Less)
  BY <1>1 DEF Listing
<1>4. f[x] > f[y] \/ (f[x] = f[y] /\ <<x, y>> \in Less)
  BY <1>2, <1>3, ByScoreIs
<1>5. <<x, y>> \in Less => x < y
  BY <1>2, LessIsTotal
<1>6. QED
  BY <1>1, <1>4, <1>5

\* What an exact search has found of a set.
Found(s, D, f, k) == IsSeq(s) /\ IsInjective(s) /\ BestSet(Range(s), D, f, k) /\ Descends(s, f)

\* A merge of what was found with a chunk finds the best of both.
LEMMA MergedIsFound ==
    ASSUME NEW D, NEW C, NEW f, NEW E, E = D \cup C, Numbered(E, f), NEW k \in Nat,
           NEW kept, \A s \in kept : Found(s, D, f, k), NEW t \in MergedWith(f, k, kept, C)
    PROVE  Found(t, E, f, k)
<1>1. PICK s \in kept, best \in BestOf(f, C, k) : t = Top(ByScoreThenRow(f, Range(s) \cup best), k)
  BY DEF MergedWith
<1>2. IsFiniteSet(C) /\ Cardinality(C) \in Nat
  <2>1. IsFiniteSet(E) /\ C \in SUBSET E
    BY DEF Numbered
  <2>2. IsFiniteSet(C)
    BY <2>1, FS_Subset
  <2>3. QED
    BY <2>2, FS_CardinalityType
<1>3. BestSet(best, C, f, k)
  <2>1. PICK c \in Nat : c = Cardinality(C)
    BY <1>2
  <2>2. Min({k, c}) = IF k <= c THEN k ELSE c
    BY LesserOf
  <2>3. best \in SUBSET C /\ Cardinality(best) = Min({k, Cardinality(C)}) /\ \A x \in best, y \in C \ best : f[x] >= f[y]
    BY DEF BestOf, kSubset
  <2>4. QED
    BY <2>1, <2>2, <2>3 DEF BestSet
<1>4. PICK P : P = Range(s) /\ BestSet(P, D, f, k)
  BY DEF Found
<1>5. PICK U : U = P \cup best
  OBVIOUS
<1>6. t = Top(ByScoreThenRow(f, U), k)
  BY <1>1, <1>4, <1>5
<1>7. /\ BestSet(Range(t), E, f, k) /\ IsInjective(t)
      /\ Range(t) \subseteq U /\ Listing(Range(t), ByScore(U, f, Less), t)
  BY ONLY <1>3, <1>4, <1>5, <1>6, E = D \cup C, Numbered(E, f), k \in Nat, Merged
<1>8. U \subseteq E /\ E \subseteq Nat
  BY <1>3, <1>4, <1>5 DEF BestSet, Numbered
<1>9. IsSeq(t)
  BY <1>7 DEF Listing
<1>10. Descends(t, f)
  BY <1>7, <1>8, <1>9, ListsDescend
<1>11. QED
  BY <1>7, <1>9, <1>10 DEF Found

\* Before the first chunk, nothing is what there is to find.
LEMMA NothingIsFound ==
    ASSUME NEW f, NEW k \in Nat PROVE Found(<<>>, {}, f, k)
<1>1. IsSeq(<<>>) /\ DOMAIN <<>> = {} /\ Range(<<>>) = {}
  BY EmptySequences DEF IsSeq, Range
<1>2. Cardinality({}) = 0
  BY FS_EmptySet
<1>3. BestSet({}, {}, f, k)
  BY <1>2 DEF BestSet
<1>4. QED
  BY <1>1, <1>3 DEF Found, IsInjective, Descends

\* The rows of the first chunks.
Seen(rows, m) == {rows[i] : i \in {j \in DOMAIN rows : j <= m}}

\* A chunk adds its rows to those that were seen.
LEMMA SeenMore ==
    ASSUME NEW rows, IsSeq(rows), NEW size \in Nat \ {0}, NEW c \in Nat \ {0}
    PROVE  Seen(rows, c * size) = Seen(rows, (c - 1) * size) \cup ChunkOf(rows, size, c)
<1>1. PICK n \in Nat : n = Len(rows) /\ DOMAIN rows = 1 .. n
  BY SeqIs
<1>2. PICK p \in Nat, q \in Nat : p = (c - 1) * size /\ q = c * size /\ p <= q
  <2>1. c - 1 \in Nat
    OBVIOUS
  <2>2. PICK b \in Nat : b = c - 1 /\ c = b + 1
    BY <2>1
  <2>3. b * size \in Nat /\ (b + 1) * size = b * size + size
    OBVIOUS
  <2>4. \A x \in Nat : x <= x + size
    OBVIOUS
  <2>5. QED
    BY <2>2, <2>3, <2>4
<1>3. PICK m \in Nat : m = Min({q, n}) /\ m = IF q <= n THEN q ELSE n
  BY LesserOf
<1>4. ChunkOf(rows, size, c) = {rows[i] : i \in p + 1 .. m}
  BY <1>1, <1>2, <1>3 DEF ChunkOf
<1>5. Seen(rows, q) = {rows[i] : i \in {j \in 1 .. n : j <= q}} /\ Seen(rows, p) = {rows[i] : i \in {j \in 1 .. n : j <= p}}
  BY <1>1 DEF Seen
<1>6. {j \in 1 .. n : j <= q} = {j \in 1 .. n : j <= p} \cup (p + 1 .. m)
  <2>1. n \in Nat /\ p \in Nat /\ q \in Nat /\ m \in Nat /\ p <= q /\ (m = q \/ m = n) /\ m <= q /\ m <= n
    <3>1. m = (IF q <= n THEN q ELSE n) /\ p <= q
      BY <1>2, <1>3
    <3>2. QED
      BY ONLY <3>1, n \in Nat, p \in Nat, q \in Nat, m \in Nat
  <2>2. ASSUME NEW j \in 1 .. n PROVE j <= q <=> j <= p \/ j \in p + 1 .. m
    BY ONLY <2>1, j \in 1 .. n
  <2>3. ASSUME NEW j \in p + 1 .. m PROVE j \in 1 .. n /\ j <= q
    BY ONLY <2>1, j \in p + 1 .. m
  <2>4. QED
    BY <2>2, <2>3
<1>7. QED
  BY <1>2, <1>4, <1>5, <1>6

\* A prefix that reaches the end is the whole.
LEMMA SeenAll ==
    ASSUME NEW rows, IsSeq(rows), NEW m, m \in Nat, Len(rows) <= m PROVE Seen(rows, m) = Range(rows)
<1>1. PICK n \in Nat : n = Len(rows) /\ DOMAIN rows = 1 .. n
  BY SeqIs
<1>2. {j \in DOMAIN rows : j <= m} = DOMAIN rows
  BY <1>1
<1>3. QED
  BY <1>2 DEF Seen, Range

\* After every chunk, what is kept are the best of the rows seen so far.
LEMMA KeptIsFound ==
    ASSUME NEW D, NEW f, Numbered(D, f), NEW k \in Nat, NEW size \in Nat \ {0}, NEW rows, IsSeq(rows), Range(rows) = D,
           NEW n \in Nat, NEW kept, Merging(f, k, rows, size, n, kept)
    PROVE  \A c \in 0 .. n : \A s \in kept[c] : Found(s, Seen(rows, c * size), f, k)
<1> DEFINE Bad == {c \in 0 .. n : ~\A s \in kept[c] : Found(s, Seen(rows, c * size), f, k)}
<1>1. \A c \in 0 .. n : kept[c] = IF c = 0 THEN {<<>>} ELSE MergedWith(f, k, kept[c - 1], ChunkOf(rows, size, c))
  BY ONLY Merging(f, k, rows, size, n, kept) DEF Merging
<1>2. Bad = {}
  <2>1. SUFFICES ASSUME Bad # {} PROVE FALSE
    OBVIOUS
  <2>2. PICK c \in Bad : \A j \in Bad : c <= j
    <3>1. Bad \in SUBSET Nat
      OBVIOUS
    <3> HIDE DEF Bad
    <3> QED BY <2>1, <3>1, LeastOf
  <2>3. PICK s \in kept[c] : ~Found(s, Seen(rows, c * size), f, k)
    BY <2>2
  <2>4. c \in 0 .. n /\ c \in Nat
    BY <2>2
  <2>5. CASE c = 0
    <3>1. s = <<>>
      BY <1>1, <2>3, <2>4, <2>5
    <3>2. Seen(rows, 0) = {}
      <4>1. PICK m \in Nat : DOMAIN rows = 1 .. m
        BY SeqIs
      <4>2. QED
        BY <4>1 DEF Seen
    <3>3. c * size = 0
      BY <2>5
    <3>4. QED
      BY <2>3, <3>1, <3>2, <3>3, NothingIsFound
  <2>6. CASE c # 0
    <3>1. c - 1 \in 0 .. n /\ c \in Nat \ {0} /\ c - 1 \notin Bad
      BY <2>2, <2>4, <2>6
    <3>2. PICK L, C : L = Seen(rows, (c - 1) * size) /\ C = ChunkOf(rows, size, c)
      OBVIOUS
    <3>3. PICK E : E = Seen(rows, c * size) /\ E = L \cup C
      BY <3>1, <3>2, SeenMore
    <3>4. \A t \in kept[c - 1] : Found(t, L, f, k)
      BY <3>1, <3>2
    <3>5. s \in MergedWith(f, k, kept[c - 1], C)
      BY <1>1, <2>3, <2>4, <2>6, <3>2
    <3>6. Numbered(E, f)
      <4>1. E \in SUBSET D
        BY <3>3 DEF Seen, Range
      <4>2. IsFiniteSet(E)
        BY <4>1, FS_Subset DEF Numbered
      <4>3. QED
        BY <4>1, <4>2 DEF Numbered
    <3>7. Found(s, E, f, k)
      <4>1. PICK K : K = kept[c - 1]
        OBVIOUS
      <4>2. s \in MergedWith(f, k, K, C) /\ \A t \in K : Found(t, L, f, k)
        BY <3>4, <3>5, <4>1
      <4>3. QED
        BY ONLY <3>3, <3>6, <4>2, k \in Nat, MergedIsFound
    <3>8. QED
      BY <2>3, <3>3, <3>7
  <2>7. QED
    BY <2>5, <2>6
<1>3. QED
  BY <1>2

\* The chunks cover all rows: their number is rounded up.
LEMMA Chunked ==
    ASSUME NEW n \in Nat, NEW size \in Nat \ {0}, NEW c, c = (n + size - 1) \div size
    PROVE  c \in Nat /\ n <= c * size
<1>1. PICK a \in Nat : a = n + size - 1
  OBVIOUS
<1>2. PICK r \in Nat : r = a % size /\ r < size /\ a = size * (a \div size) + r /\ a \div size \in Nat
  BY <1>1
<1>3. PICK p \in Int : p = size * c
  BY <1>1, <1>2
<1>4. n + size - 1 = p + r
  BY <1>1, <1>2, <1>3
<1>5. p >= n
  BY <1>2, <1>3, <1>4
<1>6. c * size = p
  BY <1>1, <1>2, <1>3
<1>7. QED
  BY <1>1, <1>2, <1>5, <1>6

\* The search by chunks finds the best k of all rows.
LEMMA SearchFinds ==
    ASSUME NEW f, Numbered(DOMAIN f, f), NEW k \in Nat, NEW size \in Nat \ {0}, NEW s \in TopKByChunks(f, k, size)
    PROVE  Found(s, DOMAIN f, f, k)
<1>1. PICK rows : rows = InOrder(DOMAIN f)
  OBVIOUS
<1>2. IsSeq(rows) /\ Range(rows) = DOMAIN f /\ Len(rows) \in Nat
  <2>1. Listing(DOMAIN f, Less, rows)
    BY <1>1, NumbersAreListed DEF Numbered
  <2>2. QED
    BY <2>1, SeqIs DEF Listing
<1>3. PICK n : n = ChunksIn(rows, size)
  OBVIOUS
<1>4. n \in Nat /\ Len(rows) <= n * size
  <2>1. n = (Len(rows) + size - 1) \div size
    BY <1>3 DEF ChunksIn
  <2>2. QED
    BY <1>2, <2>1, Chunked
<1>5. PICK kept : Merging(f, k, rows, size, n, kept) /\ TopKByChunks(f, k, size) = kept[n]
  <2>1. n \in Nat
    BY <1>4
  <2>2. QED
    BY ONLY <1>1, <1>3, <2>1, MergesTo
<1>6. \A t \in kept[n] : Found(t, Seen(rows, n * size), f, k)
  <2>1. \A c \in 0 .. n : \A t \in kept[c] : Found(t, Seen(rows, c * size), f, k)
    BY <1>2, <1>4, <1>5, KeptIsFound
  <2>2. n \in 0 .. n
    BY <1>4
  <2>3. QED
    BY <2>1, <2>2
<1>7. Seen(rows, n * size) = DOMAIN f
  BY <1>2, <1>4, SeenAll
<1>8. QED
  BY <1>5, <1>6, <1>7

\* How many are found.
LEMMA FoundLength ==
    ASSUME NEW D, NEW f, Numbered(D, f), NEW k \in Nat, NEW s, Found(s, D, f, k)
    PROVE  DOMAIN s = 1 .. (IF k <= Cardinality(D) THEN k ELSE Cardinality(D)) /\ Cardinality(D) \in Nat
<1>1. Cardinality(Range(s)) = Len(s) /\ DOMAIN s = 1 .. Len(s)
  BY NoRepetitions, SeqIs DEF Found
<1>2. Cardinality(Range(s)) = IF k <= Cardinality(D) THEN k ELSE Cardinality(D)
  BY DEF Found, BestSet
<1>3. Cardinality(D) \in Nat
  BY FS_CardinalityType DEF Numbered
<1>4. QED
  BY <1>1, <1>2, <1>3

\* Of two findings, neither has a better score at any place.
LEMMA NoBetter ==
    ASSUME NEW D, NEW f, Numbered(D, f), NEW k \in Nat, NEW s, Found(s, D, f, k), NEW t, Found(t, D, f, k),
           NEW i \in DOMAIN s
    PROVE  i \in DOMAIN t /\ f[s[i]] \in Int /\ f[t[i]] \in Int /\ ~(f[s[i]] > f[t[i]])
<1>1. PICK n \in Nat : DOMAIN s = 1 .. n /\ DOMAIN t = 1 .. n
  <2>1. PICK d \in Nat : d = Cardinality(D)
    BY FoundLength
  <2>2. PICK n \in Nat : n = IF k <= d THEN k ELSE d
    OBVIOUS
  <2>3. QED
    BY <2>1, <2>2, FoundLength
<1>2. /\ \A j \in 1 .. n : s[j] \in D /\ t[j] \in D /\ f[s[j]] \in Int /\ f[t[j]] \in Int
      /\ i \in 1 .. n
  BY <1>1 DEF Found, BestSet, Range, Numbered
<1>3. SUFFICES ASSUME f[s[i]] > f[t[i]] PROVE FALSE
  BY <1>1, <1>2
<1>4. \A j \in 1 .. i : j \in 1 .. n /\ f[s[j]] > f[t[i]]
  <2>1. TAKE j \in 1 .. i
  <2>2. j \in 1 .. n /\ (j = i \/ j < i)
    BY <1>2
  <2>3. f[s[j]] >= f[s[i]]
    <3>1. j < i => f[s[j]] > f[s[i]] \/ f[s[j]] = f[s[i]]
      BY <1>1, <1>2, <2>2 DEF Found, Descends
    <3>2. QED
      BY <1>2, <2>2, <3>1
  <2>4. QED
    BY <1>2, <1>3, <2>2, <2>3
<1>5. \A j \in 1 .. i : \E l \in 1 .. i - 1 : t[l] = s[j]
  <2>1. TAKE j \in 1 .. i
  <2>2. f[s[j]] > f[t[i]] /\ s[j] \in D /\ f[s[j]] \in Int /\ f[t[i]] \in Int
    BY <1>2, <1>4
  <2>3. s[j] \in Range(t)
    <3>1. SUFFICES ASSUME s[j] \notin Range(t) PROVE FALSE
      OBVIOUS
    <3>2. t[i] \in Range(t)
      BY <1>1, <1>2 DEF Range
    <3>3. f[t[i]] >= f[s[j]]
      BY <2>2, <3>1, <3>2 DEF Found, BestSet
    <3>4. QED
      BY <2>2, <3>3
  <2>4. PICK l \in 1 .. n : t[l] = s[j]
    BY <1>1, <2>3 DEF Range
  <2>5. ~(i < l) /\ l # i
    <3>1. i < l => f[t[i]] > f[t[l]] \/ f[t[i]] = f[t[l]]
      BY <1>1, <1>2 DEF Found, Descends
    <3>2. QED
      BY <2>2, <2>4, <3>1
  <2>6. l \in 1 .. i - 1
    BY <1>2, <2>5
  <2>7. QED
    BY <2>4, <2>6
<1>6. PICK g : g = [j \in 1 .. i |-> CHOOSE l \in 1 .. i - 1 : t[l] = s[j]]
  OBVIOUS
<1>7. \A j \in 1 .. i : g[j] \in 1 .. i - 1 /\ t[g[j]] = s[j]
  BY <1>5, <1>6
<1>8. g \in Injection(1 .. i, 1 .. i - 1)
  <2>1. g \in [1 .. i -> 1 .. i - 1]
    BY <1>6, <1>7
  <2>2. \A j, l \in 1 .. i : s[j] = s[l] => j = l
    BY <1>1, <1>4 DEF Found, IsInjective
  <2>3. \A j, l \in 1 .. i : g[j] = g[l] => j = l
    BY <1>7, <2>2
  <2>4. DOMAIN g = 1 .. i
    BY <2>1
  <2>5. IsInjective(g)
    BY ONLY <2>3, <2>4 DEF IsInjective
  <2>6. QED
    BY <2>1, <2>5 DEF Injection
<1>9. PICK m \in Nat : m = i - 1 /\ i = m + 1
  BY <1>2
<1>10. \A c \in Nat : IsFiniteSet(1 .. c) /\ Cardinality(1 .. c) = c
  <2>1. TAKE c \in Nat
  <2>2. 1 \in Int /\ c \in Int
    OBVIOUS
  <2>3. IsFiniteSet(1 .. c) /\ Cardinality(1 .. c) = IF 1 > c THEN 0 ELSE c - 1 + 1
    BY ONLY <2>2, FS_Interval
  <2>4. QED
    BY <2>3
<1>11. Cardinality(1 .. i) <= Cardinality(1 .. m)
  BY <1>8, <1>9, <1>10, FS_Injection
<1>12. Cardinality(1 .. i) = m + 1 /\ Cardinality(1 .. m) = m
  BY <1>9, <1>10
<1>13. QED
  BY <1>11, <1>12

\* A sort of everything finds the best k, too.
LEMMA BestIsFound ==
    ASSUME NEW D, NEW f, Numbered(D, f), NEW k \in Nat, NEW t, t = Top(ByScoreThenRow(f, D), k)
    PROVE  Found(t, D, f, k)
<1>1. PICK R, s : R = ByScore(D, f, Less) /\ s = ByScoreThenRow(f, D)
  OBVIOUS
<1>2. Listing(D, R, s) /\ TotalOrder(D, R)
  BY <1>1, RowsAreListed, ScoresAreTotal
<1>3. Best(D, R, t) /\ IsSeq(t)
  BY <1>1, <1>2, TopIsBest, TopIs DEF Listing
<1>4. Cardinality(Range(t)) = IF k <= Cardinality(D) THEN k ELSE Cardinality(D)
  <2>1. IsSeq(s) /\ Len(s) = Cardinality(D)
    BY <1>2 DEF Listing
  <2>2. Len(t) = IF k <= Cardinality(D) THEN k ELSE Cardinality(D)
    BY <1>1, <2>1, TopLength
  <2>3. QED
    BY <1>3, <2>2, NoRepetitions DEF Best
<1>5. ASSUME NEW x \in Range(t), NEW y \in D \ Range(t) PROVE f[x] >= f[y]
  <2>1. x \in D /\ y \in D /\ <<x, y>> \in R
    BY <1>3 DEF Best
  <2>2. f[x] > f[y] \/ f[x] = f[y]
    BY <1>1, <2>1, ByScoreIs
  <2>3. f[x] \in Int /\ f[y] \in Int
    BY <2>1 DEF Numbered
  <2>4. QED
    BY <2>2, <2>3
<1>6. Descends(t, f)
  <2>1. D \subseteq Nat /\ Range(t) \subseteq D /\ Listing(Range(t), ByScore(D, f, Less), t)
    BY <1>1, <1>3 DEF Best, Numbered
  <2>2. QED
    BY <1>3, <2>1, ListsDescend
<1>7. QED
  BY <1>3, <1>4, <1>5, <1>6 DEF Found, BestSet, Best

\* Exact search finds the best there are, whatever ties the cuts of the chunks break.
LEMMA SearchIsExact ==
    ASSUME NEW f, Numbered(DOMAIN f, f), NEW k \in Nat, ChunkRows \in Nat \ {0}, BlockRows \in Nat \ {0}
    PROVE  TopKIsExact(f, k)
<1> DEFINE best == Top(ByScoreThenRow(f, DOMAIN f), k)
<1>1. SUFFICES ASSUME NEW s \in exact_topk(f, k) \cup flat_topk(f, k)
               PROVE  /\ IsInjective(s) /\ Len(s) = Len(best)
                      /\ \A i \in DOMAIN s : f[s[i]] = f[best[i]]
                      /\ \A i \in DOMAIN s \ {1} : f[s[i - 1]] = f[s[i]] => s[i - 1] < s[i]
  BY Zenon DEF TopKIsExact
<1>2. Found(s, DOMAIN f, f, k)
  <2>1. s \in TopKByChunks(f, k, ChunkRows) \/ s \in TopKByChunks(f, k, BlockRows)
    BY DEF exact_topk, flat_topk
  <2>2. QED
    BY <2>1, SearchFinds
<1>3. PICK t : t = best
  OBVIOUS
<1>4. Found(t, DOMAIN f, f, k)
  BY <1>3, BestIsFound
<1>5. IsInjective(s) /\ IsSeq(s) /\ IsSeq(t)
  BY <1>2, <1>4 DEF Found
<1>6. DOMAIN s = DOMAIN t
  BY <1>2, <1>4, FoundLength
<1>7. Len(s) = Len(t)
  <2>1. PICK a \in Nat, b \in Nat : a = Len(s) /\ b = Len(t) /\ 1 .. a = 1 .. b
    BY <1>5, <1>6, SeqIs
  <2>2. a = b
    BY <2>1
  <2>3. QED
    BY <2>1, <2>2
<1>8. ASSUME NEW i \in DOMAIN s PROVE f[s[i]] = f[t[i]]
  <2>1. f[s[i]] \in Int /\ f[t[i]] \in Int /\ ~(f[s[i]] > f[t[i]])
    BY <1>2, <1>4, NoBetter
  <2>2. ~(f[t[i]] > f[s[i]])
    BY <1>2, <1>4, <1>6, NoBetter
  <2>3. QED
    BY <2>1, <2>2
<1>9. ASSUME NEW i \in DOMAIN s \ {1}, f[s[i - 1]] = f[s[i]] PROVE s[i - 1] < s[i]
  <2>1. PICK n \in Nat : DOMAIN s = 1 .. n
    BY <1>5, SeqIs
  <2>2. i - 1 \in DOMAIN s /\ i - 1 < i
    BY <2>1
  <2>3. f[s[i - 1]] \in Int
    BY <1>2, <2>2, NoBetter
  <2>4. f[s[i - 1]] > f[s[i]] \/ s[i - 1] < s[i]
    BY <1>2, <2>2 DEF Found, Descends
  <2>5. QED
    BY <1>9, <2>3, <2>4
<1>10. QED
  BY <1>3, <1>5, <1>7, <1>8, <1>9

-----------------------------------------------------------------------------
(* Hard negatives. *)

\* A pool: the first that were kept, or all of them.
PassAt(q, s, f) == {i \in DOMAIN s : Kept(q, s[i], f[s[i]])}

\* A pool holds what passes; one that is not full leaves nothing behind that would.
LEMMA PoolIs ==
    ASSUME NEW q, NEW s, IsSeq(s), NEW f, NEW k \in Nat, NEW pool, pool = Top(WhereAt(s, PassAt(q, s, f)), k)
    PROVE  /\ \A d \in Range(pool) : d \in Range(s) /\ Kept(q, d, f[d])
           /\ Len(pool) < k => \A d \in Range(s) \ Range(pool) : ~Kept(q, d, f[d])
           /\ IsSeq(pool)
<1> DEFINE P == PassAt(q, s, f)
<1>1. PICK w : w = WhereAt(s, P)
  OBVIOUS
<1>2. P \subseteq DOMAIN s
  BY DEF PassAt
<1>3. IsSeq(w) /\ Range(w) = {s[i] : i \in P}
  BY <1>1, <1>2, WhereIs
<1>4. PICK m \in Nat : m = Len(w) /\ DOMAIN w = 1 .. m
  BY <1>3, SeqIs
<1>5. PICK n : n = IF k <= m THEN k ELSE m
  OBVIOUS
<1>6. Begins(pool, w, n)
  BY <1>1, <1>3, <1>4, <1>5, TopBegins
<1>7. IsSeq(pool) /\ Len(pool) = n /\ DOMAIN pool = 1 .. n /\ n \in Nat /\ n <= m /\ \A i \in 1 .. n : pool[i] = w[i]
  BY <1>4, <1>6 DEF Begins
<1>8. ASSUME NEW d \in Range(pool) PROVE d \in Range(s) /\ Kept(q, d, f[d])
  <2>1. d \in Range(w)
    BY <1>4, <1>7 DEF Range
  <2>2. PICK i \in P : d = s[i]
    BY <1>3, <2>1
  <2>3. QED
    BY <2>2 DEF PassAt, Range
<1>9. ASSUME Len(pool) < k, NEW d \in Range(s) \ Range(pool), Kept(q, d, f[d]) PROVE FALSE
  <2>1. n = m
    BY <1>4, <1>5, <1>7, <1>9
  <2>2. Range(pool) = Range(w)
    BY <1>4, <1>7, <2>1 DEF Range
  <2>3. PICK i \in DOMAIN s : d = s[i]
    BY DEF Range
  <2>4. i \in P
    BY <1>9, <2>3 DEF PassAt
  <2>5. QED
    BY <1>3, <1>9, <2>2, <2>3, <2>4
<1>10. QED
  BY <1>7, <1>8, <1>9

\* What was mined from a query.
ScoresIn(f, S) == [d \in S |-> ScoreOf(f, d)]
TermPool(q) ==
    Top(WhereAt(Sorted(HitScores(q)), {i \in DOMAIN Sorted(HitScores(q)) :
                                           Kept(q, Sorted(HitScores(q))[i], ScoreOf(q.dense, Sorted(HitScores(q))[i]))}),
        PoolDepth)
DensePool(q, top) == Top(WhereAt(top, {i \in DOMAIN top : Kept(q, top[i], q.dense[top[i]])}), PoolDepth)
Mined(q, top, random) ==
    [pos |-> Positives(q), bm25 |-> TermPool(q), dense |-> DensePool(q, top), random |-> random]

\* What is mined for a query comes from an exact search and a random pool.
LEMMA MinedIs ==
    ASSUME NEW q, NEW m \in mine(q)
    PROVE  /\ DOMAIN HitScores(q) # {}
           /\ \E top \in exact_topk(q.dense, DenseDepth), random \in random_pool(q) : m = Mined(q, top, random)
<1>1. DOMAIN HitScores(q) # {}
  <2>1. SUFFICES ASSUME DOMAIN HitScores(q) = {} PROVE mine(q) = {}
    OBVIOUS
  <2>2. QED
    BY ONLY <2>1 DEF mine
<1>2. mine(q) = {Mined(q, top, random) : top \in exact_topk(q.dense, DenseDepth), random \in random_pool(q)}
  BY <1>1 DEF mine, Where, WhereAt, Mined, TermPool, DensePool
<1>3. QED
  BY ONLY <1>1, <1>2, m \in mine(q)

\* The two pools of hard negatives, in one form.
LEMMA PoolsAre ==
    ASSUME NEW q, NEW top
    PROVE  /\ TermPool(q) = Top(WhereAt(Sorted(HitScores(q)),
                  PassAt(q, Sorted(HitScores(q)), ScoresIn(q.dense, Range(Sorted(HitScores(q)))))), PoolDepth)
           /\ DensePool(q, top) = Top(WhereAt(top, PassAt(q, top, q.dense)), PoolDepth)
<1>1. PICK s : s = Sorted(HitScores(q))
  OBVIOUS
<1>2. \A i \in DOMAIN s : ScoresIn(q.dense, Range(s))[s[i]] = ScoreOf(q.dense, s[i])
  BY DEF ScoresIn, Range
<1>3. PassAt(q, s, ScoresIn(q.dense, Range(s))) = {i \in DOMAIN s : Kept(q, s[i], ScoreOf(q.dense, s[i]))}
  BY <1>2 DEF PassAt
<1>4. TermPool(q) = Top(WhereAt(s, PassAt(q, s, ScoresIn(q.dense, Range(s)))), PoolDepth)
  BY ONLY <1>1, <1>3 DEF TermPool
<1>5. DensePool(q, top) = Top(WhereAt(top, PassAt(q, top, q.dense)), PoolDepth)
  BY ONLY TRUE DEF DensePool, PassAt
<1>6. QED
  BY ONLY <1>1, <1>4, <1>5

\* The hits score no less than the passages that were not hit.
LEMMA HitsAre ==
    ASSUME NEW q, IsQuery(q), DOMAIN HitScores(q) # {}, NEW h, h = HitScores(q)
    PROVE  /\ DOMAIN h \subseteq DOMAIN q.bm25 /\ \A d \in DOMAIN h : h[d] = q.bm25[d]
           /\ Numbered(DOMAIN h, h)
           /\ \A d \in DOMAIN h, p \in DOMAIN q.bm25 \ DOMAIN h : q.bm25[d] >= q.bm25[p]
<1>1. DOMAIN h = RunFile(q) /\ \A d \in DOMAIN h : h[d] = q.bm25[d]
  BY DEF HitScores
<1>2. PICK f, D : f = q.bm25 /\ D = DOMAIN f
  OBVIOUS
<1>3. Numbered(D, f)
  BY <1>2 DEF IsQuery
<1>4. PICK R, s, t : R = ByScore(D, f, Less) /\ s = Sorted(f) /\ t = Top(s, RunDepth)
  OBVIOUS
<1>5. Listing(D, R, s) /\ TotalOrder(D, R)
  BY <1>2, <1>3, <1>4, SortedLists, ScoresAreTotal
<1>6. Best(D, R, t) /\ IsSeq(t)
  BY <1>4, <1>5, TopIsBest, TopIs, DepthsAssumption DEF Listing
<1>7. DOMAIN h = Range(t)
  BY <1>1, <1>2, <1>4 DEF RunFile
<1>8. ASSUME NEW d \in DOMAIN h, NEW p \in D \ DOMAIN h PROVE f[d] >= f[p]
  <2>1. d \in D /\ p \in D /\ <<d, p>> \in R
    BY <1>6, <1>7 DEF Best
  <2>2. f[d] > f[p] \/ f[d] = f[p]
    BY <1>4, <2>1, ByScoreIs
  <2>3. f[d] \in Int /\ f[p] \in Int
    BY <1>3, <2>1 DEF Numbered
  <2>4. QED
    BY <2>2, <2>3
<1>9. DOMAIN h \subseteq D /\ IsFiniteSet(DOMAIN h)
  BY <1>6, <1>7, RangeIsFinite DEF Best
<1>10. Numbered(DOMAIN h, h)
  BY <1>1, <1>2, <1>3, <1>9 DEF Numbered
<1>11. QED
  BY <1>1, <1>2, <1>8, <1>9, <1>10

\* What is dropped does beat every positive.
LEMMA DroppedBeats ==
    ASSUME NEW q, IsQuery(q), NEW h, h = HitScores(q), NEW d \in DOMAIN h, d \notin DOMAIN q.judged,
           ~Kept(q, d, ScoreOf(q.dense, d))
    PROVE  /\ \A p \in Positives(q) : q.bm25[d] >= q.bm25[p]
           /\ \A p \in Positives(q) \cap DOMAIN q.encoded : q.dense[d] >= q.encoded[p]
<1>1. PICK dNeg, dPos, b, bound :
          /\ dNeg = ScoreOf(q.dense, d) /\ dPos = DensePos(q) /\ b = ScoreOf(h, d) /\ bound = BM25Bound(q)
  OBVIOUS
<1>2. false_negative(dNeg, dPos, b, bound) = "drop"
  BY <1>1 DEF Kept
<1>3. dNeg # NoScore /\ dPos # NoScore
  BY <1>2 DEF false_negative
<1>4. dNeg - dPos >= DenseMargin /\ 10 * (b - bound) >= BM25MarginTenths * Abs(bound)
  BY <1>2 DEF false_negative
<1>5. DOMAIN HitScores(q) # {}
  OBVIOUS
<1>6. /\ DOMAIN h \subseteq DOMAIN q.bm25 /\ \A c \in DOMAIN h : h[c] = q.bm25[c]
      /\ \A c \in DOMAIN h, p \in DOMAIN q.bm25 \ DOMAIN h : q.bm25[c] >= q.bm25[p]
  BY <1>5, HitsAre
<1>7. b = q.bm25[d] /\ b \in Int
  BY <1>1, <1>6 DEF ScoreOf, IsQuery, Numbered
<1>8. dNeg = q.dense[d] /\ dNeg \in Int
  BY <1>1, <1>3 DEF ScoreOf, IsQuery, Numbered
<1>9. ASSUME NEW p \in Positives(q) PROVE q.bm25[d] >= q.bm25[p]
  <2>1. p \in DOMAIN q.bm25
    BY DEF IsQuery
  <2>2. CASE p \notin DOMAIN h
    BY <1>6, <2>1, <2>2
  <2>3. CASE p \in DOMAIN h
    <3>1. PICK F : F = Positives(q) \cap DOMAIN h /\ p \in F
      BY <2>3
    <3>2. bound = Max({q.bm25[x] : x \in F})
      BY <1>1, <3>1 DEF BM25Bound
    <3>3. Numbered(F, q.bm25)
      <4>1. F \in SUBSET DOMAIN q.bm25
        BY <1>6, <3>1
      <4>2. IsFiniteSet(F)
        BY <4>1, FS_Subset DEF IsQuery, Numbered
      <4>3. QED
        BY <4>1, <4>2 DEF IsQuery, Numbered
    <3>4. PICK f : f = q.bm25
      OBVIOUS
    <3>5. bound \in Int /\ bound >= f[p]
      BY ONLY <3>1, <3>2, <3>3, <3>4, GreatestScore
    <3>6. PICK a \in Nat : a = Abs(bound)
      BY <3>5 DEF Abs
    <3>7. BM25MarginTenths * a \in Nat
      BY DepthsAssumption
    <3>8. PICK c \in Nat : 10 * (b - bound) >= c
      BY <1>4, <3>6, <3>7
    <3>9. b >= bound
      BY <1>7, <3>5, <3>8
    <3>10. f[p] \in Int
      BY <2>1, <3>4 DEF IsQuery, Numbered
    <3>11. QED
      BY <1>7, <3>4, <3>5, <3>9, <3>10
  <2>4. QED
    BY <2>2, <2>3
<1>10. ASSUME NEW p \in Positives(q) \cap DOMAIN q.encoded PROVE q.dense[d] >= q.encoded[p]
  <2>1. PICK F : F = Positives(q) \cap DOMAIN q.encoded /\ p \in F
    OBVIOUS
  <2>2. PICK f : f = q.encoded
    OBVIOUS
  <2>3. dPos = Max({f[x] : x \in F})
    <3>1. PICK V : V = {f[x] : x \in F}
      OBVIOUS
    <3>2. f[p] \in V
      BY <2>1, <3>1
    <3>3. dPos = Max(V)
      BY <1>1, <2>1, <2>2, <3>1, <3>2 DEF DensePos
    <3>4. QED
      BY <3>1, <3>3
  <2>4. Numbered(F, f)
    <3>1. F \in SUBSET DOMAIN q.encoded
      BY <2>1
    <3>2. IsFiniteSet(F)
      BY <3>1, FS_Subset DEF IsQuery, Numbered
    <3>3. QED
      BY <2>2, <3>1, <3>2 DEF IsQuery, Numbered
  <2>5. dPos \in Int /\ dPos >= f[p]
    BY ONLY <2>1, <2>3, <2>4, GreatestScore
  <2>6. f[p] \in Int
    BY <2>1, <2>4 DEF Numbered
  <2>7. DenseMargin \in Nat
    BY DepthsAssumption
  <2>8. QED
    BY <1>4, <1>8, <2>2, <2>5, <2>6, <2>7
<1>11. QED
  BY <1>9, <1>10

\* A draw has the usable passages of a pool, as many as were asked for or all there are.
FairDraw(D, ok, n) ==
    /\ D \subseteq ok /\ IsFiniteSet(D) /\ Cardinality(D) \in Nat /\ Cardinality(D) <= n
    /\ Cardinality(D) < n => D = ok

\* A draw takes as many as it may, without a repetition.
LEMMA DrawIs ==
    ASSUME NEW q, NEW m, NEW pool, IsFiniteSet(pool), NEW n \in Nat, NEW taken, NEW D \in Draw(q, m, pool, n, taken),
           NEW ok, ok = {d \in pool : Ok(q, m, d, taken)}
    PROVE  FairDraw(D, ok, n)
<1>1. ok \in SUBSET pool
  OBVIOUS
<1>2. IsFiniteSet(ok)
  BY <1>1, FS_Subset
<1>3. PICK c \in Nat : c = Cardinality(ok)
  BY <1>2, FS_CardinalityType
<1>4. Min({n, c}) = IF n <= c THEN n ELSE c
  BY LesserOf
<1>5. D \in SUBSET ok /\ Cardinality(D) = Min({n, Cardinality(ok)})
  BY Zenon DEF Draw, kSubset
<1>6. Cardinality(D) = IF n <= c THEN n ELSE c
  BY <1>3, <1>4, <1>5
<1>7. IsFiniteSet(D) /\ (Cardinality(D) = Cardinality(ok) => D = ok)
  BY <1>2, <1>5, FS_Subset
<1>8. QED
  BY <1>3, <1>5, <1>6, <1>7 DEF FairDraw

\* Half of a number of negatives, rounded, is no more than the whole.
LEMMA HalfIs == ASSUME NEW n \in Nat PROVE HalfRounded(n) \in Nat /\ HalfRounded(n) <= n
<1>1. PICK a \in Nat, r \in Nat : a = n \div 2 /\ r = n % 2 /\ r < 2 /\ n = 2 * a + r
  OBVIOUS
<1>2. PICK b \in Nat, t \in Nat : b = (n + 1) \div 2 /\ t = (n + 1) % 2 /\ t < 2 /\ n + 1 = 2 * b + t
  OBVIOUS
<1>3. a <= n
  BY <1>1
<1>4. n % 4 = 3 => b <= n
  BY <1>2
<1>5. QED
  BY <1>1, <1>2, <1>3, <1>4 DEF HalfRounded

\* The hard negatives of a strategy: from its pools, as many as there are to be had.
Usable(q, m, pool) == {d \in pool : Ok(q, m, d, {})}
HardOk(q, m, strategy, hard) ==
    /\ \A d \in hard : Ok(q, m, d, {})
    /\ IsFiniteSet(hard) /\ Cardinality(hard) \in Nat /\ Cardinality(hard) <= NNeg
    /\ strategy \in {"dense-hard", "mixed"} /\ Cardinality(hard) < NNeg => Usable(q, m, Range(m.dense)) \subseteq hard

\* The hard negatives of a strategy come from its pools, each once, and no more than asked for.
LEMMA HardIs ==
    ASSUME NEW q, NEW m, IsFiniteSet(m.random), IsSeq(m.bm25), IsSeq(m.dense), NNeg \in Nat,
           NEW strategy \in {"random", "bm25-hard", "dense-hard", "mixed"}, NEW hard \in Hard(q, m, strategy)
    PROVE  HardOk(q, m, strategy, hard)
<1>1. IsFiniteSet(Range(m.bm25)) /\ IsFiniteSet(Range(m.dense))
  BY RangeIsFinite
<1>2. PICK none, whole : none = {} /\ whole = NNeg
  OBVIOUS
<1>3. CASE strategy \in {"random", "bm25-hard", "dense-hard"}
  <2>1. PICK pool : /\ IsFiniteSet(pool) /\ hard \in Draw(q, m, pool, whole, none)
                    /\ strategy = "dense-hard" => pool = Range(m.dense)
    <3>1. strategy = "random" => hard \in Draw(q, m, m.random, whole, none)
      BY <1>2 DEF Hard
    <3>2. strategy = "bm25-hard" => hard \in Draw(q, m, Range(m.bm25), whole, none)
      BY <1>2 DEF Hard
    <3>3. strategy = "dense-hard" => hard \in Draw(q, m, Range(m.dense), whole, none)
      BY <1>2 DEF Hard
    <3>4. QED
      BY <1>1, <1>3, <3>1, <3>2, <3>3
  <2>2. PICK ok : ok = {d \in pool : Ok(q, m, d, none)}
    OBVIOUS
  <2>3. FairDraw(hard, ok, whole)
    BY ONLY <1>2, <2>1, <2>2, NNeg \in Nat, DrawIs
  <2>4. \A d \in ok : Ok(q, m, d, {})
    BY <1>2, <2>2
  <2>5. strategy = "dense-hard" => ok = Usable(q, m, Range(m.dense))
    BY <1>2, <2>1, <2>2 DEF Usable
  <2>6. QED
    BY <1>2, <1>3, <2>3, <2>4, <2>5 DEF FairDraw, HardOk
<1>4. CASE strategy = "mixed"
  <2>1. PICK half \in Nat : half = HalfRounded(NNeg) /\ half <= NNeg
    BY HalfIs
  <2>2. PICK first \in Draw(q, m, Range(m.bm25), half, none) :
            \E second \in Draw(q, m, Range(m.dense), NNeg - Cardinality(first), first) : hard = first \cup second
    BY <1>2, <1>4, <2>1 DEF Hard
  <2>3. PICK second \in Draw(q, m, Range(m.dense), NNeg - Cardinality(first), first) : hard = first \cup second
    BY <2>2
  <2>4. PICK ok : ok = {d \in Range(m.bm25) : Ok(q, m, d, none)}
    OBVIOUS
  <2>5. FairDraw(first, ok, half)
    BY ONLY <1>1, <2>2, <2>4, half \in Nat, DrawIs
  <2>6. PICK c \in Nat, r \in Nat : c = Cardinality(first) /\ r = NNeg - Cardinality(first) /\ c + r = NNeg
    BY <2>1, <2>5 DEF FairDraw
  <2>7. PICK more : more = {d \in Range(m.dense) : Ok(q, m, d, first)}
    OBVIOUS
  <2>8. FairDraw(second, more, r)
    BY ONLY <1>1, <2>3, <2>6, <2>7, DrawIs
  <2>9. \A d \in more : Ok(q, m, d, {}) /\ d \notin first
    BY <2>7 DEF Ok
  <2>10. \A d \in ok : Ok(q, m, d, {})
    BY <1>2, <2>4
  <2>11. \A d \in hard : Ok(q, m, d, {})
    BY <2>3, <2>5, <2>8, <2>9, <2>10 DEF FairDraw
  <2>12. PICK e \in Nat : e = Cardinality(second)
    BY <2>8 DEF FairDraw
  <2>13. IsFiniteSet(hard) /\ Cardinality(hard) = c + e
    <3>1. first \cap second = {}
      BY <2>8, <2>9 DEF FairDraw
    <3>2. IsFiniteSet(first) /\ IsFiniteSet(second) /\ Cardinality(first \cap second) = 0
      BY <2>5, <2>8, <3>1, FS_EmptySet DEF FairDraw
    <3>3. IsFiniteSet(first \cup second)
          /\ Cardinality(first \cup second) = Cardinality(first) + Cardinality(second) - Cardinality(first \cap second)
      BY <3>2, FS_Union
    <3>4. QED
      BY <2>3, <2>6, <2>12, <3>2, <3>3
  <2>14. e <= r /\ (e < r => second = more)
    BY <2>8, <2>12 DEF FairDraw
  <2>15. Cardinality(hard) < NNeg => Usable(q, m, Range(m.dense)) \subseteq hard
    <3>1. SUFFICES ASSUME Cardinality(hard) < NNeg, NEW d \in Range(m.dense), Ok(q, m, d, {}), d \notin first
                   PROVE  d \in second
      BY <2>3 DEF Usable
    <3>2. second = more
      BY <2>6, <2>12, <2>13, <2>14, <3>1
    <3>3. Ok(q, m, d, first)
      BY <3>1 DEF Ok
    <3>4. QED
      BY <2>7, <3>2, <3>3
  <2>16. QED
    BY <2>6, <2>11, <2>13, <2>14, <2>15 DEF HardOk
<1>5. QED
  BY <1>3, <1>4

\* Loading the texts that a strategy needs changes nothing about its passages.
LEMMA LoadedIs ==
    ASSUME NEW q, DOMAIN q = {"judged", "bm25", "dense", "encoded", "covered", "text"}, NEW m, NEW strategy,
           NEW l, l = Loaded(q, m, strategy)
    PROVE  /\ DOMAIN l.judged = DOMAIN q.judged
           /\ DOMAIN l.text = DOMAIN q.text \cap needed_pids(m, strategy)
           /\ \A d \in DOMAIN l.text : l.text[d] = q.text[d]
           /\ m.pos \cap DOMAIN l.text = m.pos \cap DOMAIN q.text
<1>1. l = [q EXCEPT !.text = [d \in DOMAIN q.text \cap needed_pids(m, strategy) |-> q.text[d]]]
  BY DEF Loaded
<1>2. l.judged = q.judged /\ l.text = [d \in DOMAIN q.text \cap needed_pids(m, strategy) |-> q.text[d]]
  BY <1>1
<1>3. m.pos \subseteq needed_pids(m, strategy)
  BY DEF needed_pids
<1>4. QED
  BY <1>2, <1>3

\* What may be drawn for a query with its positive and negatives loaded.
LEMMA LoadedOk ==
    ASSUME NEW q, DOMAIN q = {"judged", "bm25", "dense", "encoded", "covered", "text"}, NEW m, NEW strategy,
           NEW l, l = Loaded(q, m, strategy), NEW d, NEW taken
    PROVE  Ok(l, m, d, taken) <=> Ok(q, m, d, taken) /\ d \in needed_pids(m, strategy)
<1>1. /\ DOMAIN l.judged = DOMAIN q.judged
      /\ DOMAIN l.text = DOMAIN q.text \cap needed_pids(m, strategy)
      /\ \A c \in DOMAIN l.text : l.text[c] = q.text[c]
      /\ m.pos \cap DOMAIN l.text = m.pos \cap DOMAIN q.text
  BY LoadedIs
<1>2. {l.text[p] : p \in m.pos \cap DOMAIN l.text} = {q.text[p] : p \in m.pos \cap DOMAIN q.text}
  BY <1>1
<1>3. QED
  BY <1>1, <1>2 DEF Ok

\* What NegativesAreClean says of a group.
GroupIsClean(q, m, strategy, g) ==
    /\ g.pos \in Positives(q)
    /\ g.negs \cap DOMAIN q.judged = {}
    /\ \A d \in g.negs, p \in Positives(q) \cap DOMAIN q.text : q.text[d] # q.text[p]
    /\ Cardinality(g.negs) <= NNeg
    /\ Cardinality(g.negs) < NNeg => {d \in m.random : Ok(q, m, d, {})} \subseteq g.negs
    /\ g.topups > 0 /\ strategy \in {"dense-hard", "mixed"} =>
          {d \in Range(m.dense) : Ok(q, m, d, {})} \subseteq g.negs

\* A training group has no judged document among its negatives, and none twice.
LEMMA GroupsAreClean ==
    ASSUME NEW q, DOMAIN q = {"judged", "bm25", "dense", "encoded", "covered", "text"}, NNeg \in Nat,
           NEW m, m.pos = Positives(q), IsFiniteSet(m.random), IsSeq(m.bm25), IsSeq(m.dense),
           NEW strategy \in {"random", "bm25-hard", "dense-hard", "mixed"},
           NEW g \in group(Loaded(q, m, strategy), m, strategy)
    PROVE  GroupIsClean(q, m, strategy, g)
<1>1. PICK l : l = Loaded(q, m, strategy)
  OBVIOUS
<1>2. PICK hard \in Hard(l, m, strategy) :
          \E p \in m.pos \cap DOMAIN l.text, more \in Draw(l, m, m.random, NNeg - Cardinality(hard), hard) :
             g = [pos |-> p, hard |-> hard, topups |-> NNeg - Cardinality(hard), negs |-> hard \cup more]
  BY <1>1 DEF group
<1>3. PICK p \in m.pos \cap DOMAIN l.text, more \in Draw(l, m, m.random, NNeg - Cardinality(hard), hard) :
          g = [pos |-> p, hard |-> hard, topups |-> NNeg - Cardinality(hard), negs |-> hard \cup more]
  BY <1>2
<1>4. g.pos = p /\ g.topups = NNeg - Cardinality(hard) /\ g.negs = hard \cup more
  BY <1>3
<1>5. HardOk(l, m, strategy, hard)
  BY ONLY <1>2, IsFiniteSet(m.random), IsSeq(m.bm25), IsSeq(m.dense), NNeg \in Nat,
          strategy \in {"random", "bm25-hard", "dense-hard", "mixed"}, HardIs
<1>6. PICK c \in Nat, r \in Nat : c = Cardinality(hard) /\ r = NNeg - Cardinality(hard) /\ c + r = NNeg
  BY <1>5 DEF HardOk
<1>7. PICK ok, random : ok = {d \in m.random : Ok(l, m, d, hard)} /\ random = m.random
  OBVIOUS
<1>8. FairDraw(more, ok, r)
  <2>1. more \in Draw(l, m, random, r, hard) /\ IsFiniteSet(random) /\ ok = {d \in random : Ok(l, m, d, hard)}
    BY <1>3, <1>6, <1>7
  <2>2. QED
    BY ONLY <2>1, r \in Nat, DrawIs
<1>9. \A d \in ok : Ok(l, m, d, {}) /\ d \notin hard
  BY <1>7 DEF Ok
<1>10. \A d \in g.negs : Ok(l, m, d, {})
  BY <1>4, <1>5, <1>8, <1>9 DEF HardOk, FairDraw
<1>11. \A d \in g.negs : Ok(q, m, d, {})
  BY <1>1, <1>10, LoadedOk
<1>12. PICK e \in Nat : e = Cardinality(more)
  BY <1>8 DEF FairDraw
<1>13. e <= r /\ (e < r => more = ok)
  BY <1>8, <1>12 DEF FairDraw
<1>14. Cardinality(g.negs) = c + e
  <2>1. hard \cap more = {}
    BY <1>8, <1>9 DEF FairDraw
  <2>2. IsFiniteSet(hard) /\ IsFiniteSet(more) /\ Cardinality(hard \cap more) = 0
    BY <1>5, <1>8, <2>1, FS_EmptySet DEF HardOk, FairDraw
  <2>3. Cardinality(hard \cup more) = Cardinality(hard) + Cardinality(more) - Cardinality(hard \cap more)
    BY <2>2, FS_Union
  <2>4. QED
    BY <1>4, <1>6, <1>12, <2>2, <2>3
<1>15. ASSUME Cardinality(g.negs) < NNeg, NEW d \in m.random, Ok(q, m, d, {}), d \notin hard PROVE d \in more
  <2>1. more = ok
    BY <1>6, <1>13, <1>14, <1>15
  <2>2. Ok(q, m, d, hard) /\ d \in needed_pids(m, strategy)
    BY <1>15 DEF Ok, needed_pids
  <2>3. Ok(l, m, d, hard)
    BY <1>1, <2>2, LoadedOk
  <2>4. QED
    BY <1>7, <2>1, <2>3
<1>16. ASSUME g.topups > 0, strategy \in {"dense-hard", "mixed"}, NEW d \in Range(m.dense), Ok(q, m, d, {})
       PROVE  d \in hard
  <2>1. d \in needed_pids(m, strategy)
    BY <1>16 DEF needed_pids
  <2>2. Ok(l, m, d, {})
    BY <1>1, <1>16, <2>1, LoadedOk
  <2>3. Cardinality(hard) < NNeg
    BY <1>4, <1>6, <1>16
  <2>4. QED
    BY <1>5, <1>16, <2>2, <2>3 DEF HardOk, Usable
<1>17. \A d \in g.negs, x \in Positives(q) \cap DOMAIN q.text : q.text[d] # q.text[x]
  <2>1. TAKE d \in g.negs, x \in Positives(q) \cap DOMAIN q.text
  <2>2. q.text[d] \notin {q.text[y] : y \in m.pos \cap DOMAIN q.text}
    BY <1>11 DEF Ok
  <2>3. QED
    BY <2>2
<1>18. g.negs \cap DOMAIN q.judged = {}
  BY <1>11 DEF Ok
<1>19. Cardinality(g.negs) <= NNeg
  BY <1>6, <1>13, <1>14
<1>20. g.pos \in Positives(q)
  BY <1>4
<1>21. QED
  BY <1>4, <1>15, <1>16, <1>17, <1>18, <1>19, <1>20 DEF GroupIsClean

\* What is mined for a query is clean.
LEMMA MinedIsClean ==
    ASSUME NEW q, IsQuery(q)
    PROVE  NegativesAreClean(q, mine(q))
<1>1. SUFFICES ASSUME NEW m \in mine(q)
               PROVE  /\ (Range(m.bm25) \cup Range(m.dense) \cup m.random) \cap DOMAIN q.judged = {}
                      /\ Len(m.bm25) < PoolDepth =>
                            \A d \in DOMAIN HitScores(q) \ (Range(m.bm25) \cup DOMAIN q.judged) :
                                /\ \A p \in Positives(q) : q.bm25[d] >= q.bm25[p]
                                /\ \A p \in Positives(q) \cap DOMAIN q.encoded : q.dense[d] >= q.encoded[p]
                      /\ \A strategy \in {"random", "bm25-hard", "dense-hard", "mixed"} :
                            \A g \in group(Loaded(q, m, strategy), m, strategy) : GroupIsClean(q, m, strategy, g)
  BY DEF NegativesAreClean, GroupIsClean
<1>2. PICK h, s : h = HitScores(q) /\ s = Sorted(h)
  OBVIOUS
<1>3. PICK top \in exact_topk(q.dense, DenseDepth), random \in random_pool(q) : m = Mined(q, top, random)
  BY MinedIs
<1>4. m.pos = Positives(q) /\ m.bm25 = TermPool(q) /\ m.dense = DensePool(q, top) /\ m.random = random
  BY <1>3 DEF Mined
<1>5. DOMAIN h # {} /\ Numbered(DOMAIN h, h)
  BY <1>2, MinedIs, HitsAre
<1>6. IsSeq(s) /\ Range(s) = DOMAIN h
  BY <1>2, <1>5, SortedLists DEF Listing
<1>7. PICK f : f = ScoresIn(q.dense, Range(s)) /\ \A d \in DOMAIN h : f[d] = ScoreOf(q.dense, d)
  <2>1. PICK f : f = ScoresIn(q.dense, Range(s))
    OBVIOUS
  <2>2. \A d \in Range(s) : f[d] = ScoreOf(q.dense, d)
    BY ONLY <2>1 DEF ScoresIn
  <2>3. QED
    BY <1>6, <2>1, <2>2
<1>8. /\ IsSeq(m.bm25)
      /\ \A d \in Range(m.bm25) : Kept(q, d, f[d])
      /\ Len(m.bm25) < PoolDepth => \A d \in Range(s) \ Range(m.bm25) : ~Kept(q, d, f[d])
  <2>1. m.bm25 = Top(WhereAt(s, PassAt(q, s, f)), PoolDepth)
    BY <1>2, <1>4, <1>7, PoolsAre
  <2>2. QED
    BY <1>6, <2>1, PoolIs, DepthsAssumption
<1>9. IsSeq(m.dense) /\ \A d \in Range(m.dense) : Kept(q, d, q.dense[d])
  <2>1. m.dense = Top(WhereAt(top, PassAt(q, top, q.dense)), PoolDepth)
    BY <1>4, PoolsAre
  <2>2. IsSeq(top)
    <3>1. top \in TopKByChunks(q.dense, DenseDepth, ChunkRows)
      BY DEF exact_topk
    <3>2. PICK dense : dense = q.dense
      OBVIOUS
    <3>3. Numbered(DOMAIN dense, dense)
      BY <3>2 DEF IsQuery
    <3>4. Found(top, DOMAIN dense, dense, DenseDepth)
      BY <3>1, <3>2, <3>3, SearchFinds, DepthsAssumption
    <3>5. QED
      BY <3>4 DEF Found
  <2>3. QED
    BY <2>1, <2>2, PoolIs, DepthsAssumption
<1>10. m.random \subseteq DOMAIN q.bm25 \ DOMAIN q.judged /\ IsFiniteSet(m.random)
  <2>1. random \in SUBSET (DOMAIN q.bm25 \ DOMAIN q.judged)
    BY DEF random_pool, kSubset
  <2>2. random \in SUBSET DOMAIN q.bm25 /\ IsFiniteSet(DOMAIN q.bm25)
    BY <2>1 DEF IsQuery, Numbered
  <2>3. IsFiniteSet(random)
    BY <2>2, FS_Subset
  <2>4. QED
    BY <1>4, <2>1, <2>3
<1>11. (Range(m.bm25) \cup Range(m.dense) \cup m.random) \cap DOMAIN q.judged = {}
  BY <1>8, <1>9, <1>10 DEF Kept
<1>12. ASSUME Len(m.bm25) < PoolDepth, NEW d \in DOMAIN h \ (Range(m.bm25) \cup DOMAIN q.judged)
       PROVE  /\ \A p \in Positives(q) : q.bm25[d] >= q.bm25[p]
              /\ \A p \in Positives(q) \cap DOMAIN q.encoded : q.dense[d] >= q.encoded[p]
  <2>1. ~Kept(q, d, ScoreOf(q.dense, d)) /\ d \in DOMAIN h /\ d \notin DOMAIN q.judged
    BY <1>6, <1>7, <1>8, <1>12
  <2>2. QED
    BY ONLY <1>2, <2>1, IsQuery(q), DroppedBeats
<1>13. ASSUME NEW strategy \in {"random", "bm25-hard", "dense-hard", "mixed"},
              NEW g \in group(Loaded(q, m, strategy), m, strategy)
       PROVE  GroupIsClean(q, m, strategy, g)
  BY <1>4, <1>8, <1>9, <1>10, GroupsAreClean, DepthsAssumption DEF IsQuery
<1>14. QED
  BY <1>2, <1>11, <1>12, <1>13

-----------------------------------------------------------------------------
(* Batches: where one ends, and that they follow one another to the last row. *)

\* A set of numbers of an interval has a greatest one.
LEMMA GreatestOf ==
    ASSUME NEW n \in Nat, NEW S \in SUBSET (0 .. n), S # {}, NEW m, m = Max(S)
    PROVE  m \in S /\ \A x \in S : x <= m
<1> DEFINE M == {n - x : x \in S}
<1>1. M \in SUBSET Nat /\ M # {}
  <2>1. \A x \in S : n - x \in Nat
    OBVIOUS
  <2>2. PICK x \in S : TRUE
    OBVIOUS
  <2>3. n - x \in M
    OBVIOUS
  <2>4. QED
    BY <2>1, <2>3
<1>2. PICK a \in M : \A b \in M : a <= b
  <2> HIDE DEF M
  <2> QED BY <1>1, LeastOf
<1>3. PICK y \in S : a = n - y
  BY <1>2
<1>4. ASSUME NEW x \in S PROVE y >= x
  <2>1. n - x \in M
    OBVIOUS
  <2>2. a <= n - x
    BY <1>2, <2>1
  <2>3. x \in Nat /\ y \in Nat
    OBVIOUS
  <2>4. QED
    BY ONLY <1>3, <2>2, <2>3, n \in Nat
<1>5. m = CHOOSE x \in S : \A z \in S : x >= z
  BY DEF Max
<1>6. m \in S /\ \A z \in S : m >= z
  BY ONLY <1>4, <1>5, y \in S
<1>7. QED
  BY <1>6

Fitting(lens, i, j) == \A h \in i .. j : Fits(lens, i, h)

\* A batch ends at or after its first pair, and what it takes in fits.
LEMMA BatchEndIs ==
    ASSUME NEW lens, NEW n \in Nat, n = Len(lens), NEW i \in 1 .. n, NEW e, e = BatchEnd(lens, i)
    PROVE  e \in i .. n /\ (e # i => Fitting(lens, i, e))
<1> DEFINE S == {i} \cup {j \in i .. n : Fitting(lens, i, j)}
<1>1. e = Max(S)
  BY Zenon DEF BatchEnd, Fitting
<1>2. S \in SUBSET (0 .. n) /\ i \in S /\ S \subseteq i .. n
  OBVIOUS
<1>3. e \in S
  <2> HIDE DEF S
  <2> QED BY <1>1, <1>2, GreatestOf
<1>4. QED
  BY <1>2, <1>3

\* The recursion that makes the batches, from the last row on.
BatchesAt(lens, f, i) ==
    IF i > Len(lens) THEN <<>> ELSE <<<<i, BatchEnd(lens, i)>>>> \o f[BatchEnd(lens, i) + 1]
Batching(lens, m, f) == f = [i \in m .. Len(lens) + 1 |-> BatchesAt(lens, f, i)]

\* The batches are where their recursion begins.
LEMMA BatchesAre ==
    ASSUME NEW lens PROVE Batches(lens) = (CHOOSE f : Batching(lens, 1, f))[1]
BY Zenon DEF Batches, Batching, BatchesAt

\* The recursion of the batches, which runs backwards, exists.
LEMMA BatchingExists ==
    ASSUME NEW lens, Len(lens) \in Nat PROVE \E f : Batching(lens, 1, f)
<1>1. PICK n \in Nat : n = Len(lens)
  OBVIOUS
<1> DEFINE Bad == {d \in 0 .. n : ~\E f : Batching(lens, n + 1 - d, f)}
<1>2. Bad = {}
  <2>1. SUFFICES ASSUME Bad # {} PROVE FALSE
    OBVIOUS
  <2>2. PICK d \in Bad : \A k \in Bad : d <= k
    <3>1. Bad \in SUBSET Nat
      OBVIOUS
    <3> HIDE DEF Bad
    <3> QED BY <2>1, <3>1, LeastOf
  <2>3. PICK m : m = n + 1 - d
    OBVIOUS
  <2>4. d \in 0 .. n /\ m \in 1 .. n + 1 /\ ~\E f : Batching(lens, m, f)
    BY <2>2, <2>3
  <2>5. \E f : f = [i \in m + 1 .. n + 1 |-> BatchesAt(lens, f, i)]
    <3>1. CASE d = 0
      <4>1. m + 1 .. n + 1 = {}
        BY <2>3, <3>1
      <4>2. PICK f : f = [i \in {} |-> <<>>]
        OBVIOUS
      <4>3. f = [i \in {} |-> BatchesAt(lens, f, i)]
        BY <4>2
      <4>4. QED
        BY <4>1, <4>3
    <3>2. CASE d # 0
      <4>1. d - 1 \in 0 .. n /\ d - 1 \notin Bad /\ n + 1 - (d - 1) = m + 1
        <5>1. PICK c \in Int : c = d - 1
          BY <2>4
        <5>2. c \in 0 .. n /\ ~(d <= c) /\ n + 1 - c = m + 1
          BY ONLY <2>3, <2>4, <3>2, <5>1, n \in Nat
        <5>3. c \notin Bad
          BY <2>2, <5>2
        <5>4. QED
          BY ONLY <5>1, <5>2, <5>3
      <4>2. PICK f : Batching(lens, m + 1, f)
        BY <4>1
      <4>3. QED
        BY <1>1, <4>2 DEF Batching
    <3>3. QED
      BY <3>1, <3>2
  <2>6. PICK f : f = [i \in m + 1 .. n + 1 |-> BatchesAt(lens, f, i)]
    BY <2>5
  <2> DEFINE h == [i \in m .. n + 1 |-> BatchesAt(lens, f, i)]
  <2>7. \A i \in m + 1 .. n + 1 : i \in m .. n + 1 /\ h[i] = f[i]
    <3>1. TAKE i \in m + 1 .. n + 1
    <3>2. f[i] = BatchesAt(lens, f, i)
      BY ONLY <2>6, i \in m + 1 .. n + 1
    <3>3. i \in m .. n + 1
      BY <2>4
    <3>4. h[i] = BatchesAt(lens, f, i)
      BY ONLY <3>3
    <3>5. QED
      BY ONLY <3>2, <3>3, <3>4
  <2>8. \A i \in m .. n + 1 : BatchesAt(lens, f, i) = BatchesAt(lens, h, i)
    <3>1. TAKE i \in m .. n + 1
    <3>2. CASE i > n
      BY ONLY <1>1, <3>2 DEF BatchesAt
    <3>3. CASE ~(i > n)
      <4>1. PICK e : e = BatchEnd(lens, i)
        OBVIOUS
      <4>2. i \in 1 .. n
        BY <2>4, <3>3
      <4>3. e \in i .. n
        BY <1>1, <4>1, <4>2, BatchEndIs
      <4>4. e + 1 \in m + 1 .. n + 1
        BY <2>4, <4>2, <4>3
      <4>5. f[e + 1] = h[e + 1]
        BY <2>7, <4>4
      <4> HIDE DEF h
      <4>6. QED
        BY ONLY <4>1, <4>5 DEF BatchesAt
    <3>4. QED
      BY <3>2, <3>3
  <2>9. h = [i \in m .. n + 1 |-> BatchesAt(lens, h, i)]
    BY <2>8
  <2> HIDE DEF h
  <2>10. Batching(lens, m, h)
    BY <1>1, <2>9 DEF Batching
  <2>11. QED
    BY <2>4, <2>10
<1>3. n \in 0 .. n /\ n + 1 - n = 1
  OBVIOUS
<1>4. QED
  BY <1>2, <1>3

\* Batches that follow one another from row i to row n.
Follow(bs, lens, i, n) ==
    /\ IsSeq(bs)
    /\ i > n => bs = <<>>
    /\ i <= n => Len(bs) # 0 /\ bs[1][1] = i /\ bs[Len(bs)][2] = n
    /\ \A b \in DOMAIN bs : bs[b][1] \in 1 .. n /\ bs[b][2] = BatchEnd(lens, bs[b][1])
    /\ \A b \in DOMAIN bs \ {1} : bs[b][1] = bs[b - 1][2] + 1

\* A batch before batches that follow each other.
LEMMA BatchBefore ==
    ASSUME NEW lens, NEW n \in Nat, NEW i \in 1 .. n, NEW e \in i .. n, e = BatchEnd(lens, i),
           NEW bs, Follow(bs, lens, e + 1, n), NEW t, t = <<<<i, e>>>> \o bs
    PROVE  Follow(t, lens, i, n)
<1>1. PICK p : p = <<i, e>> /\ p[1] = i /\ p[2] = e
  OBVIOUS
<1>2. PICK s : s = <<p>> /\ IsSeq(s) /\ Len(s) = 1 /\ s[1] = p
  BY SingleIs
<1>3. t = s \o bs
  BY <1>1, <1>2
<1>4. IsSeq(bs)
  BY DEF Follow
<1>5. PICK m \in Nat : m = Len(bs) /\ DOMAIN bs = 1 .. m
  BY <1>4, SeqIs
<1>6. /\ IsSeq(t) /\ Len(t) = 1 + m
      /\ t[1] = p /\ \A b \in 1 .. m : t[1 + b] = bs[b]
  <2>1. /\ IsSeq(s \o bs) /\ Len(s \o bs) = Len(s) + Len(bs)
        /\ \A b \in 1 .. Len(s) : (s \o bs)[b] = s[b]
        /\ \A b \in 1 .. Len(bs) : (s \o bs)[Len(s) + b] = bs[b]
    BY ONLY <1>2, <1>4, ConcatIs
  <2>2. 1 \in 1 .. 1
    OBVIOUS
  <2>3. QED
    BY ONLY <1>2, <1>3, <1>5, <2>1, <2>2
<1>7. DOMAIN t = 1 .. m + 1
  BY <1>6, SeqIs
<1>8. ASSUME NEW b \in 2 .. m + 1 PROVE b - 1 \in 1 .. m /\ t[b] = bs[b - 1]
  <2>1. PICK c \in 1 .. m : c = b - 1 /\ 1 + c = b
    OBVIOUS
  <2>2. QED
    BY <1>6, <2>1
<1>9. m = 0 => e = n
  <2>1. SUFFICES ASSUME m = 0, e # n PROVE FALSE
    OBVIOUS
  <2>2. e + 1 <= n
    BY <2>1
  <2>3. QED
    BY <1>5, <2>1, <2>2 DEF Follow
<1>10. m # 0 => e + 1 <= n /\ bs[1][1] = e + 1 /\ bs[m][2] = n
  <2>1. SUFFICES ASSUME m # 0 PROVE e + 1 <= n
    BY <1>5 DEF Follow
  <2>2. SUFFICES ASSUME e + 1 > n PROVE FALSE
    OBVIOUS
  <2>3. bs = <<>>
    BY <2>2 DEF Follow
  <2>4. QED
    BY <1>5, <2>1, <2>3
<1>11. t[m + 1][2] = n
  <2>1. CASE m = 0
    BY <1>1, <1>6, <1>9, <2>1
  <2>2. CASE m # 0
    <3>1. m \in 1 .. m /\ 1 + m = m + 1
      BY <2>2
    <3>2. QED
      BY <1>6, <1>10, <2>2, <3>1
  <2>3. QED
    BY <2>1, <2>2
<1>12. ASSUME NEW b \in 1 .. m + 1 PROVE t[b][1] \in 1 .. n /\ t[b][2] = BatchEnd(lens, t[b][1])
  <2>1. CASE b = 1
    BY <1>1, <1>6, <2>1
  <2>2. CASE b # 1
    <3>1. b \in 2 .. m + 1
      BY <2>2
    <3>2. b - 1 \in DOMAIN bs /\ t[b] = bs[b - 1]
      BY <1>5, <1>8, <3>1
    <3>3. QED
      BY <3>2 DEF Follow
  <2>3. QED
    BY <2>1, <2>2
<1>13. ASSUME NEW b \in 2 .. m + 1 PROVE t[b][1] = t[b - 1][2] + 1
  <2>1. b - 1 \in 1 .. m /\ t[b] = bs[b - 1]
    BY <1>8
  <2>2. CASE b = 2
    <3>1. b - 1 = 1 /\ m # 0
      BY <2>2
    <3>2. QED
      BY <1>1, <1>6, <1>10, <2>1, <3>1
  <2>3. CASE b # 2
    <3>1. b - 1 \in 2 .. m + 1 /\ b - 1 # 1
      BY <2>3
    <3>2. t[b - 1] = bs[b - 1 - 1]
      BY <1>8, <3>1
    <3>3. bs[b - 1][1] = bs[b - 1 - 1][2] + 1
      BY <1>5, <2>1, <3>1 DEF Follow
    <3>4. QED
      BY <2>1, <3>2, <3>3
  <2>4. QED
    BY <2>2, <2>3
<1>14. \A b \in DOMAIN t \ {1} : b \in 2 .. m + 1
  BY <1>7
<1>15. i <= n /\ ~(i > n) /\ 1 + m # 0 /\ 1 + m = m + 1
  OBVIOUS
<1>16. Len(t) # 0 /\ t[1][1] = i /\ t[Len(t)][2] = n
  BY ONLY <1>1, <1>6, <1>11, <1>15
<1>17. QED
  BY ONLY <1>6, <1>7, <1>12, <1>13, <1>14, <1>15, <1>16 DEF Follow

\* The batches follow each other from the first pair to the last.
LEMMA BatchesFollow ==
    ASSUME NEW lens, NEW n \in Nat, n = Len(lens)
    PROVE  Follow(Batches(lens), lens, 1, n)
<1>1. PICK f : Batching(lens, 1, f) /\ Batches(lens) = f[1]
  BY BatchesAre, BatchingExists
<1>2. \A i \in 1 .. n + 1 : f[i] = BatchesAt(lens, f, i)
  BY <1>1 DEF Batching
<1> DEFINE Bad == {d \in 0 .. n : ~Follow(f[n + 1 - d], lens, n + 1 - d, n)}
<1>3. Bad = {}
  <2>1. SUFFICES ASSUME Bad # {} PROVE FALSE
    OBVIOUS
  <2>2. PICK d \in Bad : \A k \in Bad : d <= k
    <3>1. Bad \in SUBSET Nat
      OBVIOUS
    <3> HIDE DEF Bad
    <3> QED BY <2>1, <3>1, LeastOf
  <2>3. PICK m \in Int : m = n + 1 - d
    BY <2>2
  <2>4. d \in 0 .. n /\ m \in 1 .. n + 1 /\ ~Follow(f[m], lens, m, n)
    BY <2>2, <2>3
  <2>5. \A i \in m + 1 .. n + 1 : Follow(f[i], lens, i, n)
    <3>1. TAKE i \in m + 1 .. n + 1
    <3>2. PICK c \in Int : c = n + 1 - i
      OBVIOUS
    <3>3. c \in 0 .. n /\ ~(d <= c) /\ n + 1 - c = i
      BY ONLY <2>3, <2>4, <3>2, i \in m + 1 .. n + 1, n \in Nat
    <3>4. c \notin Bad
      BY <2>2, <3>3
    <3>5. QED
      BY <3>3, <3>4
  <2>6. f[m] = BatchesAt(lens, f, m)
    BY <1>2, <2>4
  <2>7. CASE m > n
    <3>1. f[m] = <<>>
      BY <2>6, <2>7 DEF BatchesAt
    <3>2. PICK bs : bs = <<>> /\ IsSeq(bs) /\ DOMAIN bs = {}
      BY EmptySequences DEF IsSeq
    <3>3. ~(m <= n)
      BY <2>4, <2>7
    <3>4. Follow(bs, lens, m, n)
      BY ONLY <2>7, <3>2, <3>3 DEF Follow
    <3>5. QED
      BY <2>4, <3>1, <3>2, <3>4
  <2>8. CASE ~(m > n)
    <3>1. PICK e : e = BatchEnd(lens, m)
      OBVIOUS
    <3>2. m \in 1 .. n
      BY <2>4, <2>8
    <3>3. e \in m .. n
      BY <3>1, <3>2, BatchEndIs
    <3>4. e + 1 \in m + 1 .. n + 1
      BY <3>2, <3>3
    <3>5. Follow(f[e + 1], lens, e + 1, n)
      BY <2>5, <3>4
    <3>6. f[m] = <<<<m, e>>>> \o f[e + 1]
      BY <2>6, <2>8, <3>1 DEF BatchesAt
    <3>7. Follow(f[m], lens, m, n)
      BY ONLY <3>1, <3>2, <3>3, <3>5, <3>6, n \in Nat, BatchBefore
    <3>8. QED
      BY <2>4, <3>7
  <2>9. QED
    BY <2>7, <2>8
<1>4. n \in 0 .. n /\ n + 1 - n = 1
  OBVIOUS
<1>5. n \notin Bad
  BY ONLY <1>3
<1>6. QED
  BY <1>1, <1>4, <1>5

\* What is cut into batches is whole again when they are put together.
Slice(x, p) == [k \in 1 .. p[2] - p[1] + 1 |-> x[p[1] + k - 1]]
Starts(s, x, n) == IsSeq(s) /\ Len(s) = n /\ \A k \in 1 .. n : s[k] = x[k]
Reading(s, x, a, n) == IsSeq(s) /\ Len(s) = n /\ \A k \in 1 .. n : s[k] = x[a + k - 1]

\* A slice reads its part of a list.
LEMMA SliceIs ==
    ASSUME NEW x, NEW a \in Nat, NEW e \in Nat, NEW n \in Nat, n = e - a + 1, NEW p, p[1] = a, p[2] = e
    PROVE  Reading(Slice(x, p), x, a, n)
<1>1. n = e - a + 1
  OBVIOUS
<1>2. PICK s : s = Slice(x, p)
  OBVIOUS
<1>3. s = [k \in 1 .. n |-> x[a + k - 1]]
  BY <1>1, <1>2 DEF Slice
<1>4. IsSeq(s) /\ Len(s) = n
  BY <1>3, FunctionIsSeq
<1>5. QED
  BY <1>2, <1>3, <1>4 DEF Reading

\* What starts a list, and its next slice, start it together.
LEMMA SliceJoins ==
    ASSUME NEW x, NEW a \in Nat \ {0}, NEW e \in Nat, a <= e, NEW p, p[1] = a, p[2] = e,
           NEW s, Starts(s, x, a - 1)
    PROVE  Starts(s \o Slice(x, p), x, e)
<1>1. PICK t : t = Slice(x, p)
  OBVIOUS
<1>2. PICK c \in Nat, l \in Nat : c = a - 1 /\ l = e - a + 1 /\ c + l = e
  OBVIOUS
<1>3. IsSeq(t) /\ Len(t) = l /\ \A k \in 1 .. l : t[k] = x[a + k - 1]
  <2>1. Reading(Slice(x, p), x, a, l)
    BY <1>2, SliceIs
  <2>2. QED
    BY ONLY <1>1, <2>1 DEF Reading
<1>4. IsSeq(s) /\ Len(s) = c /\ \A k \in 1 .. c : s[k] = x[k]
  BY <1>2 DEF Starts
<1>5. PICK u : u = s \o t
  OBVIOUS
<1>6. /\ IsSeq(u) /\ Len(u) = c + l
      /\ \A i \in 1 .. c : u[i] = s[i]
      /\ \A j \in 1 .. l : u[c + j] = t[j]
  <2>1. /\ IsSeq(s \o t) /\ Len(s \o t) = Len(s) + Len(t)
        /\ \A i \in 1 .. Len(s) : (s \o t)[i] = s[i]
        /\ \A j \in 1 .. Len(t) : (s \o t)[Len(s) + j] = t[j]
    BY ONLY <1>3, <1>4, ConcatIs
  <2>2. QED
    BY ONLY <1>3, <1>4, <1>5, <2>1
<1>7. ASSUME NEW k \in 1 .. e PROVE u[k] = x[k]
  <2>1. CASE k <= c
    <3>1. k \in 1 .. c
      BY <2>1
    <3>2. QED
      BY <1>4, <1>6, <3>1
  <2>2. CASE ~(k <= c)
    <3>1. PICK j \in 1 .. l : j = k - c /\ c + j = k /\ a + j - 1 = k
      BY <1>2, <2>2
    <3>2. u[c + j] = t[j]
      BY <1>6, <3>1
    <3>3. QED
      BY <1>3, <3>1, <3>2
  <2>3. QED
    BY <2>1, <2>2
<1>8. QED
  BY <1>1, <1>2, <1>5, <1>6, <1>7 DEF Starts

\* The slices of the batches, joined, are the list.
LEMMA BatchesJoin ==
    ASSUME NEW lens, NEW n \in Nat, n = Len(lens), NEW bs, Follow(bs, lens, 1, n), NEW x,
           NEW ss, ss = [b \in DOMAIN bs |-> Slice(x, bs[b])]
    PROVE  Starts(FlattenSeq(ss), x, n)
<1>1. IsSeq(bs)
  BY DEF Follow
<1>2. PICK m \in Nat : m = Len(bs) /\ DOMAIN bs = 1 .. m
  BY <1>1, SeqIs
<1>3. IsSeq(ss) /\ Len(ss) = m
  BY <1>2, FunctionIsSeq
<1>4. CASE m = 0
  <2>1. FlattenSeq(ss) = ss
    BY <1>3, <1>4 DEF FlattenSeq
  <2>2. n = 0
    <3>1. ~(1 <= n)
      BY <1>2, <1>4 DEF Follow
    <3>2. QED
      BY <3>1
  <2>3. QED
    BY <1>3, <1>4, <2>1, <2>2 DEF Starts
<1>5. CASE m # 0
  <2>1. FlattenSeq(ss) = (CHOOSE f : Joined(ss, m, f))[m]
    BY <1>3, <1>5 DEF FlattenSeq, Joined
  <2>2. PICK f : Joined(ss, m, f) /\ FlattenSeq(ss) = f[m]
    BY <2>1, JoinedExists
  <2>3. \A i \in 1 .. m : f[i] = IF i = 1 THEN ss[i] ELSE f[i - 1] \o ss[i]
    BY <2>2 DEF Joined
  <2>4. ASSUME NEW b \in 1 .. m
        PROVE  bs[b][1] \in 1 .. n /\ bs[b][2] \in bs[b][1] .. n /\ ss[b] = Slice(x, bs[b])
    <3>1. PICK a, e : a = bs[b][1] /\ e = bs[b][2]
      OBVIOUS
    <3>2. a \in 1 .. n /\ e = BatchEnd(lens, a)
      BY <1>2, <3>1 DEF Follow
    <3>3. e \in a .. n
      BY <3>2, BatchEndIs
    <3>4. QED
      BY <1>2, <3>1, <3>2, <3>3
  <2> DEFINE Bad == {b \in 1 .. m : ~Starts(f[b], x, bs[b][2])}
  <2>5. Bad = {}
    <3>1. SUFFICES ASSUME Bad # {} PROVE FALSE
      OBVIOUS
    <3>2. PICK b \in Bad : \A k \in Bad : b <= k
      <4>1. Bad \in SUBSET Nat
        OBVIOUS
      <4> HIDE DEF Bad
      <4> QED BY <3>1, <4>1, LeastOf
    <3>3. b \in 1 .. m /\ ~Starts(f[b], x, bs[b][2])
      BY <3>2
    <3>4. PICK p, a, e : p = bs[b] /\ a = p[1] /\ e = p[2]
      OBVIOUS
    <3>5. a \in 1 .. n /\ e \in a .. n /\ ss[b] = Slice(x, p)
      BY <2>4, <3>3, <3>4
    <3>6. CASE b = 1
      <4>1. a = 1
        <5>1. 1 <= n
          BY <3>5
        <5>2. QED
          BY <3>4, <3>6, <5>1 DEF Follow
      <4>2. f[b] = Slice(x, p)
        BY <2>3, <3>3, <3>5, <3>6
      <4>4. e - a + 1 = e /\ (\A k \in 1 .. e : a + k - 1 = k) /\ e \in Nat /\ a \in Nat
        BY <3>5, <4>1
      <4>3. Reading(Slice(x, p), x, a, e)
        BY <3>4, <4>4, SliceIs
      <4>5. PICK t : t = f[b]
        OBVIOUS
      <4>6. IsSeq(t) /\ Len(t) = e /\ \A k \in 1 .. e : t[k] = x[k]
        BY <4>2, <4>3, <4>4, <4>5 DEF Reading
      <4>7. QED
        BY <3>3, <3>4, <4>5, <4>6 DEF Starts
    <3>7. CASE b # 1
      <4>1. PICK c \in Int : c = b - 1
        BY <3>3
      <4>2. c \in 1 .. m /\ ~(b <= c)
        BY <3>3, <3>7, <4>1
      <4>3. Starts(f[c], x, bs[c][2])
        BY <3>2, <4>2
      <4>4. a = bs[c][2] + 1 /\ bs[c][2] \in Nat
        <5>1. b \in DOMAIN bs \ {1}
          BY <1>2, <3>3, <3>7
        <5>2. bs[b][1] = bs[b - 1][2] + 1
          BY <5>1 DEF Follow
        <5>3. bs[c][1] \in 1 .. n /\ bs[c][2] \in bs[c][1] .. n
          BY <2>4, <4>2
        <5>4. QED
          BY <3>4, <4>1, <5>2, <5>3
      <4>5. bs[c][2] = a - 1
        BY <3>5, <4>4
      <4>6. f[b] = f[c] \o Slice(x, p)
        BY <2>3, <3>3, <3>5, <3>7, <4>1
      <4>7. PICK s : s = f[c]
        OBVIOUS
      <4>8. Starts(s, x, a - 1)
        BY ONLY <4>3, <4>5, <4>7
      <4>9. a \in Nat \ {0} /\ e \in Nat /\ a <= e
        BY <3>5
      <4>10. Starts(s \o Slice(x, p), x, e)
        BY ONLY <3>4, <4>8, <4>9, SliceJoins
      <4>11. QED
        BY ONLY <3>3, <3>4, <4>6, <4>7, <4>10
    <3>8. QED
      BY <3>6, <3>7
  <2>6. bs[m][2] = n
    <3>1. 1 \in 1 .. m
      BY <1>5
    <3>2. 1 <= n
      BY <2>4, <3>1
    <3>3. QED
      BY <1>2, <3>2 DEF Follow
  <2>7. m \in 1 .. m
    BY <1>5
  <2>8. m \notin Bad
    BY ONLY <2>5
  <2>9. QED
    BY <2>2, <2>6, <2>7, <2>8
<1>6. QED
  BY <1>4, <1>5

\* Rows by length, and back.
ByLength(lengths, N, o) ==
    /\ IsSeq(o) /\ Len(o) = N /\ DOMAIN o = 1 .. N /\ IsInjective(o)
    /\ \A i \in 1 .. N : o[i] \in 1 .. N /\ \E n \in 1 .. N : o[n] = i
    /\ \A i, j \in 1 .. N : i <= j => lengths[o[i]] <= lengths[o[j]]
Measured(lengths, N) == DOMAIN lengths = 1 .. N /\ \A i \in 1 .. N : lengths[i] \in Int

\* LengthOrder is a permutation that sorts by length.
LEMMA LengthOrderIs ==
    ASSUME NEW N \in Nat, NEW lengths, Measured(lengths, N), NEW o, o = LengthOrder(lengths)
    PROVE  ByLength(lengths, N, o)
<1> DEFINE f == Negated(lengths)
<1>1. PICK S : S = 1 .. N
  OBVIOUS
<1>2. DOMAIN lengths = S /\ \A i \in S : f[i] = -lengths[i] /\ lengths[i] \in Int
  BY <1>1 DEF Measured, Negated
<1>3. IsFiniteSet(S) /\ Cardinality(S) = N /\ S \subseteq Nat
  BY <1>1, FS_Interval
<1>4. Numbered(S, f)
  BY <1>2, <1>3 DEF Numbered
<1> HIDE DEF f
<1>5. PICK R : R = ByScore(S, f, Less)
  OBVIOUS
<1>6. Listing(S, R, o) /\ TotalOrder(S, R)
  BY <1>2, <1>4, <1>5, LengthsAreListed, ScoresAreTotal DEF f
<1>7. IsInjective(o) /\ IsSeq(o) /\ Len(o) = N /\ Range(o) = S
  BY <1>3, <1>6, ListingIsInjective DEF Listing
<1>8. DOMAIN o = 1 .. N
  BY <1>7, SeqIs
<1>9. \A i \in 1 .. N : o[i] \in 1 .. N /\ \E n \in 1 .. N : o[n] = i
  BY ONLY <1>1, <1>7, <1>8 DEF Range
<1>10. ASSUME NEW i \in 1 .. N, NEW j \in 1 .. N, i <= j PROVE lengths[o[i]] <= lengths[o[j]]
  <2>1. PICK x \in S, y \in S : x = o[i] /\ y = o[j]
    BY <1>1, <1>9
  <2>2. lengths[x] \in Int /\ lengths[y] \in Int /\ f[x] = -lengths[x] /\ f[y] = -lengths[y]
    BY <1>2
  <2>3. CASE i = j
    BY <2>1, <2>2, <2>3
  <2>4. CASE i # j
    <3>1. <<x, y>> \in R
      <4>1. i \in DOMAIN o /\ j \in DOMAIN o /\ i < j
        BY ONLY <1>8, <1>10, <2>4, i \in 1 .. N, j \in 1 .. N, N \in Nat
      <4>2. QED
        BY ONLY <1>6, <2>1, <4>1 DEF Listing
    <3>2. f[x] > f[y] \/ f[x] = f[y]
      BY <1>5, <3>1, ByScoreIs
    <3>3. QED
      BY ONLY <2>1, <2>2, <3>2
  <2>5. QED
    BY <2>3, <2>4
<1>11. QED
  BY <1>7, <1>8, <1>9, <1>10 DEF ByLength

\* Scores scattered back along the order of lengths are in the order of the pairs.
LEMMA ScatteredIs ==
    ASSUME NEW N \in Nat, NEW lengths, Measured(lengths, N), NEW o, o = LengthOrder(lengths),
           NEW g, NEW scored, \A n \in 1 .. N : scored[n] = g[o[n]]
    PROVE  Scattered(lengths, scored) = [i \in 1 .. N |-> g[i]]
<1>1. ByLength(lengths, N, o)
  BY LengthOrderIs
<1>2. DOMAIN lengths = 1 .. N
  BY DEF Measured
<1> DEFINE At(i) == CHOOSE n \in 1 .. N : o[n] = i
<1>3. Scattered(lengths, scored) = [i \in 1 .. N |-> scored[At(i)]]
  BY <1>2 DEF Scattered
<1>4. ASSUME NEW i \in 1 .. N PROVE scored[At(i)] = g[i]
  <2>1. PICK m : m = At(i)
    OBVIOUS
  <2>2. \E n \in 1 .. N : o[n] = i
    BY <1>1 DEF ByLength
  <2>3. m \in 1 .. N /\ o[m] = i
    BY ONLY <2>1, <2>2
  <2>4. QED
    BY <2>1, <2>3
<1> HIDE DEF At
<1>5. QED
  BY ONLY <1>3, <1>4

\* A product with a natural number is monotone.
LEMMA Times == ASSUME NEW c \in Nat, NEW x \in Int, NEW y \in Int, x <= y PROVE c * x <= c * y
OBVIOUS

\* A batch of more than one keeps to the limits of pairs and tokens.
LEMMA BatchIsWithin ==
    ASSUME NEW lens, NEW n \in Nat, n = Len(lens), \A i \in 1 .. n : lens[i] \in Int,
           \A i, j \in 1 .. n : i <= j => lens[i] <= lens[j],
           NEW a \in 1 .. n, NEW e, e = BatchEnd(lens, a), e # a
    PROVE  e - a < MAX_BATCH /\ \A i \in a .. e : (e - a + 1) * lens[i] <= TOKEN_BUDGET
<1>1. e \in a .. n /\ Fitting(lens, a, e)
  BY BatchEndIs
<1>2. e \in a .. e
  BY <1>1
<1>3. Fits(lens, a, e)
  BY <1>1, <1>2 DEF Fitting
<1>4. PICK c \in Nat : c = e - a + 1
  BY <1>1
<1>5. c <= MAX_BATCH /\ c * lens[e] <= TOKEN_BUDGET
  BY <1>3, <1>4 DEF Fits
<1>6. ASSUME NEW i \in a .. e PROVE c * lens[i] <= TOKEN_BUDGET
  <2>1. i \in 1 .. n /\ e \in 1 .. n /\ i <= e
    BY <1>1
  <2>2. PICK x \in Int, y \in Int : x = lens[i] /\ y = lens[e] /\ x <= y
    BY <2>1
  <2>3. c * x <= c * y
    BY <2>2, Times
  <2>4. c * x \in Int /\ c * y \in Int
    BY <2>2
  <2>5. QED
    BY <1>5, <2>2, <2>3, <2>4, DepthsAssumption
<1>7. e - a < MAX_BATCH
  BY <1>1, <1>4, <1>5, DepthsAssumption
<1>8. QED
  BY <1>4, <1>6, <1>7

\* Encoding by length and scattering back keeps the order of what was given.
LEMMA EncodingKeepsOrder ==
    ASSUME NEW N \in Nat, NEW lengths, Measured(lengths, N)
    PROVE  EncodedInOrder(lengths)
<1>1. PICK o : o = LengthOrder(lengths)
  OBVIOUS
<1>2. ByLength(lengths, N, o)
  BY <1>1, LengthOrderIs
<1>3. PICK lens : lens = [n \in DOMAIN o |-> lengths[o[n]]]
  OBVIOUS
<1>4. DOMAIN o = 1 .. N /\ lens = [n \in 1 .. N |-> lens[n]] /\ \A n \in 1 .. N : lens[n] = lengths[o[n]]
  BY <1>2, <1>3 DEF ByLength
<1>5. Len(lens) = N
  BY <1>4, FunctionIsSeq
<1>6. \A i \in 1 .. N : lens[i] \in Int
  BY <1>2, <1>4 DEF ByLength, Measured
<1>7. \A i, j \in 1 .. N : i <= j => lens[i] <= lens[j]
  <2>1. \A i, j \in 1 .. N : i <= j => lengths[o[i]] <= lengths[o[j]]
    BY <1>2 DEF ByLength
  <2>2. \A i \in 1 .. N : lens[i] = lengths[o[i]]
    BY <1>4
  <2>3. QED
    BY ONLY <2>1, <2>2
<1>8. PICK bs : bs = Batches(lens)
  OBVIOUS
<1>9. Follow(bs, lens, 1, N)
  BY <1>5, <1>8, BatchesFollow
<1>10. ASSUME NEW p \in Range(bs)
       PROVE  p[1] = p[2] \/ (p[2] - p[1] < MAX_BATCH
                              /\ \A i \in p[1] .. p[2] : (p[2] - p[1] + 1) * lens[i] <= TOKEN_BUDGET)
  <2>1. PICK b \in DOMAIN bs : p = bs[b]
    BY DEF Range
  <2>2. PICK a, e : a = p[1] /\ e = p[2]
    OBVIOUS
  <2>3. a \in 1 .. N /\ e = BatchEnd(lens, a)
    BY <1>9, <2>1, <2>2 DEF Follow
  <2>4. a # e => e - a < MAX_BATCH /\ \A i \in a .. e : (e - a + 1) * lens[i] <= TOKEN_BUDGET
    BY <1>5, <1>6, <1>7, <2>3, BatchIsWithin
  <2>5. QED
    BY ONLY <2>2, <2>4
<1>11. PICK rows : rows = [i \in DOMAIN lengths |-> i]
  OBVIOUS
<1>12. PICK x : x = [n \in 1 .. N |-> rows[o[n]]]
  OBVIOUS
<1>13. encode(lengths, rows) = [i \in DOMAIN lengths |-> i]
  <2> DEFINE given == [b \in DOMAIN bs |-> [n \in 1 .. bs[b][2] - bs[b][1] + 1 |-> rows[o[bs[b][1] + n - 1]]]]
  <2>1. encode(lengths, rows) = Scattered(lengths, FlattenSeq(given))
    BY Zenon, <1>1, <1>3, <1>8 DEF encode
  <2>2. ASSUME NEW b \in DOMAIN bs
        PROVE  [n \in 1 .. bs[b][2] - bs[b][1] + 1 |-> rows[o[bs[b][1] + n - 1]]] = Slice(x, bs[b])
    <3>1. PICK p, a, e : p = bs[b] /\ a = p[1] /\ e = p[2]
      OBVIOUS
    <3>2. a \in 1 .. N /\ e = BatchEnd(lens, a)
      BY <1>9, <3>1 DEF Follow
    <3>3. e \in a .. N
      BY <1>5, <3>2, BatchEndIs
    <3>4. \A n \in 1 .. e - a + 1 : a + n - 1 \in 1 .. N
      BY <3>2, <3>3
    <3>5. \A n \in 1 .. e - a + 1 : x[a + n - 1] = rows[o[a + n - 1]]
      BY <1>12, <3>4
    <3>6. [n \in 1 .. e - a + 1 |-> rows[o[a + n - 1]]] = [n \in 1 .. e - a + 1 |-> x[a + n - 1]]
      BY ONLY <3>5
    <3>7. QED
      BY ONLY <3>1, <3>6 DEF Slice
  <2>3. given = [b \in DOMAIN bs |-> Slice(x, bs[b])]
    BY <2>2
  <2>4. PICK whole : whole = FlattenSeq(given)
    OBVIOUS
  <2> HIDE DEF given
  <2>5. Starts(whole, x, N)
    BY <1>5, <1>9, <2>3, <2>4, BatchesJoin
  <2>6. \A n \in 1 .. N : whole[n] = rows[o[n]]
    BY <1>12, <2>5 DEF Starts
  <2>7. Scattered(lengths, whole) = [i \in 1 .. N |-> rows[i]]
    BY <1>1, <2>6, ScatteredIs
  <2>8. [i \in 1 .. N |-> rows[i]] = [i \in DOMAIN lengths |-> i]
    BY <1>11 DEF Measured
  <2>9. QED
    BY ONLY <2>1, <2>4, <2>7, <2>8
<1>14. QED
  BY Zenon, <1>1, <1>3, <1>8, <1>10, <1>11, <1>13 DEF EncodedInOrder

-----------------------------------------------------------------------------
(* Rescoring: every candidate gets the score that the model gives it. *)

\* The candidates of each query, one after another.
Candidates(cands) ==
    IsFiniteSet(DOMAIN cands) /\ DOMAIN cands \subseteq Nat /\ \A q \in DOMAIN cands : IsSeq(cands[q])
PairsIn(pairs, cands) ==
    IsSeq(pairs) /\ \A p : p \in Range(pairs) <=> \E q \in DOMAIN cands : \E d \in Range(cands[q]) : p = <<q, d>>

\* The pairs of the candidates, query by query, are the candidates.
LEMMA CandidatesPaired ==
    ASSUME NEW cands, Candidates(cands), NEW pairs, pairs = Pairs(cands)
    PROVE  PairsIn(pairs, cands)
<1>1. PICK D, o : D = DOMAIN cands /\ o = InOrder(D)
  OBVIOUS
<1>2. IsFiniteSet(D) /\ D \subseteq Nat
  BY <1>1 DEF Candidates
<1>3. PICK m \in Nat : m = Cardinality(D)
  BY <1>2, FS_CardinalityType
<1>4. IsSeq(o) /\ Len(o) = m /\ Range(o) = D
  BY <1>1, <1>2, <1>3, Increasing DEF InOrder
<1>5. DOMAIN o = 1 .. m
  BY <1>4, SeqIs
<1> DEFINE ss == [n \in 1 .. Cardinality(DOMAIN cands) |-> [i \in DOMAIN cands[o[n]] |-> <<o[n], cands[o[n]][i]>>]]
<1>6. pairs = FlattenSeq(ss)
  BY Zenon, <1>1 DEF Pairs, InOrder
<1>7. ss = [n \in 1 .. m |-> [i \in DOMAIN cands[o[n]] |-> <<o[n], cands[o[n]][i]>>]]
  BY <1>1, <1>3
<1> HIDE DEF ss
<1>8. IsSeq(ss) /\ DOMAIN ss = 1 .. m
  BY <1>7, FunctionIsSeq
<1>9. ASSUME NEW n \in 1 .. m
      PROVE  IsSeq(ss[n]) /\ \A p : p \in Range(ss[n]) <=> \E d \in Range(cands[o[n]]) : p = <<o[n], d>>
  <2>1. PICK q \in D : q = o[n]
    BY <1>4, <1>5 DEF Range
  <2>2. PICK c : c = cands[q] /\ IsSeq(c)
    BY <1>1 DEF Candidates
  <2>3. PICK l \in Nat : DOMAIN c = 1 .. l
    BY <2>2, SeqIs
  <2>4. PICK s : s = ss[n] /\ s = [i \in 1 .. l |-> <<q, c[i]>>]
    BY <1>7, <2>1, <2>2, <2>3
  <2>5. IsSeq(s)
    BY <2>4, FunctionIsSeq
  <2>6. \A p : p \in Range(s) <=> \E d \in Range(c) : p = <<q, d>>
    BY ONLY <2>3, <2>4 DEF Range
  <2>7. QED
    BY <2>1, <2>2, <2>4, <2>5, <2>6
<1>10. IsSeq(pairs) /\ Range(pairs) = UNION {Range(ss[n]) : n \in 1 .. m}
  BY <1>6, <1>8, <1>9, FlattenIs
<1>11. ASSUME NEW p PROVE p \in Range(pairs) <=> \E q \in D : \E d \in Range(cands[q]) : p = <<q, d>>
  <2>1. p \in Range(pairs) <=> \E n \in 1 .. m : p \in Range(ss[n])
    BY <1>10
  <2>2. p \in Range(pairs) <=> \E n \in 1 .. m : \E d \in Range(cands[o[n]]) : p = <<o[n], d>>
    BY <1>9, <2>1
  <2>3. (\E n \in 1 .. m : \E d \in Range(cands[o[n]]) : p = <<o[n], d>>) => \E q \in D : \E d \in Range(cands[q]) : p = <<q, d>>
    BY ONLY <1>4, <1>5 DEF Range
  <2>4. ASSUME NEW q \in D, NEW d \in Range(cands[q]), p = <<q, d>>
        PROVE  \E n \in 1 .. m : \E e \in Range(cands[o[n]]) : p = <<o[n], e>>
    <3>1. PICK n \in 1 .. m : q = o[n]
      BY ONLY <1>4, <1>5, q \in D DEF Range
    <3>2. QED
      BY <2>4, <3>1
  <2>5. QED
    BY <2>2, <2>3, <2>4
<1>12. \A p : p \in Range(pairs) <=> \E q \in DOMAIN cands : \E d \in Range(cands[q]) : p = <<q, d>>
  BY ONLY <1>1, <1>11
<1>13. QED
  BY ONLY <1>10, <1>12 DEF PairsIn

\* Scoring pairs in batches by length gives each its model's score.
LEMMA ScoresOfPairs ==
    ASSUME NEW pairs, IsSeq(pairs), NEW length, \A p \in Range(pairs) : length[p] \in Int, NEW model
    PROVE  scored_pairs(pairs, length, model) = [i \in DOMAIN pairs |-> model[pairs[i]]]
<1>1. PICK N \in Nat : DOMAIN pairs = 1 .. N
  BY SeqIs
<1>2. PICK lengths : lengths = [i \in DOMAIN pairs |-> length[pairs[i]]]
  OBVIOUS
<1>3. Measured(lengths, N)
  BY <1>1, <1>2 DEF Measured, Range
<1>4. PICK o : o = LengthOrder(lengths)
  OBVIOUS
<1>5. PICK scored : scored = [n \in DOMAIN pairs |-> model[pairs[o[n]]]]
  OBVIOUS
<1>6. scored_pairs(pairs, length, model) = Scattered(lengths, scored)
  BY Zenon, <1>2, <1>4, <1>5 DEF scored_pairs
<1>7. PICK g : g = [i \in 1 .. N |-> model[pairs[i]]]
  OBVIOUS
<1>8. ByLength(lengths, N, o)
  BY <1>3, <1>4, LengthOrderIs
<1>9. \A n \in 1 .. N : scored[n] = g[o[n]]
  BY <1>1, <1>5, <1>7, <1>8 DEF ByLength
<1>10. Scattered(lengths, scored) = [i \in 1 .. N |-> g[i]]
  BY <1>3, <1>4, <1>9, ScatteredIs
<1>11. [i \in 1 .. N |-> g[i]] = [i \in DOMAIN pairs |-> model[pairs[i]]]
  BY <1>1, <1>7
<1>12. QED
  BY ONLY <1>6, <1>10, <1>11

\* The run of what was rescored.
Rescored(cands, model) == [q \in DOMAIN cands |-> [d \in Range(cands[q]) |-> model[<<q, d>>]]]
HasLengths(cands, length) == \A q \in DOMAIN cands : \A d \in Range(cands[q]) : length[<<q, d>>] \in Int
AsRun(cands, pairs, scores) ==
    [q \in DOMAIN cands |-> [d \in Range(cands[q]) |-> scores[CHOOSE i \in DOMAIN pairs : pairs[i] = <<q, d>>]]]

\* The same for all pairs of the candidates.
LEMMA PairsAreScored ==
    ASSUME NEW cands, Candidates(cands), NEW length, HasLengths(cands, length), NEW model,
           NEW pairs, pairs = Pairs(cands), NEW scores, scores = scored_pairs(pairs, length, model)
    PROVE  /\ scores = [i \in DOMAIN pairs |-> model[pairs[i]]]
           /\ AsRun(cands, pairs, scores) = Rescored(cands, model)
<1>1. IsSeq(pairs) /\ \A p : p \in Range(pairs) <=> \E q \in DOMAIN cands : \E d \in Range(cands[q]) : p = <<q, d>>
  <2>1. PairsIn(pairs, cands)
    BY CandidatesPaired
  <2>2. QED
    BY ONLY <2>1 DEF PairsIn
<1>2. \A p \in Range(pairs) : length[p] \in Int
  BY <1>1 DEF HasLengths
<1>3. scores = [i \in DOMAIN pairs |-> model[pairs[i]]]
  BY <1>1, <1>2, ScoresOfPairs
<1>4. ASSUME NEW q \in DOMAIN cands, NEW d \in Range(cands[q])
      PROVE  scores[CHOOSE i \in DOMAIN pairs : pairs[i] = <<q, d>>] = model[<<q, d>>]
  <2>1. PICK p : p = <<q, d>>
    OBVIOUS
  <2>2. p \in Range(pairs)
    BY <1>1, <2>1
  <2>3. PICK n : n = CHOOSE i \in DOMAIN pairs : pairs[i] = p
    OBVIOUS
  <2>4. n \in DOMAIN pairs /\ pairs[n] = p
    BY ONLY <2>2, <2>3 DEF Range
  <2>5. QED
    BY ONLY <1>3, <2>1, <2>3, <2>4
<1>5. QED
  BY <1>3, <1>4 DEF Rescored, AsRun

\* Reranking gives each candidate its model's score.
LEMMA RerankIs ==
    ASSUME NEW firstStage, NEW depth, NEW cands, cands = [q \in DOMAIN firstStage |-> load_candidates(firstStage[q], depth)],
           Candidates(cands), NEW length, HasLengths(cands, length), NEW model
    PROVE  rerank(firstStage, depth, length, model) = Rescored(cands, model)
<1> DEFINE c == [q \in DOMAIN firstStage |-> load_candidates(firstStage[q], depth)]
           pairs == Pairs(c)
           scores == scored_pairs(pairs, length, model)
<1>1. rerank(firstStage, depth, length, model) = AsRun(c, pairs, scores)
  BY Zenon DEF rerank, AsRun
<1>2. c = cands
  OBVIOUS
<1> HIDE DEF c
<1>3. pairs = Pairs(cands) /\ scores = scored_pairs(pairs, length, model)
  BY <1>2
<1> HIDE DEF pairs, scores
<1>4. AsRun(cands, pairs, scores) = Rescored(cands, model)
  BY <1>3, PairsAreScored
<1>5. QED
  BY ONLY <1>1, <1>2, <1>4

\* The queries of the validation, by their id strings.
InStringOrder(S) == Ordered(S, StringBelow)
Earlier == {p \in Nat \X Nat : StringBelow(p[1], p[2])}

\* InStringOrder lists numbers as decimal strings.
LEMMA StringsAreListed ==
    ASSUME NEW P, IsFiniteSet(P), P \subseteq Nat
    PROVE  Listing(P, Earlier, InStringOrder(P))
<1> DEFINE placed == {<<Cardinality({y \in P : StringBelow(y, x)}), x>> : x \in P}
           s == [i \in 1 .. Cardinality(P) |-> (CHOOSE p \in placed : p[1] = i - 1)[2]]
<1>1. InStringOrder(P) = <<>> \o s
  BY Zenon DEF InStringOrder, Ordered
<1>2. Reads(placed, Cardinality(P), s)
  BY Zenon DEF Reads
<1>3. TotalOrder(P, After) /\ \A x, y \in P : <<x, y>> \in After <=> StringBelow(y, x)
  BY AfterIsTotal
<1>4. \A x, y \in P : <<x, y>> \in Earlier <=> StringBelow(x, y)
  BY DEF Earlier
<1>5. TotalOrder(P, Earlier)
  <2>1. \A x, y \in P : <<x, y>> \in Earlier <=> <<y, x>> \in After
    BY ONLY <1>3, <1>4
  <2>2. QED
    BY ONLY <1>3, <2>1 DEF TotalOrder
<1>6. ASSUME NEW x \in P PROVE Ranked(P, Earlier)[x] = Cardinality({y \in P : StringBelow(y, x)})
  <2>1. Before(P, Earlier, x) = {y \in P : StringBelow(y, x)}
    BY <1>4 DEF Before
  <2>2. QED
    BY <2>1 DEF Ranked, RankBy
<1>7. placed = WithPlaces(P, Ranked(P, Earlier))
  BY <1>6 DEF WithPlaces
<1> HIDE DEF placed, s
<1>8. QED
  BY <1>1, <1>2, <1>5, <1>7, OrderedIs

\* A validation set of some of the queries, with the first of their hits.
Validating(val, hits, qrels, depth) ==
    \E Q \in SUBSET DOMAIN hits : /\ val.qrels = [q \in Q |-> qrels[q]]
                                  /\ val.cands = [q \in Q |-> Top(hits[q], depth)]

\* The validation set holds some of the mined queries, with the first of their hits.
LEMMA ValIs ==
    ASSUME NEW hits, Candidates(hits), NEW qrels, NEW n \in Nat, NEW depth,
           NEW val, val = build_val(DOMAIN hits, qrels, hits, n, depth)
    PROVE  Validating(val, hits, qrels, depth)
<1>0. IsFiniteSet(DOMAIN hits) /\ DOMAIN hits \subseteq Nat
  BY DEF Candidates
<1>1. PICK P : P = DOMAIN hits \cap DOMAIN qrels
  OBVIOUS
<1>2. P \in SUBSET DOMAIN hits /\ P \subseteq Nat /\ IsFiniteSet(P)
  <2>1. P \in SUBSET DOMAIN hits
    BY <1>1
  <2>2. QED
    BY <1>0, <2>1, FS_Subset
<1>3. PICK o : o = InStringOrder(P)
  OBVIOUS
<1>4. IsSeq(o) /\ Range(o) = P
  BY <1>2, <1>3, StringsAreListed DEF Listing
<1>5. PICK Q : Q = Range(Top(o, n))
  OBVIOUS
<1>6. Q \subseteq P
  <2>1. PICK l : l = IF n <= Len(o) THEN n ELSE Len(o)
    OBVIOUS
  <2>2. Begins(Top(o, n), o, l)
    BY <1>4, <2>1, TopBegins
  <2>3. PICK t : t = Top(o, n) /\ Begins(t, o, l)
    BY <2>2
  <2>4. DOMAIN t = 1 .. l /\ l \in Nat /\ l <= Len(o) /\ \A i \in 1 .. l : t[i] = o[i]
    BY <2>3 DEF Begins
  <2>5. PICK k \in Nat : k = Len(o) /\ DOMAIN o = 1 .. k
    BY <1>4, SeqIs
  <2>6. \A i \in DOMAIN t : i \in DOMAIN o /\ t[i] = o[i]
    BY <2>4, <2>5
  <2>7. QED
    BY ONLY <1>4, <1>5, <2>3, <2>6 DEF Range
<1>7. val = [qrels |-> [q \in Q |-> qrels[q]], cands |-> [q \in Q \cap DOMAIN hits |-> Top(hits[q], depth)]]
  BY Zenon, <1>1, <1>3, <1>5 DEF build_val, InStringOrder
<1>8. Q \cap DOMAIN hits = Q /\ Q \in SUBSET DOMAIN hits
  BY <1>2, <1>6
<1>9. val.qrels = [q \in Q |-> qrels[q]] /\ val.cands = [q \in Q |-> Top(hits[q], depth)]
  BY <1>7, <1>8
<1>10. QED
  BY ONLY <1>8, <1>9 DEF Validating

\* A run put together from the pairs of a query.
ByQuery(cands, pairs, scores) ==
    [q \in DOMAIN cands |->
        [d \in {pairs[i][2] : i \in {j \in DOMAIN pairs : pairs[j][1] = q}} |->
            scores[CHOOSE i \in {j \in DOMAIN pairs : pairs[j][1] = q} : pairs[i][2] = d]]]

\* Validating is evaluating the candidates by their scores.
LEMMA ValidationIs ==
    ASSUME NEW val, Candidates(val.cands), NEW length, HasLengths(val.cands, length), NEW m
    PROVE  validate(val, length, length, m) = evaluate(Rescored(val.cands, length), val.qrels, m)
<1> DEFINE pairs == Pairs(val.cands)
           scores == scored_pairs(pairs, length, length)
<1>1. validate(val, length, length, m) = evaluate(ByQuery(val.cands, pairs, scores), val.qrels, m)
  BY Zenon DEF validate, ByQuery
<1> HIDE DEF pairs, scores
<1>2. PICK cands : cands = val.cands
  OBVIOUS
<1>3. PairsIn(pairs, cands)
  BY <1>2, CandidatesPaired DEF pairs
<1>4. scores = [i \in DOMAIN pairs |-> length[pairs[i]]]
  <2>1. pairs = Pairs(cands) /\ scores = scored_pairs(pairs, length, length)
    BY <1>2 DEF pairs, scores
  <2>2. Candidates(cands) /\ HasLengths(cands, length)
    BY <1>2
  <2>3. QED
    BY ONLY <2>1, <2>2, PairsAreScored
<1>5. \A i \in DOMAIN pairs : \E q \in DOMAIN cands : \E d \in Range(cands[q]) : pairs[i] = <<q, d>>
  BY ONLY <1>3 DEF PairsIn, Range
<1>6. ASSUME NEW q \in DOMAIN cands, NEW I, I = {j \in DOMAIN pairs : pairs[j][1] = q}
      PROVE  /\ {pairs[i][2] : i \in I} = Range(cands[q])
             /\ \A d \in Range(cands[q]) : scores[CHOOSE i \in I : pairs[i][2] = d] = length[<<q, d>>]
  <2>1. ASSUME NEW i \in I PROVE pairs[i] = <<q, pairs[i][2]>> /\ pairs[i][2] \in Range(cands[q])
    <3>1. PICK r \in DOMAIN cands : \E d \in Range(cands[r]) : pairs[i] = <<r, d>>
      BY <1>5, <1>6
    <3>2. PICK d \in Range(cands[r]) : pairs[i] = <<r, d>>
      BY <3>1
    <3>3. r = q
      BY <1>6, <3>2
    <3>4. QED
      BY <3>2, <3>3
  <2>2. ASSUME NEW d \in Range(cands[q]) PROVE \E i \in I : pairs[i][2] = d
    <3>0. PICK p : p = <<q, d>>
      OBVIOUS
    <3>1. p = <<q, d>> /\ p[1] = q /\ p[2] = d
      BY <3>0
    <3>2. p \in Range(pairs)
      BY ONLY <1>3, <3>1, q \in DOMAIN cands, d \in Range(cands[q]) DEF PairsIn
    <3>3. PICK i \in DOMAIN pairs : pairs[i] = p
      BY <3>2 DEF Range
    <3>4. QED
      BY <1>6, <3>1, <3>3
  <2>3. ASSUME NEW d \in Range(cands[q]) PROVE scores[CHOOSE i \in I : pairs[i][2] = d] = length[<<q, d>>]
    <3>1. PICK n : n = CHOOSE i \in I : pairs[i][2] = d
      OBVIOUS
    <3>2. n \in I /\ pairs[n][2] = d
      BY ONLY <2>2, <2>3, <3>1
    <3>3. n \in DOMAIN pairs /\ pairs[n] = <<q, d>>
      BY <1>6, <2>1, <3>2
    <3>4. QED
      BY ONLY <1>4, <3>1, <3>3
  <2>4. QED
    BY <2>1, <2>2, <2>3
<1>7. ByQuery(cands, pairs, scores) = Rescored(cands, length)
  <2>1. ASSUME NEW q \in DOMAIN cands
        PROVE  [d \in {pairs[i][2] : i \in {j \in DOMAIN pairs : pairs[j][1] = q}} |->
                   scores[CHOOSE i \in {j \in DOMAIN pairs : pairs[j][1] = q} : pairs[i][2] = d]]
                 = [d \in Range(cands[q]) |-> length[<<q, d>>]]
    <3>1. PICK I : I = {j \in DOMAIN pairs : pairs[j][1] = q}
      OBVIOUS
    <3>2. {pairs[i][2] : i \in I} = Range(cands[q])
      BY <1>6, <3>1
    <3>3. \A d \in Range(cands[q]) : scores[CHOOSE i \in I : pairs[i][2] = d] = length[<<q, d>>]
      BY <1>6, <3>1
    <3>4. [d \in {pairs[i][2] : i \in I} |-> scores[CHOOSE i \in I : pairs[i][2] = d]]
             = [d \in Range(cands[q]) |-> length[<<q, d>>]]
      BY ONLY <3>2, <3>3
    <3>5. QED
      BY ONLY <3>1, <3>4
  <2>2. QED
    BY ONLY <2>1 DEF ByQuery, Rescored
<1>8. QED
  BY ONLY <1>1, <1>2, <1>7

\* What training is stopped by is what the evaluation would measure.
LEMMA ValidationIsEvaluation ==
    ASSUME NEW hits, Candidates(hits), NEW qrels, NEW n \in Nat, NEW depth \in Nat, NEW length, HasLengths(hits, length)
    PROVE  ValidatedAsEvaluated(hits, qrels, n, depth, length)
<1>1. PICK val, m : val = build_val(DOMAIN hits, qrels, hits, n, depth) /\ m = Metric("RR", depth, 1)
  OBVIOUS
<1>2. PICK Q \in SUBSET DOMAIN hits : /\ val.qrels = [q \in Q |-> qrels[q]]
                                      /\ val.cands = [q \in Q |-> Top(hits[q], depth)]
  <2>1. Validating(val, hits, qrels, depth)
    BY <1>1, ValIs
  <2>2. QED
    BY ONLY <2>1 DEF Validating
<1>3. PICK cands : cands = val.cands /\ DOMAIN cands = Q /\ \A q \in Q : cands[q] = Top(hits[q], depth)
  BY <1>2
<1>4. ASSUME NEW q \in Q PROVE IsSeq(cands[q]) /\ Range(cands[q]) \subseteq Range(hits[q])
  <2>1. PICK s : s = hits[q] /\ IsSeq(s)
    BY DEF Candidates
  <2>2. PICK t : t = Top(s, depth)
    OBVIOUS
  <2>3. /\ IsSeq(t) /\ Len(t) \in Nat /\ Len(t) <= depth /\ Len(t) <= Len(s)
        /\ \A i \in 1 .. Len(t) : t[i] = s[i]
    BY <2>1, <2>2, TopIs
  <2>4. DOMAIN t = 1 .. Len(t) /\ DOMAIN s = 1 .. Len(s) /\ Len(s) \in Nat
    BY <2>1, <2>3, SeqIs
  <2>5. PICK a \in Nat, b \in Nat : a = Len(t) /\ b = Len(s) /\ a <= b
    BY <2>3, <2>4
  <2>6. \A i \in DOMAIN t : i \in DOMAIN s /\ t[i] = s[i]
    BY ONLY <2>3, <2>4, <2>5
  <2>7. Range(t) \subseteq Range(s)
    BY ONLY <2>6 DEF Range
  <2>8. QED
    BY <1>3, <2>1, <2>2, <2>3, <2>7
<1>5. Candidates(cands) /\ HasLengths(cands, length)
  <2>1. Q \subseteq Nat /\ IsFiniteSet(Q)
    BY FS_Subset DEF Candidates
  <2>2. QED
    BY <1>3, <1>4, <2>1 DEF Candidates, HasLengths
<1>6. validate(val, length, length, m) = evaluate(Rescored(cands, length), val.qrels, m)
  BY <1>3, <1>5, ValidationIs
<1>7. Rescored(cands, length) = [q \in DOMAIN val.qrels |-> [d \in Range(Top(hits[q], depth)) |-> length[<<q, d>>]]]
  BY <1>2, <1>3 DEF Rescored
<1>8. QED
  BY Zenon, <1>1, <1>6, <1>7 DEF ValidatedAsEvaluated

-----------------------------------------------------------------------------
(* What the metrics tell apart. *)
LEMMA TopAsIs ==
    ASSUME NEW s, IsSeq(s), NEW k \in Nat
    PROVE  /\ IsSeq(Top(s, k)) /\ DOMAIN Top(s, k) = 1 .. Len(Top(s, k)) /\ Len(Top(s, k)) \in Nat
           /\ Len(Top(s, k)) <= Len(s) /\ Len(s) \in Nat
           /\ \A i \in 1 .. Len(Top(s, k)) : i \in DOMAIN s /\ Top(s, k)[i] = s[i]
<1>1. PICK t : t = Top(s, k)
  OBVIOUS
<1>2. PICK n : n = IF k <= Len(s) THEN k ELSE Len(s)
  OBVIOUS
<1>3. Begins(t, s, n)
  BY <1>1, <1>2, TopBegins
<1>4. IsSeq(t) /\ Len(t) = n /\ DOMAIN t = 1 .. n /\ n \in Nat /\ n <= Len(s) /\ \A i \in 1 .. n : t[i] = s[i]
  BY <1>3 DEF Begins
<1>5. Len(s) \in Nat /\ DOMAIN s = 1 .. Len(s)
  BY SeqIs
<1>6. \A i \in 1 .. n : i \in DOMAIN s
  BY <1>4, <1>5
<1>7. QED
  BY ONLY <1>1, <1>4, <1>5, <1>6

\* nDCG sees the first k, in their order.
LEMMA NdcgOfTop ==
    ASSUME NEW r, IsSeq(r), NEW s, IsSeq(s), NEW k \in Nat, Top(r, k) = Top(s, k), NEW qrel
    PROVE  ndcg_at_k(r, qrel, k) = ndcg_at_k(s, qrel, k)
<1> DEFINE G(l) == [i \in 1 .. Len(Top(l, k)) |-> Grade(qrel, l[i])]
           ideal == LET judged == Ordered(DOMAIN qrel, LAMBDA d, e : Ahead(qrel[d], qrel[e], d < e))
                    IN  [i \in 1 .. Len(Top(judged, k)) |-> qrel[judged[i]]]
<1>1. /\ ndcg_at_k(r, qrel, k) = IF DCG(ideal) = 0 THEN 0 ELSE (Unit * DCG(G(r))) \div DCG(ideal)
      /\ ndcg_at_k(s, qrel, k) = IF DCG(ideal) = 0 THEN 0 ELSE (Unit * DCG(G(s))) \div DCG(ideal)
  BY Zenon DEF ndcg_at_k
<1> HIDE DEF ideal
<1>2. PICK t : t = Top(r, k) /\ t = Top(s, k)
  OBVIOUS
<1>3. \A i \in 1 .. Len(t) : t[i] = r[i] /\ t[i] = s[i]
  <2>1. \A i \in 1 .. Len(Top(r, k)) : Top(r, k)[i] = r[i]
    BY TopAsIs
  <2>2. \A i \in 1 .. Len(Top(s, k)) : Top(s, k)[i] = s[i]
    BY TopAsIs
  <2>3. QED
    BY ONLY <1>2, <2>1, <2>2
<1>4. G(r) = G(s)
  <2>1. G(r) = [i \in 1 .. Len(t) |-> Grade(qrel, t[i])]
    BY ONLY <1>2, <1>3
  <2>2. G(s) = [i \in 1 .. Len(t) |-> Grade(qrel, t[i])]
    BY ONLY <1>2, <1>3
  <2>3. QED
    BY <2>1, <2>2
<1> HIDE DEF G
<1>5. QED
  BY ONLY <1>1, <1>4

\* Recall sees which they are.
LEMMA RecallOfTop ==
    ASSUME NEW r, IsSeq(r), IsInjective(r), NEW s, IsSeq(s), IsInjective(s), NEW k \in Nat,
           Range(Top(r, k)) = Range(Top(s, k)), NEW qrel, NEW rel
    PROVE  recall_at_k(r, qrel, k, rel) = recall_at_k(s, qrel, k, rel)
<1> DEFINE found == {d \in Range(Top(r, k)) : Grade(qrel, d) >= rel}
<1>1. ASSUME NEW l, IsSeq(l), IsInjective(l), Range(Top(l, k)) = Range(Top(r, k))
      PROVE  Cardinality(Hits(l, qrel, k, rel)) = Cardinality(found)
  <2>1. PICK t : t = Top(l, k)
    OBVIOUS
  <2>2. /\ IsSeq(t) /\ DOMAIN t = 1 .. Len(t) /\ Len(t) \in Nat
        /\ \A i \in 1 .. Len(t) : i \in DOMAIN l /\ t[i] = l[i]
    BY ONLY <1>1, <2>1, k \in Nat, TopAsIs
  <2>3. PICK I : I = {i \in DOMAIN t : Grade(qrel, t[i]) >= rel}
    OBVIOUS
  <2>4. Hits(l, qrel, k, rel) = I
    <3>1. Hits(l, qrel, k, rel) = {i \in 1 .. Len(t) : Grade(qrel, l[i]) >= rel}
      BY ONLY <2>1 DEF Hits
    <3>2. QED
      BY ONLY <2>2, <2>3, <3>1
  <2>5. found = {t[i] : i \in I}
    <3>1. Range(t) = Range(Top(r, k))
      BY <1>1, <2>1
    <3>2. QED
      BY ONLY <2>3, <3>1 DEF Range
  <2>6. IsInjective(t)
    BY ONLY <1>1, <2>2 DEF IsInjective
  <2>7. IsFiniteSet(DOMAIN t) /\ I \subseteq DOMAIN t
    <3>1. PICK n \in Nat : n = Len(t)
      BY <2>2
    <3>2. IsFiniteSet(1 .. n)
      BY FS_Interval
    <3>3. QED
      BY <2>2, <2>3, <3>1, <3>2
  <2> HIDE DEF found
  <2>8. QED
    BY <2>4, <2>5, <2>6, <2>7, CountedOnce
<1>2. Cardinality(Hits(r, qrel, k, rel)) = Cardinality(found) /\ Cardinality(Hits(s, qrel, k, rel)) = Cardinality(found)
  BY <1>1
<1> HIDE DEF found
<1>3. QED
  BY ONLY <1>2 DEF recall_at_k

-----------------------------------------------------------------------------
\* A run that has its documents in this order is ranked in it.
LEMMA RankedAs ==
    ASSUME NEW g, NEW c, IsSeq(c), IsInjective(c), Range(c) = DOMAIN g, Numbered(DOMAIN g, g),
           \A i, j \in DOMAIN c : i < j => g[c[i]] > g[c[j]] \/ (g[c[i]] = g[c[j]] /\ StringBelow(c[j], c[i]))
    PROVE  rank_run(g) = c
<1>1. PICK S, R : S = DOMAIN g /\ R = ByScore(S, g, After)
  OBVIOUS
<1>2. TotalOrder(S, R) /\ Listing(S, R, rank_run(g))
  BY <1>1, ScoresAreTotal, RunIsRanked
<1>3. S \subseteq Nat
  BY <1>1 DEF Numbered
<1>4. ASSUME NEW i \in DOMAIN c, NEW j \in DOMAIN c, i < j PROVE <<c[i], c[j]>> \in R
  <2>1. PICK x \in S, y \in S : x = c[i] /\ y = c[j]
    BY <1>1 DEF Range
  <2>2. g[x] > g[y] \/ (g[x] = g[y] /\ StringBelow(y, x))
    BY <1>4, <2>1
  <2>3. StringBelow(y, x) <=> <<x, y>> \in After
    BY <1>3, AfterIsTotal
  <2>4. QED
    BY <1>1, <2>1, <2>2, <2>3, ByScoreIs
<1>5. Len(c) = Cardinality(S)
  BY <1>1, NoRepetitions
<1>6. Listing(S, R, c)
  BY <1>1, <1>4, <1>5 DEF Listing
<1>7. QED
  BY <1>2, <1>6, OneListing

\* The candidates of a run: the first of its ranking.
Cut(f, k, c) ==
    /\ IsSeq(c) /\ IsInjective(c) /\ Len(c) <= k /\ Range(c) \subseteq DOMAIN f
    /\ \A i, j \in DOMAIN c : i < j => f[c[i]] > f[c[j]] \/ (f[c[i]] = f[c[j]] /\ StringBelow(c[j], c[i]))

\* The candidates of a query are the first of its ranking.
LEMMA CandidatesAre ==
    ASSUME NEW f, Numbered(DOMAIN f, f), NEW k \in Nat, NEW c, c = load_candidates(f, k)
    PROVE  /\ Cut(f, k, c) /\ c = Top(rank_run(f), k)
           /\ IsSeq(rank_run(f)) /\ IsInjective(rank_run(f))
<1>1. PICK S, R, s : S = DOMAIN f /\ R = ByScore(S, f, After) /\ s = rank_run(f)
  OBVIOUS
<1>2. TotalOrder(S, R) /\ Listing(S, R, s)
  BY <1>1, ScoresAreTotal, RunIsRanked
<1>3. IsSeq(s) /\ IsInjective(s)
  BY <1>2, ListingIsInjective DEF Listing
<1>4. c = Top(s, k)
  BY <1>1 DEF load_candidates
<1>5. Best(S, R, c)
  BY <1>2, <1>4, TopIsBest
<1>6. IsSeq(c) /\ Len(c) <= k
  BY <1>3, <1>4, TopIs
<1>7. IsInjective(c) /\ Range(c) \subseteq S
  BY <1>5 DEF Best
<1>8. ASSUME NEW i \in DOMAIN c, NEW j \in DOMAIN c, i < j
      PROVE  f[c[i]] > f[c[j]] \/ (f[c[i]] = f[c[j]] /\ StringBelow(c[j], c[i]))
  <2>1. <<c[i], c[j]>> \in R
    BY <1>5, <1>8 DEF Best, Listing
  <2>2. PICK x \in S, y \in S : x = c[i] /\ y = c[j]
    BY <1>7 DEF Range
  <2>3. f[x] > f[y] \/ (f[x] = f[y] /\ <<x, y>> \in After)
    BY <1>1, <2>1, <2>2, ByScoreIs
  <2>4. S \subseteq Nat
    BY <1>1 DEF Numbered
  <2>5. StringBelow(y, x) <=> <<x, y>> \in After
    BY <2>4, AfterIsTotal
  <2>6. QED
    BY ONLY <2>2, <2>3, <2>5
<1>9. Cut(f, k, c)
  BY ONLY <1>1, <1>6, <1>7, <1>8 DEF Cut
<1>10. QED
  BY ONLY <1>1, <1>3, <1>4, <1>9

-----------------------------------------------------------------------------
(* Reranking to a depth finds what the first stage finds to that depth. *)
Stage(f) == IsFiniteSet(DOMAIN f) /\ DOMAIN f \subseteq Nat /\ \A q \in DOMAIN f : Numbered(DOMAIN f[q], f[q])
HasScores(f, m) == \A q \in DOMAIN f : \A d \in DOMAIN f[q] : <<q, d>> \in DOMAIN m /\ m[<<q, d>>] \in Int

\* The two metrics of the comparison.
LEMMA MetricIs ==
    ASSUME NEW k, NEW r, NEW qrel
    PROVE  /\ metric_value(Metric("nDCG", k, 1), r, qrel) = ndcg_at_k(r, qrel, k)
           /\ metric_value(Metric("R", k, 1), r, qrel) = recall_at_k(r, qrel, k, 1)
<1>1. PICK m : m = Metric("nDCG", k, 1)
  OBVIOUS
<1>2. m.kind = "nDCG" /\ m.k = k
  BY <1>1 DEF Metric
<1>3. metric_value(m, r, qrel) = ndcg_at_k(r, qrel, k)
  BY <1>2 DEF metric_value
<1>4. PICK p : p = Metric("R", k, 1)
  OBVIOUS
<1>5. p.kind = "R" /\ p.k = k /\ p.rel = 1
  BY <1>4 DEF Metric
<1>6. metric_value(p, r, qrel) = recall_at_k(r, qrel, k, 1)
  BY <1>5 DEF metric_value
<1>7. QED
  BY <1>1, <1>3, <1>4, <1>6

\* Runs that measure alike query by query measure alike.
LEMMA SameValues ==
    ASSUME NEW a, NEW b, DOMAIN a = DOMAIN b, NEW qrels, NEW m,
           \A q \in DOMAIN a : \A qrel : metric_value(m, rank_run(a[q]), qrel) = metric_value(m, rank_run(b[q]), qrel)
    PROVE  evaluate(a, qrels, m) = evaluate(b, qrels, m)
<1>1. ASSUME NEW q \in DOMAIN qrels
      PROVE  metric_value(m, rank_run(IF q \in DOMAIN a THEN a[q] ELSE Empty), qrels[q])
               = metric_value(m, rank_run(IF q \in DOMAIN b THEN b[q] ELSE Empty), qrels[q])
  <2>1. CASE q \in DOMAIN a
    <3>1. PICK qrel, x, y : qrel = qrels[q] /\ x = a[q] /\ y = b[q]
      OBVIOUS
    <3>2. metric_value(m, rank_run(x), qrel) = metric_value(m, rank_run(y), qrel)
      BY <2>1, <3>1
    <3>3. (IF q \in DOMAIN a THEN a[q] ELSE Empty) = x /\ (IF q \in DOMAIN b THEN b[q] ELSE Empty) = y
      BY <2>1, <3>1
    <3>4. QED
      BY ONLY <3>1, <3>2, <3>3
  <2>2. CASE q \notin DOMAIN a
    <3>1. (IF q \in DOMAIN a THEN a[q] ELSE Empty) = Empty /\ (IF q \in DOMAIN b THEN b[q] ELSE Empty) = Empty
      BY <2>2
    <3>2. QED
      BY ONLY <3>1
  <2>3. QED
    BY <2>1, <2>2
<1>2. QED
  BY <1>1 DEF evaluate

\* The candidates of a first stage, and their measure.
LEMMA StageIsCut ==
    ASSUME NEW f, Stage(f), NEW depth \in Nat,
           NEW cands, cands = [q \in DOMAIN f |-> load_candidates(f[q], depth)],
           NEW m, HasScores(f, m)
    PROVE  /\ Candidates(cands) /\ HasLengths(cands, m)
           /\ \A q \in DOMAIN f : Cut(f[q], depth, cands[q])
<1>1. ASSUME NEW q \in DOMAIN f PROVE Cut(f[q], depth, cands[q])
  <2>1. PICK g, c : g = f[q] /\ c = load_candidates(g, depth)
    OBVIOUS
  <2>2. Numbered(DOMAIN g, g)
    BY <2>1 DEF Stage
  <2>3. Cut(g, depth, c)
    BY <2>1, <2>2, CandidatesAre
  <2>4. QED
    BY ONLY <2>1, <2>3, cands = [r \in DOMAIN f |-> load_candidates(f[r], depth)], q \in DOMAIN f
<1>2. DOMAIN cands = DOMAIN f
  OBVIOUS
<1>3. \A q \in DOMAIN f : IsSeq(cands[q]) /\ Range(cands[q]) \subseteq DOMAIN f[q]
  BY ONLY <1>1 DEF Cut
<1>4. QED
  BY ONLY <1>1, <1>2, <1>3, Stage(f), HasScores(f, m) DEF Candidates, HasLengths, Stage, HasScores

\* The first stage's own scores rank the candidates as the first stage does.
LEMMA OwnScores ==
    ASSUME NEW f, Numbered(DOMAIN f, f), NEW k \in Nat, NEW c, c = load_candidates(f, k),
           NEW g, DOMAIN g = Range(c), \A d \in Range(c) : g[d] = f[d]
    PROVE  rank_run(g) = c
<1>1. Cut(f, k, c)
  BY CandidatesAre
<1>2. IsSeq(c) /\ IsInjective(c) /\ Range(c) = DOMAIN g /\ Range(c) \subseteq DOMAIN f
  BY <1>1 DEF Cut
<1>3. Numbered(DOMAIN g, g)
  <2>1. DOMAIN g \in SUBSET DOMAIN f /\ IsFiniteSet(DOMAIN f)
    BY <1>2 DEF Numbered
  <2>2. IsFiniteSet(DOMAIN g)
    BY <2>1, FS_Subset
  <2>3. QED
    BY <1>2, <2>2 DEF Numbered
<1>4. ASSUME NEW i \in DOMAIN c, NEW j \in DOMAIN c, i < j
      PROVE  g[c[i]] > g[c[j]] \/ (g[c[i]] = g[c[j]] /\ StringBelow(c[j], c[i]))
  <2>1. c[i] \in Range(c) /\ c[j] \in Range(c)
    BY DEF Range
  <2>2. g[c[i]] = f[c[i]] /\ g[c[j]] = f[c[j]]
    BY <2>1
  <2>3. f[c[i]] > f[c[j]] \/ (f[c[i]] = f[c[j]] /\ StringBelow(c[j], c[i]))
    BY ONLY <1>1, <1>4 DEF Cut
  <2>4. QED
    BY ONLY <2>2, <2>3
<1>5. QED
  BY ONLY <1>2, <1>3, <1>4, RankedAs

\* A ranking of all of a list that is no longer than k.
LEMMA WholeIsTop ==
    ASSUME NEW s, IsSeq(s), NEW k \in Nat, Len(s) <= k PROVE Top(s, k) = s
<1>1. PICK t, n : t = Top(s, k) /\ n = (IF k <= Len(s) THEN k ELSE Len(s))
  OBVIOUS
<1>2. Begins(t, s, n)
  BY <1>1, TopBegins
<1>3. Len(s) \in Nat /\ DOMAIN s = 1 .. Len(s) /\ s = [i \in 1 .. Len(s) |-> s[i]]
  BY SeqIs
<1>4. n = Len(s)
  BY <1>1, <1>3
<1>5. IsSeq(t) /\ Len(t) = n /\ \A i \in 1 .. n : t[i] = s[i]
  BY <1>2 DEF Begins
<1>6. t = [i \in 1 .. Len(t) |-> t[i]]
  BY <1>5, SeqIs
<1>7. QED
  BY ONLY <1>1, <1>3, <1>4, <1>5, <1>6

\* Cutting twice at a depth is cutting once.
LEMMA TopOfTop ==
    ASSUME NEW s, IsSeq(s), NEW k \in Nat, NEW t, t = Top(s, k) PROVE IsSeq(t) /\ Top(t, k) = t
<1>1. IsSeq(t) /\ Len(t) <= k
  BY TopIs
<1>2. QED
  BY <1>1, WholeIsTop

\* Reranked and first-stage lists are judged on the same candidates.
LEMMA RerankingCompares ==
    ASSUME NEW f, Stage(f), NEW qrels, NEW depth \in Nat, NEW length, HasScores(f, length)
    PROVE  RerankIsComparable(f, qrels, depth, length)
<1>1. PICK cands : cands = [q \in DOMAIN f |-> load_candidates(f[q], depth)]
  OBVIOUS
<1>2. Candidates(cands) /\ HasLengths(cands, length) /\ \A q \in DOMAIN f : Cut(f[q], depth, cands[q])
  BY <1>1, StageIsCut
<1>3. PICK first : first = [p \in DOMAIN length |-> f[p[1]][p[2]]]
  OBVIOUS
<1>4. PICK same, other : same = rerank(f, depth, length, first) /\ other = rerank(f, depth, length, length)
  OBVIOUS
<1>5. same = Rescored(cands, first) /\ other = Rescored(cands, length)
  BY <1>1, <1>2, <1>4, RerankIs
<1>6. ASSUME NEW q \in DOMAIN f, NEW c, c = cands[q], NEW s, s = rank_run(f[q])
      PROVE  /\ IsSeq(s) /\ IsInjective(s) /\ IsSeq(c) /\ IsInjective(c) /\ c = Top(s, depth)
             /\ rank_run(same[q]) = c
             /\ Listing(Range(c), ByScore(Range(c), other[q], After), rank_run(other[q]))
             /\ TotalOrder(Range(c), ByScore(Range(c), other[q], After))
  <2>1. PICK g : g = f[q] /\ Numbered(DOMAIN g, g)
    BY DEF Stage
  <2>2. c = load_candidates(g, depth)
    BY <1>1, <1>6, <2>1
  <2>3. Cut(g, depth, c) /\ c = Top(s, depth) /\ IsSeq(s) /\ IsInjective(s)
    BY <1>6, <2>1, <2>2, CandidatesAre
  <2>4. IsSeq(c) /\ IsInjective(c) /\ Range(c) \subseteq DOMAIN g
    BY <2>3 DEF Cut
  <2>5. PICK x, y : x = same[q] /\ y = other[q]
    OBVIOUS
  <2>6. x = [d \in Range(c) |-> first[<<q, d>>]] /\ y = [d \in Range(c) |-> length[<<q, d>>]]
    BY <1>1, <1>5, <1>6, <2>5 DEF Rescored
  <2>7. ASSUME NEW d \in Range(c) PROVE first[<<q, d>>] = g[d] /\ length[<<q, d>>] \in Int
    <3>1. PICK p : p = <<q, d>>
      OBVIOUS
    <3>2. p \in DOMAIN length /\ length[p] \in Int
      BY <2>1, <2>4, <3>1 DEF HasScores
    <3>3. first[p] = f[p[1]][p[2]]
      BY ONLY <1>3, <3>2
    <3>4. p[1] = q /\ p[2] = d
      BY <3>1
    <3>5. QED
      BY ONLY <2>1, <3>1, <3>2, <3>3, <3>4
  <2>8. rank_run(x) = c
    <3>1. DOMAIN x = Range(c) /\ \A d \in Range(c) : x[d] = g[d]
      BY ONLY <2>6, <2>7
    <3>2. QED
      BY <2>1, <2>2, <3>1, OwnScores
  <2>9. Numbered(Range(c), y)
    <3>1. Range(c) \in SUBSET DOMAIN g /\ IsFiniteSet(DOMAIN g) /\ DOMAIN g \subseteq Nat
      BY <2>1, <2>4 DEF Numbered
    <3>2. IsFiniteSet(Range(c))
      BY <3>1, FS_Subset
    <3>3. QED
      BY <2>6, <2>7, <3>1, <3>2 DEF Numbered
  <2>10. DOMAIN y = Range(c)
    BY <2>6
  <2>11. /\ Listing(Range(c), ByScore(Range(c), y, After), rank_run(y))
         /\ TotalOrder(Range(c), ByScore(Range(c), y, After))
    BY <2>9, <2>10, RunIsRanked, ScoresAreTotal
  <2>12. QED
    BY <2>3, <2>4, <2>5, <2>8, <2>11
<1>7. DOMAIN same = DOMAIN f /\ DOMAIN other = DOMAIN f
  BY <1>1, <1>5 DEF Rescored
<1>8. evaluate(same, qrels, Metric("nDCG", depth, 1)) = evaluate(f, qrels, Metric("nDCG", depth, 1))
  <2>1. PICK m : m = Metric("nDCG", depth, 1)
    OBVIOUS
  <2>2. ASSUME NEW q \in DOMAIN f, NEW qrel
        PROVE  metric_value(m, rank_run(same[q]), qrel) = metric_value(m, rank_run(f[q]), qrel)
    <3>1. PICK c, s : c = cands[q] /\ s = rank_run(f[q])
      OBVIOUS
    <3>2. IsSeq(s) /\ IsSeq(c) /\ c = Top(s, depth) /\ rank_run(same[q]) = c
      BY <1>6, <3>1
    <3>3. Top(c, depth) = Top(s, depth)
      BY <3>2, TopOfTop
    <3>4. ndcg_at_k(c, qrel, depth) = ndcg_at_k(s, qrel, depth)
      BY <3>2, <3>3, NdcgOfTop
    <3>5. metric_value(m, c, qrel) = ndcg_at_k(c, qrel, depth) /\ metric_value(m, s, qrel) = ndcg_at_k(s, qrel, depth)
      BY <2>1, MetricIs
    <3>6. QED
      BY ONLY <3>1, <3>2, <3>4, <3>5
  <2>3. QED
    BY <1>7, <2>1, <2>2, SameValues
<1>9. evaluate(other, qrels, Metric("R", depth, 1)) = evaluate(f, qrels, Metric("R", depth, 1))
  <2>1. PICK m : m = Metric("R", depth, 1)
    OBVIOUS
  <2>2. ASSUME NEW q \in DOMAIN f, NEW qrel
        PROVE  metric_value(m, rank_run(other[q]), qrel) = metric_value(m, rank_run(f[q]), qrel)
    <3>1. PICK c, s, r : c = cands[q] /\ s = rank_run(f[q]) /\ r = rank_run(other[q])
      OBVIOUS
    <3>2. PICK U, R : U = Range(c) /\ R = ByScore(Range(c), other[q], After)
      OBVIOUS
    <3>3. IsSeq(s) /\ IsInjective(s) /\ IsSeq(c) /\ IsInjective(c) /\ c = Top(s, depth)
      BY <1>6, <3>1
    <3>4. Listing(U, R, r) /\ TotalOrder(U, R)
      BY <1>6, <3>1, <3>2
    <3>5. IsSeq(r) /\ IsInjective(r) /\ Range(r) = U /\ Len(r) = Cardinality(U)
      BY <3>4, ListingIsInjective DEF Listing
    <3>6. Cardinality(U) = Len(c) /\ Len(c) <= depth
      BY <3>2, <3>3, NoRepetitions, TopIs
    <3>7. Top(r, depth) = r
      BY <3>5, <3>6, WholeIsTop
    <3>8. Range(Top(r, depth)) = Range(Top(s, depth))
      BY <3>2, <3>3, <3>5, <3>7
    <3>9. recall_at_k(r, qrel, depth, 1) = recall_at_k(s, qrel, depth, 1)
      BY <3>3, <3>5, <3>8, RecallOfTop
    <3>10. metric_value(m, r, qrel) = recall_at_k(r, qrel, depth, 1) /\ metric_value(m, s, qrel) = recall_at_k(s, qrel, depth, 1)
      BY <2>1, MetricIs
    <3>11. QED
      BY ONLY <3>1, <3>9, <3>10
  <2>3. QED
    BY <1>7, <2>1, <2>2, SameValues
<1>10. QED
  BY Zenon, <1>3, <1>4, <1>8, <1>9 DEF RerankIsComparable

-----------------------------------------------------------------------------
(* The cascade: the head by the model, the others below it. *)
HeadOf(q, list, model, P) == Ordered(P, LAMBDA i, j : Ahead(model[<<q, list[i]>>], model[<<q, list[j]>>], i < j))

\* The cascade sorts the head of its list by the second model's scores.
LEMMA HeadIsListed ==
    ASSUME NEW q, NEW list, NEW model, NEW P, NEW sc, Numbered(P, sc), \A i \in P : sc[i] = model[<<q, list[i]>>]
    PROVE  Listing(P, ByScore(P, sc, Less), HeadOf(q, list, model, P))
<1> DEFINE placed == {<<Cardinality({y \in P : Ahead(model[<<q, list[y]>>], model[<<q, list[x]>>], y < x)}), x>> : x \in P}
           s == [i \in 1 .. Cardinality(P) |-> (CHOOSE p \in placed : p[1] = i - 1)[2]]
<1>1. HeadOf(q, list, model, P) = <<>> \o s
  BY Zenon DEF HeadOf, Ordered
<1>2. Reads(placed, Cardinality(P), s)
  BY Zenon DEF Reads
<1>3. placed = {<<Cardinality({y \in P : Ahead(sc[y], sc[x], y < x)}), x>> : x \in P}
  OBVIOUS
<1> HIDE DEF s, placed
<1>4. QED
  BY <1>1, <1>2, <1>3, SortLists

FinalOf(list, k, head) == [i \in DOMAIN head |-> list[head[i]]] \o SubSeq(list, k + 1, Len(list))
Positioned(list, final) == [d \in Range(list) |-> Len(list) - RankIn(final, d)]

\* The cascade, query by query.
LEMMA CascadeIs ==
    ASSUME NEW cands, NEW k, NEW model
    PROVE  CascadeRun(cands, k, model)
             = [q \in DOMAIN cands |->
                   Positioned(cands[q], FinalOf(cands[q], k, HeadOf(q, cands[q], model, DOMAIN Top(cands[q], k))))]
BY Zenon DEF CascadeRun, Positioned, FinalOf, HeadOf

\* The places of the first t are exchanged, the others stay.
Exchanges(h, t) ==
    /\ DOMAIN h = 1 .. t /\ \A i \in 1 .. t : h[i] \in 1 .. t /\ \E j \in 1 .. t : h[j] = i
    /\ \A i, j \in 1 .. t : h[i] = h[j] => i = j
Reordered(final, list, h, t) ==
    /\ IsSeq(final) /\ Len(final) = Len(list)
    /\ \A i \in 1 .. t : final[i] = list[h[i]]
    /\ \A i \in 1 .. Len(list) : i > t => final[i] = list[i]
Rests(rest, list, n, t) == IsSeq(rest) /\ Len(rest) = n - t /\ \A i \in 1 .. n - t : rest[i] = list[t + i]

\* What follows the head.
LEMMA RestIs ==
    ASSUME NEW list, IsSeq(list), NEW n \in Nat, n = Len(list), NEW k \in Nat, NEW t \in Nat, t = IF k <= n THEN k ELSE n,
           NEW rest, rest = SubSeq(list, k + 1, n)
    PROVE  Rests(rest, list, n, t)
<1>1. list \in Seq(Range(list)) /\ DOMAIN list = 1 .. n
  <2>1. list \in Seq(Range(list))
    BY DEF IsSeq
  <2>2. QED
    BY <2>1, SeqIs
<1>2. CASE k < n
  <2>1. t = k
    BY <1>2
  <2>2. \A i \in k + 1 .. n : list[i] \in Range(list)
    BY <1>1 DEF Range
  <2>3. k + 1 \in 1 .. n + 1 /\ n \in k .. n
    BY <1>2
  <2>4. /\ rest \in Seq(Range(list)) /\ Len(rest) = n - k
        /\ rest = [i \in 1 .. n - k |-> list[k + i]]
    <3>1. rest = [i \in 1 .. (n - (k + 1) + 1) |-> list[i + (k + 1) - 1]]
      BY <1>2 DEF SubSeq
    <3>2. n - (k + 1) + 1 = n - k /\ \A i \in 1 .. n - k : i + (k + 1) - 1 = k + i /\ n - k \in Nat
      BY <1>2
    <3>3. PICK m \in Nat : m = n - k
      BY ONLY n \in Nat, k \in Nat, <1>2
    <3>4. rest = [i \in 1 .. m |-> list[k + i]]
      BY ONLY <3>1, <3>2, <3>3
    <3>5. Len(rest) = m
      BY <3>4, FunctionIsSeq
    <3>6. \A i \in 1 .. m : list[k + i] \in Range(list)
      BY <1>1, <3>3 DEF Range
    <3>7. rest \in Seq(Range(list))
      BY ONLY <3>4, <3>6, IsSequence, m \in Nat
    <3>8. QED
      BY ONLY <3>3, <3>4, <3>5, <3>7
  <2>5. PICK m \in Nat : m = n - k
    BY ONLY n \in Nat, k \in Nat, <1>2
  <2>6. IsSeq(rest) /\ Len(rest) = m
    BY <2>4, <2>5, FunctionIsSeq
  <2>7. QED
    BY <2>1, <2>4, <2>5, <2>6 DEF Rests
<1>3. CASE ~(k < n)
  <2>1. t = n /\ n - t = 0
    BY <1>3
  <2>2. rest = <<>>
    BY <1>3 DEF SubSeq
  <2>3. IsSeq(rest) /\ Len(rest) = 0
    BY <2>2, EmptySequences DEF IsSeq
  <2>4. \A i \in 1 .. n - t : FALSE
    BY ONLY <2>1
  <2>5. QED
    BY ONLY <2>1, <2>3, <2>4 DEF Rests
<1>4. QED
  BY <1>2, <1>3

\* The cascade's list permutes its head and leaves the rest.
LEMMA FinalIs ==
    ASSUME NEW list, IsSeq(list), NEW n \in Nat, n = Len(list), NEW k \in Nat, NEW t \in Nat, t = IF k <= n THEN k ELSE n,
           NEW h, Exchanges(h, t), NEW final, final = FinalOf(list, k, h)
    PROVE  Reordered(final, list, h, t)
<1>1. PICK front, rest : front = [i \in DOMAIN h |-> list[h[i]]] /\ rest = SubSeq(list, k + 1, n)
  OBVIOUS
<1>2. final = front \o rest
  BY <1>1 DEF FinalOf
<1>3. front = [i \in 1 .. t |-> list[h[i]]]
  BY <1>1 DEF Exchanges
<1>4. IsSeq(front) /\ Len(front) = t
  BY <1>3, FunctionIsSeq
<1>5. PICK m \in Nat : m = n - t /\ t + m = n
  OBVIOUS
<1>6. IsSeq(rest) /\ Len(rest) = m /\ \A i \in 1 .. m : rest[i] = list[t + i]
  <2>1. Rests(rest, list, n, t)
    BY <1>1, RestIs
  <2>2. QED
    BY ONLY <1>5, <2>1 DEF Rests
<1>7. /\ IsSeq(final) /\ Len(final) = t + m
      /\ \A i \in 1 .. t : final[i] = front[i]
      /\ \A i \in 1 .. m : final[t + i] = rest[i]
  <2>1. /\ IsSeq(front \o rest) /\ Len(front \o rest) = Len(front) + Len(rest)
        /\ \A i \in 1 .. Len(front) : (front \o rest)[i] = front[i]
        /\ \A i \in 1 .. Len(rest) : (front \o rest)[Len(front) + i] = rest[i]
    BY ONLY <1>4, <1>6, ConcatIs
  <2>2. QED
    BY ONLY <1>2, <1>4, <1>6, <2>1
<1>8. \A i \in 1 .. t : final[i] = list[h[i]]
  BY ONLY <1>3, <1>7
<1>9. ASSUME NEW i \in 1 .. n, i > t PROVE final[i] = list[i]
  <2>1. PICK j \in 1 .. m : j = i - t /\ t + j = i
    BY ONLY n \in Nat, t \in Nat, i \in 1 .. n, <1>5, <1>9
  <2>2. QED
    BY ONLY <1>6, <1>7, <2>1
<1>10. QED
  BY ONLY <1>5, <1>7, <1>8, <1>9, n = Len(list) DEF Reordered

SameDocuments(final, list, t) ==
    /\ IsSeq(final) /\ IsInjective(final) /\ Len(final) = Len(list) /\ Range(final) = Range(list)
    /\ {final[i] : i \in 1 .. t} = {list[i] : i \in 1 .. t}

\* What was reordered is the same documents, and so are the first t.
LEMMA ReorderedIs ==
    ASSUME NEW list, IsSeq(list), IsInjective(list), NEW n \in Nat, n = Len(list), NEW t \in 0 .. n,
           NEW h, Exchanges(h, t), NEW final, Reordered(final, list, h, t)
    PROVE  SameDocuments(final, list, t)
<1>1. DOMAIN list = 1 .. n
  BY SeqIs
<1>2. IsSeq(final) /\ Len(final) = n
  BY DEF Reordered
<1>3. DOMAIN final = 1 .. n
  BY <1>2, SeqIs
<1>4. PICK p : p = [i \in 1 .. n |-> IF i <= t THEN h[i] ELSE i]
  OBVIOUS
<1>5. \A i \in 1 .. t : i \in 1 .. n /\ i <= t /\ p[i] = h[i] /\ h[i] \in 1 .. t
  BY <1>4 DEF Exchanges
<1>6. \A i \in 1 .. n : ~(i <= t) => p[i] = i
  BY <1>4
<1>7. \A i \in 1 .. n : i <= t \/ i > t
  OBVIOUS
<1>8. \A i \in 1 .. n : i <= t => i \in 1 .. t
  OBVIOUS
<1>9. \A i \in 1 .. n : p[i] \in 1 .. n /\ final[i] = list[p[i]]
  <2>1. TAKE i \in 1 .. n
  <2>2. CASE i <= t
    <3>1. i \in 1 .. t
      BY <1>8, <2>2
    <3>2. final[i] = list[h[i]]
      BY <3>1 DEF Reordered
    <3>3. QED
      BY <1>5, <3>1, <3>2
  <2>3. CASE ~(i <= t)
    <3>1. final[i] = list[i]
      BY <2>3 DEF Reordered
    <3>2. QED
      BY <1>6, <2>3, <3>1
  <2>4. QED
    BY <2>2, <2>3
<1>10. \A j \in 1 .. n : \E i \in 1 .. n : p[i] = j
  <2>1. TAKE j \in 1 .. n
  <2>2. CASE j <= t
    <3>1. PICK i \in 1 .. t : h[i] = j
      BY <1>8, <2>2 DEF Exchanges
    <3>2. QED
      BY <1>5, <3>1
  <2>3. CASE ~(j <= t)
    BY <1>6, <2>3
  <2>4. QED
    BY <2>2, <2>3
<1>11. ASSUME NEW i \in 1 .. n, NEW j \in 1 .. n, p[i] = p[j] PROVE i = j
  <2>1. CASE i <= t /\ j <= t
    BY <1>5, <1>8, <1>11, <2>1 DEF Exchanges
  <2>2. CASE i <= t /\ ~(j <= t)
    <3>1. p[i] \in 1 .. t /\ p[j] = j
      BY <1>5, <1>6, <1>8, <2>2
    <3>2. QED
      BY <1>11, <2>2, <3>1
  <2>3. CASE ~(i <= t) /\ j <= t
    <3>1. p[j] \in 1 .. t /\ p[i] = i
      BY <1>5, <1>6, <1>8, <2>3
    <3>2. QED
      BY <1>11, <2>3, <3>1
  <2>4. CASE ~(i <= t) /\ ~(j <= t)
    BY <1>6, <1>11, <2>4
  <2>5. QED
    BY <2>1, <2>2, <2>3, <2>4
<1>12. IsInjective(final)
  <2>1. SUFFICES ASSUME NEW i \in 1 .. n, NEW j \in 1 .. n, final[i] = final[j] PROVE i = j
    BY <1>3 DEF IsInjective
  <2>2. p[i] \in DOMAIN list /\ p[j] \in DOMAIN list /\ list[p[i]] = list[p[j]]
    BY <1>1, <1>9, <2>1
  <2>3. p[i] = p[j]
    BY <2>2 DEF IsInjective
  <2>4. QED
    BY <1>11, <2>3
<1>13. Range(final) = Range(list)
  <2>1. ASSUME NEW d \in Range(final) PROVE d \in Range(list)
    <3>1. PICK i \in 1 .. n : d = final[i]
      BY <1>3 DEF Range
    <3>2. p[i] \in DOMAIN list /\ d = list[p[i]]
      BY <1>1, <1>9, <3>1
    <3>3. QED
      BY ONLY <3>2 DEF Range
  <2>2. ASSUME NEW d \in Range(list) PROVE d \in Range(final)
    <3>1. PICK j \in 1 .. n : d = list[j]
      BY <1>1 DEF Range
    <3>2. PICK i \in 1 .. n : p[i] = j
      BY <1>10
    <3>3. i \in DOMAIN final /\ d = final[i]
      BY <1>3, <1>9, <3>1, <3>2
    <3>4. QED
      BY ONLY <3>3 DEF Range
  <2>3. QED
    BY <2>1, <2>2
<1>14. {final[i] : i \in 1 .. t} = {list[i] : i \in 1 .. t}
  <2>1. \A i \in 1 .. t : final[i] = list[h[i]]
    BY DEF Reordered
  <2>2. ASSUME NEW i \in 1 .. t PROVE final[i] \in {list[j] : j \in 1 .. t}
    <3>1. h[i] \in 1 .. t
      BY DEF Exchanges
    <3>2. QED
      BY ONLY <2>1, <3>1, i \in 1 .. t
  <2>3. ASSUME NEW j \in 1 .. t PROVE list[j] \in {final[i] : i \in 1 .. t}
    <3>1. PICK i \in 1 .. t : h[i] = j
      BY DEF Exchanges
    <3>2. QED
      BY ONLY <2>1, <3>1
  <2>4. QED
    BY ONLY <2>2, <2>3
<1>15. QED
  BY ONLY <1>2, <1>12, <1>13, <1>14, n = Len(list) DEF SameDocuments

\* Positions as scores rank a list as it is.
LEMMA PositionsRank ==
    ASSUME NEW list, NEW final, IsSeq(final), IsInjective(final), Range(final) = Range(list), Len(list) = Len(final),
           Range(list) \subseteq Nat, NEW g, g = Positioned(list, final)
    PROVE  rank_run(g) = final
<1>1. PICK n \in Nat : n = Len(final) /\ DOMAIN final = 1 .. n
  BY SeqIs
<1>2. DOMAIN g = Range(final) /\ \A d \in Range(final) : g[d] = n - RankIn(final, d)
  BY <1>1 DEF Positioned
<1>3. ASSUME NEW i \in 1 .. n PROVE RankIn(final, final[i]) = i /\ final[i] \in Range(final)
  <2>1. PICK d : d = final[i]
    OBVIOUS
  <2>2. d \in Range(final)
    BY <1>1, <2>1 DEF Range
  <2>3. PICK m : m = CHOOSE j \in DOMAIN final : final[j] = d
    OBVIOUS
  <2>4. m \in DOMAIN final /\ final[m] = d
    BY ONLY <1>1, <2>1, <2>3, i \in 1 .. n
  <2>5. m = i
    BY <1>1, <2>1, <2>4 DEF IsInjective
  <2>6. RankIn(final, d) = m
    BY ONLY <2>2, <2>3 DEF RankIn
  <2>7. QED
    BY ONLY <2>1, <2>2, <2>5, <2>6
<1>4. \A i \in 1 .. n : g[final[i]] = n - i
  BY <1>2, <1>3
<1>5. \A d \in DOMAIN g : g[d] \in Int
  <2>1. TAKE d \in DOMAIN g
  <2>2. PICK i \in 1 .. n : d = final[i]
    BY <1>1, <1>2 DEF Range
  <2>3. QED
    BY <1>4, <2>2
<1>6. Numbered(DOMAIN g, g)
  <2>1. IsFiniteSet(Range(final))
    BY RangeIsFinite
  <2>2. QED
    BY <1>2, <1>5, <2>1 DEF Numbered
<1>7. \A i, j \in DOMAIN final : i < j => g[final[i]] > g[final[j]]
  BY ONLY <1>1, <1>4
<1>8. QED
  BY <1>2, <1>6, <1>7, RankedAs

-----------------------------------------------------------------------------
\* What the cascade makes of a query's candidates.
Cascaded(c, t, final, h, sc) ==
    /\ IsSeq(final) /\ IsInjective(final) /\ Len(final) = Len(c) /\ Range(final) = Range(c)
    /\ Reordered(final, c, h, t) /\ Exchanges(h, t)
    /\ {final[i] : i \in 1 .. t} = {c[i] : i \in 1 .. t}
    /\ Listing(1 .. t, ByScore(1 .. t, sc, Less), h)

\* The cascade's scores bring its list back in its order.
LEMMA CascadeRanks ==
    ASSUME NEW q, NEW c, IsSeq(c), IsInjective(c), Range(c) \subseteq Nat, NEW model, \A d \in Range(c) : model[<<q, d>>] \in Int,
           NEW k \in Nat, NEW n \in Nat, n = Len(c), NEW t \in 0 .. n, t = IF k <= n THEN k ELSE n,
           NEW h, h = HeadOf(q, c, model, DOMAIN Top(c, k)), NEW final, final = FinalOf(c, k, h),
           NEW sc, sc = [i \in 1 .. t |-> model[<<q, c[i]>>]], NEW g, g = Positioned(c, final)
    PROVE  Cascaded(c, t, final, h, sc) /\ rank_run(g) = final
<1>1. PICK P : P = 1 .. t
  OBVIOUS
<1>2. DOMAIN Top(c, k) = P
  <2>1. Begins(Top(c, k), c, t)
    BY TopBegins
  <2>2. QED
    BY <1>1, <2>1 DEF Begins
<1>3. h = HeadOf(q, c, model, P)
  BY <1>2
<1>4. DOMAIN c = 1 .. n /\ t \in Nat
  BY SeqIs
<1>5. \A i \in P : c[i] \in Range(c)
  BY <1>1, <1>4 DEF Range
<1>6. Numbered(P, sc)
  <2>1. IsFiniteSet(P) /\ P \subseteq Nat
    <3>1. 1 \in Int /\ t \in Int /\ 1 .. t \subseteq Nat
      BY ONLY <1>4
    <3>2. IsFiniteSet(1 .. t)
      BY ONLY <3>1, FS_Interval
    <3>3. QED
      BY ONLY <1>1, <3>1, <3>2
  <2>2. \A i \in P : sc[i] \in Int
    BY <1>1, <1>5
  <2>3. QED
    BY <2>1, <2>2 DEF Numbered
<1>7. \A i \in P : sc[i] = model[<<q, c[i]>>]
  BY <1>1
<1>8. PICK R : R = ByScore(P, sc, Less)
  OBVIOUS
<1>9. Listing(P, R, h)
  BY <1>3, <1>6, <1>7, <1>8, HeadIsListed
<1>10. TotalOrder(P, R)
  BY <1>6, <1>8, ScoresAreTotal
<1>11. IsInjective(h) /\ IsSeq(h) /\ Len(h) = Cardinality(P) /\ Range(h) = P
  BY <1>9, <1>10, ListingIsInjective DEF Listing
<1>12. Cardinality(P) = t
  <2>1. 1 \in Int /\ t \in Int
    BY ONLY <1>4
  <2>2. Cardinality(1 .. t) = IF 1 > t THEN 0 ELSE t - 1 + 1
    BY ONLY <2>1, FS_Interval
  <2>3. QED
    BY ONLY <1>1, <1>4, <2>2
<1>13. DOMAIN h = P
  BY <1>1, <1>11, <1>12, SeqIs
<1>14. Exchanges(h, t)
  <2>1. \A i \in P : h[i] \in P
    BY <1>11, <1>13 DEF Range
  <2>2. \A i \in P : \E j \in P : h[j] = i
    <3>1. TAKE i \in P
    <3>2. i \in Range(h)
      BY <1>11
    <3>3. QED
      BY <1>13, <3>2 DEF Range
  <2>3. \A i, j \in P : h[i] = h[j] => i = j
    BY <1>11, <1>13 DEF IsInjective
  <2>4. QED
    BY ONLY <1>1, <1>13, <2>1, <2>2, <2>3 DEF Exchanges
<1>15. Reordered(final, c, h, t)
  BY <1>4, <1>14, FinalIs
<1>16. /\ IsSeq(final) /\ IsInjective(final) /\ Len(final) = n /\ Range(final) = Range(c)
       /\ {final[i] : i \in 1 .. t} = {c[i] : i \in 1 .. t}
  <2>1. SameDocuments(final, c, t)
    BY <1>14, <1>15, ReorderedIs
  <2>2. QED
    BY ONLY <2>1, n = Len(c) DEF SameDocuments
<1>17. rank_run(g) = final
  BY <1>16, PositionsRank
<1>18. QED
  BY ONLY <1>1, <1>8, <1>9, <1>14, <1>15, <1>16, <1>17, n = Len(c) DEF Cascaded

-----------------------------------------------------------------------------
\* What the first k of a list consist of.
LEMMA RangeOfTop ==
    ASSUME NEW s, IsSeq(s), NEW k \in Nat, NEW t, t = IF k <= Len(s) THEN k ELSE Len(s)
    PROVE  Range(Top(s, k)) = {s[i] : i \in 1 .. t}
<1>1. PICK b : b = Top(s, k)
  OBVIOUS
<1>2. Begins(b, s, t)
  BY <1>1, TopBegins
<1>3. DOMAIN b = 1 .. t /\ \A i \in 1 .. t : b[i] = s[i]
  BY <1>2 DEF Begins
<1>4. Range(b) = {s[i] : i \in 1 .. t}
  BY ONLY <1>3 DEF Range
<1>5. QED
  BY <1>1, <1>4

\* A beginning of a beginning is a beginning.
LEMMA TopWithin ==
    ASSUME NEW s, IsSeq(s), NEW k \in Nat, NEW depth \in Nat, k <= depth, NEW c, c = Top(s, depth)
    PROVE  Range(Top(c, k)) = Range(Top(s, k))
<1>1. PICK m \in Nat : m = Len(s)
  BY SeqIs
<1>2. PICK n : n = IF depth <= m THEN depth ELSE m
  OBVIOUS
<1>3. Begins(c, s, n)
  BY <1>1, <1>2, TopBegins
<1>4. IsSeq(c) /\ Len(c) = n /\ n \in Nat /\ \A i \in 1 .. n : c[i] = s[i]
  BY <1>3 DEF Begins
<1>5. PICK t : t = IF k <= n THEN k ELSE n
  OBVIOUS
<1>6. t = (IF k <= m THEN k ELSE m) /\ t \in Nat /\ t <= n
  BY <1>2, <1>4, <1>5
<1>7. Range(Top(c, k)) = {c[i] : i \in 1 .. t} /\ Range(Top(s, k)) = {s[i] : i \in 1 .. t}
  <2>1. t = IF k <= Len(c) THEN k ELSE Len(c)
    BY <1>4, <1>5
  <2>2. t = IF k <= Len(s) THEN k ELSE Len(s)
    BY <1>1, <1>6
  <2>3. QED
    BY <1>4, <2>1, <2>2, RangeOfTop
<1>8. \A i \in 1 .. t : c[i] = s[i]
  BY <1>4, <1>6
<1>9. QED
  BY ONLY <1>7, <1>8

\* Two sequences of one length with the same elements.
LEMMA SameElements ==
    ASSUME NEW s, IsSeq(s), NEW r, IsSeq(r), Len(s) = Len(r), \A i \in 1 .. Len(s) : s[i] = r[i]
    PROVE  s = r
<1>1. PICK n : n = Len(s)
  OBVIOUS
<1>2. s = [i \in 1 .. n |-> s[i]] /\ r = [i \in 1 .. n |-> r[i]]
  BY <1>1, SeqIs
<1>3. \A i \in 1 .. n : s[i] = r[i]
  BY <1>1
<1>4. QED
  BY ONLY <1>2, <1>3

\* Single precision keeps order.
LEMMA SingleKeepsOrder ==
    ASSUME NEW x \in Int, NEW y \in Int, x >= y
    PROVE  Single(x) \in Int /\ Single(y) \in Int /\ Single(x) >= Single(y)
<1>1. PICK G \in Nat : G = Grain /\ G > 0
  BY GrainAssumption
<1>2. PICK a \in Int, r \in Nat : x = G * a + r /\ r < G /\ r = x % G
  BY <1>1
<1>3. PICK b \in Int, s \in Nat : y = G * b + s /\ s < G /\ s = y % G
  BY <1>1
<1>4. PICK A \in Int, B \in Int : A = G * a /\ B = G * b
  OBVIOUS
<1>5. Single(x) = A /\ Single(y) = B
  BY <1>1, <1>2, <1>3, <1>4 DEF Single
<1>6. CASE a < b
  <2>1. PICK e \in Nat : b = a + 1 + e
    BY <1>6
  <2>2. PICK E \in Nat : E = G * e
    OBVIOUS
  <2>3. G * (a + 1 + e) = G * a + G + G * e
    OBVIOUS
  <2>4. B = A + G + E
    BY ONLY <1>4, <2>1, <2>2, <2>3
  <2>5. x = A + r /\ y = B + s
    BY <1>2, <1>3, <1>4
  <2>6. FALSE
    BY ONLY <1>1, <1>2, <1>3, <2>2, <2>4, <2>5, x >= y, A \in Int
  <2>7. QED
    BY <2>6
<1>7. CASE a >= b
  <2>1. PICK e \in Nat : a = b + e
    BY <1>7
  <2>2. PICK E \in Nat : E = G * e
    OBVIOUS
  <2>3. G * (b + e) = G * b + G * e
    OBVIOUS
  <2>4. A = B + E
    BY ONLY <1>4, <2>1, <2>2, <2>3
  <2>5. A >= B
    BY ONLY <2>2, <2>4, B \in Int
  <2>6. QED
    BY <1>5, <2>5
<1>8. QED
  BY <1>6, <1>7

-----------------------------------------------------------------------------
OfCascade(q, c, k, model, ranked) ==
    \E t \in Nat : \E h, sc : /\ t = IF k <= Len(c) THEN k ELSE Len(c)
                              /\ sc = [i \in 1 .. t |-> model[<<q, c[i]>>]]
                              /\ Cascaded(c, t, ranked, h, sc)
CutOf(f, depth, s, c) ==
    /\ Cut(f, depth, c) /\ c = Top(s, depth)
    /\ IsSeq(s) /\ IsInjective(s) /\ IsSeq(c) /\ IsInjective(c) /\ Len(c) <= depth /\ Range(c) \subseteq DOMAIN f

\* The candidates of a query of the first stage are a cut of its ranking.
LEMMA StageCutOf ==
    ASSUME NEW f, Stage(f), NEW depth \in Nat, NEW q \in DOMAIN f,
           NEW c, c = load_candidates(f[q], depth), NEW s, s = rank_run(f[q])
    PROVE  CutOf(f[q], depth, s, c)
<1>1. PICK g : g = f[q] /\ Numbered(DOMAIN g, g)
  BY DEF Stage
<1>2. Cut(g, depth, c) /\ c = Top(s, depth) /\ IsSeq(s) /\ IsInjective(s)
  BY <1>1, CandidatesAre
<1>3. QED
  BY ONLY <1>1, <1>2 DEF CutOf, Cut

\* A point of the curve ranks a query's candidates as the cascade reorders them.
LEMMA CascadeOfQuery ==
    ASSUME NEW f, Stage(f), NEW depth \in Nat, NEW model, HasScores(f, model),
           NEW cands, cands = [q \in DOMAIN f |-> load_candidates(f[q], depth)],
           NEW q \in DOMAIN f, NEW k \in Nat
    PROVE  OfCascade(q, cands[q], k, model, rank_run(CascadeRun(cands, k, model)[q]))
<1>1. PICK c, s : c = cands[q] /\ s = rank_run(f[q]) /\ c = load_candidates(f[q], depth)
  OBVIOUS
<1>2. CutOf(f[q], depth, s, c)
  BY <1>1, StageCutOf
<1>3. IsSeq(c) /\ IsInjective(c) /\ Range(c) \subseteq DOMAIN f[q]
  BY <1>2 DEF CutOf
<1>4. Range(c) \subseteq Nat
  BY <1>3 DEF Stage, Numbered
<1>5. \A d \in Range(c) : model[<<q, d>>] \in Int
  BY <1>3 DEF HasScores
<1>6. PICK n \in Nat : n = Len(c)
  BY <1>3, SeqIs
<1>7. PICK t : t = IF k <= n THEN k ELSE n
  OBVIOUS
<1>8. t \in 0 .. n /\ t \in Nat
  BY <1>6, <1>7
<1>9. PICK h : h = HeadOf(q, c, model, DOMAIN Top(c, k))
  OBVIOUS
<1>10. PICK final : final = FinalOf(c, k, h)
  OBVIOUS
<1>11. PICK sc : sc = [i \in 1 .. t |-> model[<<q, c[i]>>]]
  OBVIOUS
<1>12. PICK g : g = Positioned(c, final)
  OBVIOUS
<1>13. Cascaded(c, t, final, h, sc) /\ rank_run(g) = final
  BY <1>3, <1>4, <1>5, <1>6, <1>7, <1>8, <1>9, <1>10, <1>11, <1>12, CascadeRanks
<1>14. CascadeRun(cands, k, model)[q] = g
  <2>1. DOMAIN cands = DOMAIN f
    OBVIOUS
  <2>2. CascadeRun(cands, k, model)[q]
          = Positioned(cands[q], FinalOf(cands[q], k, HeadOf(q, cands[q], model, DOMAIN Top(cands[q], k))))
    BY <2>1, CascadeIs
  <2>3. QED
    BY ONLY <1>1, <1>9, <1>10, <1>12, <2>2
<1>15. OfCascade(q, c, k, model, final)
  BY ONLY <1>6, <1>7, <1>8, <1>11, <1>13 DEF OfCascade
<1>16. QED
  BY ONLY <1>1, <1>13, <1>14, <1>15

\* Reranking to a depth finds what the first stage finds to it.
LEMMA CascadeFinds ==
    ASSUME NEW q, NEW f, NEW depth \in Nat, NEW s, NEW c, CutOf(f, depth, s, c), NEW k \in Nat, k <= depth, NEW model,
           NEW r, OfCascade(q, c, k, model, r), NEW qrel
    PROVE  recall_at_k(r, qrel, k, 1) = recall_at_k(s, qrel, k, 1)
<1>1. PICK t \in Nat : \E h, sc : /\ t = IF k <= Len(c) THEN k ELSE Len(c)
                                  /\ Cascaded(c, t, r, h, sc)
  BY DEF OfCascade
<1>2. /\ IsSeq(r) /\ IsInjective(r) /\ Len(r) = Len(c) /\ {r[i] : i \in 1 .. t} = {c[i] : i \in 1 .. t}
      /\ t = IF k <= Len(c) THEN k ELSE Len(c)
  BY <1>1 DEF Cascaded
<1>3. IsSeq(c) /\ IsSeq(s) /\ IsInjective(s) /\ c = Top(s, depth)
  BY DEF CutOf
<1>4. Range(Top(r, k)) = {r[i] : i \in 1 .. t}
  <2>1. t = IF k <= Len(r) THEN k ELSE Len(r)
    BY ONLY <1>2
  <2>2. QED
    BY <1>2, <2>1, RangeOfTop
<1>5. Range(Top(c, k)) = {c[i] : i \in 1 .. t}
  BY <1>2, <1>3, RangeOfTop
<1>6. Range(Top(c, k)) = Range(Top(s, k))
  BY <1>3, TopWithin
<1>7. Range(Top(r, k)) = Range(Top(s, k))
  BY ONLY <1>2, <1>4, <1>5, <1>6
<1>8. QED
  BY <1>2, <1>3, <1>7, RecallOfTop

\* To depth 1 it leaves every candidate where it is.
LEMMA CascadeToOne ==
    ASSUME NEW q, NEW c, IsSeq(c), NEW model, NEW r, OfCascade(q, c, 1, model, r) PROVE r = c
<1>1. PICK t, h : /\ t \in Nat /\ t = IF 1 <= Len(c) THEN 1 ELSE Len(c)
                  /\ Reordered(r, c, h, t) /\ Exchanges(h, t)
  BY DEF OfCascade, Cascaded
<1>2. PICK n \in Nat : n = Len(c)
  BY SeqIs
<1>3. IsSeq(r) /\ Len(r) = n /\ (\A i \in 1 .. t : r[i] = c[h[i]]) /\ \A i \in 1 .. n : i > t => r[i] = c[i]
  BY <1>1, <1>2 DEF Reordered
<1>4. t <= 1
  BY <1>1, <1>2
<1>5. \A i \in 1 .. t : h[i] \in 1 .. t
  BY <1>1 DEF Exchanges
<1>6. ASSUME NEW i \in 1 .. n PROVE r[i] = c[i]
  <2>1. CASE i > t
    BY <1>3, <2>1
  <2>2. CASE i <= t
    <3>1. i \in 1 .. t
      BY <1>1, <2>2
    <3>2. PICK j : j = h[i] /\ j \in 1 .. t
      BY <1>5, <3>1
    <3>3. i = j
      BY ONLY <1>1, <1>4, <3>1, <3>2
    <3>4. QED
      BY ONLY <1>3, <3>1, <3>2, <3>3
  <2>3. QED
    BY <1>1, <1>2, <2>1, <2>2
<1>7. QED
  BY <1>2, <1>3, <1>6, SameElements

\* Scores in single precision that all differ rank the candidates as they are.
LEMMA SinglesRank ==
    ASSUME NEW f, Numbered(DOMAIN f, f), NEW depth, NEW s, NEW c, CutOf(f, depth, s, c),
           NEW g, g = [d \in Range(c) |-> Single(f[d])], IsInjective(g)
    PROVE  rank_run(g) = c
<1>1. IsSeq(c) /\ IsInjective(c) /\ Range(c) \subseteq DOMAIN f /\ Cut(f, depth, c)
  BY DEF CutOf
<1>2. \A d \in Range(c) : f[d] \in Int
  BY <1>1 DEF Numbered
<1>3. \A d, e \in Range(c) : f[d] >= f[e] => Single(f[d]) \in Int /\ Single(f[d]) >= Single(f[e])
  BY <1>2, SingleKeepsOrder
<1>4. \A d \in Range(c) : Single(f[d]) \in Int
  BY <1>2, <1>3
<1>5. Numbered(DOMAIN g, g)
  <2>1. Range(c) \in SUBSET DOMAIN f /\ IsFiniteSet(DOMAIN f) /\ DOMAIN f \subseteq Nat
    BY <1>1 DEF Numbered
  <2>2. IsFiniteSet(Range(c))
    BY <2>1, FS_Subset
  <2>3. QED
    BY <1>4, <2>1, <2>2 DEF Numbered
<1>6. ASSUME NEW i \in DOMAIN c, NEW j \in DOMAIN c, i < j PROVE g[c[i]] > g[c[j]]
  <2>1. PICK d \in Range(c), e \in Range(c) : d = c[i] /\ e = c[j]
    BY DEF Range
  <2>2. d # e
    <3>1. i # j
      BY <1>1, <1>6, SeqIs
    <3>2. QED
      BY ONLY <1>1, <2>1, <3>1, i \in DOMAIN c, j \in DOMAIN c DEF IsInjective
  <2>3. f[d] >= f[e]
    <3>1. f[d] > f[e] \/ f[d] = f[e]
      BY ONLY <1>1, <1>6, <2>1, i \in DOMAIN c, j \in DOMAIN c DEF Cut
    <3>2. QED
      BY ONLY <1>2, <3>1, d \in Range(c), e \in Range(c)
  <2>4. g[d] >= g[e] /\ g[d] \in Int /\ g[e] \in Int
    BY ONLY <1>3, <1>4, <2>3, g = [x \in Range(c) |-> Single(f[x])], d \in Range(c), e \in Range(c)
  <2>5. g[d] # g[e]
    BY <2>2 DEF IsInjective
  <2>6. QED
    BY ONLY <2>1, <2>4, <2>5
<1>7. Range(c) = DOMAIN g
  OBVIOUS
<1>8. QED
  BY ONLY <1>1, <1>5, <1>6, <1>7, RankedAs

-----------------------------------------------------------------------------
\* At the full depth the head is all of it, in the order of the model's scores.
LEMMA CascadeToAll ==
    ASSUME NEW q, NEW c, IsSeq(c), NEW depth \in Nat, Len(c) <= depth, Range(c) \subseteq Nat,
           NEW model, \A d \in Range(c) : model[<<q, d>>] \in Int,
           NEW r, OfCascade(q, c, depth, model, r),
           NEW g, g = [d \in Range(c) |-> model[<<q, d>>]], IsInjective(g)
    PROVE  rank_run(g) = r
<1>1. PICK n \in Nat : n = Len(c) /\ DOMAIN c = 1 .. n
  BY SeqIs
<1>2. PICK t, h, sc : /\ t \in Nat /\ t = IF depth <= Len(c) THEN depth ELSE Len(c)
                      /\ sc = [i \in 1 .. t |-> model[<<q, c[i]>>]]
                      /\ Cascaded(c, t, r, h, sc)
  BY DEF OfCascade
<1>3. t = n
  BY ONLY <1>1, <1>2, depth \in Nat, Len(c) <= depth
<1>4. /\ IsSeq(r) /\ IsInjective(r) /\ Len(r) = n /\ Range(r) = Range(c)
      /\ Reordered(r, c, h, n) /\ Exchanges(h, n) /\ Listing(1 .. n, ByScore(1 .. n, sc, Less), h)
  BY ONLY <1>1, <1>2, <1>3 DEF Cascaded
<1>5. DOMAIN r = 1 .. n /\ \A i \in 1 .. n : r[i] = c[h[i]]
  BY <1>4, SeqIs DEF Reordered
<1>6. DOMAIN h = 1 .. n /\ (\A i \in 1 .. n : h[i] \in 1 .. n) /\ \A i, j \in 1 .. n : h[i] = h[j] => i = j
  BY ONLY <1>4 DEF Exchanges
<1>7. \A i \in 1 .. n : c[i] \in Range(c)
  BY <1>1 DEF Range
<1>8. \A i \in 1 .. n : sc[i] = g[c[i]] /\ sc[i] \in Int
  BY <1>2, <1>3, <1>7
<1>9. ASSUME NEW i \in 1 .. n, NEW j \in 1 .. n, i < j PROVE g[r[i]] > g[r[j]]
  <2>1. PICK x \in 1 .. n, y \in 1 .. n : x = h[i] /\ y = h[j]
    BY <1>6
  <2>2. <<x, y>> \in ByScore(1 .. n, sc, Less)
    BY ONLY <1>4, <1>6, <1>9, <2>1, i \in 1 .. n, j \in 1 .. n DEF Listing
  <2>3. sc[x] > sc[y] \/ sc[x] = sc[y]
    <3>1. PICK S : S = 1 .. n
      OBVIOUS
    <3>2. <<x, y>> \in ByScore(S, sc, Less) /\ x \in S /\ y \in S
      BY <2>2, <3>1
    <3>3. QED
      BY ONLY <3>2, ByScoreIs
  <2>4. PICK d \in Range(c), e \in Range(c) : d = r[i] /\ e = r[j]
    BY <1>4, <1>5 DEF Range
  <2>5. d # e
    <3>1. i # j
      BY ONLY <1>9, n \in Nat, i \in 1 .. n, j \in 1 .. n
    <3>2. QED
      BY ONLY <1>4, <1>5, <2>4, <3>1, i \in 1 .. n, j \in 1 .. n DEF IsInjective
  <2>6. g[d] # g[e]
    BY <2>5 DEF IsInjective
  <2>7. sc[x] = g[d] /\ sc[y] = g[e] /\ sc[x] \in Int /\ sc[y] \in Int
    BY ONLY <1>5, <1>8, <2>1, <2>4, i \in 1 .. n, j \in 1 .. n
  <2>8. QED
    BY ONLY <2>3, <2>4, <2>6, <2>7
<1>10. Numbered(DOMAIN g, g)
  <2>1. IsFiniteSet(Range(c))
    BY RangeIsFinite
  <2>2. QED
    BY <2>1 DEF Numbered
<1>11. Range(r) = DOMAIN g
  BY <1>4
<1>12. \A i, j \in DOMAIN r : i < j => g[r[i]] > g[r[j]]
  BY ONLY <1>5, <1>9
<1>13. QED
  BY ONLY <1>4, <1>10, <1>11, <1>12, RankedAs

-----------------------------------------------------------------------------
\* An evaluation, query by query.
LEMMA EvaluatedAt ==
    ASSUME NEW x, NEW qrels, NEW m, NEW q \in DOMAIN x, q \in DOMAIN qrels
    PROVE  evaluate(x, qrels, m)[q] = metric_value(m, rank_run(x[q]), qrels[q])
BY DEF evaluate

\* The cascade is judged on the candidates it was given, at every depth.
LEMMA CascadeCompares ==
    ASSUME NEW f, Stage(f), NEW qrels, DOMAIN f \subseteq DOMAIN qrels, NEW depth \in Nat \ {0},
           NEW model, HasScores(f, model)
    PROVE  CascadeIsComparable(f, qrels, depth, model)
<1>1. PICK cands : cands = [q \in DOMAIN f |-> load_candidates(f[q], depth)]
  OBVIOUS
<1>2. Candidates(cands) /\ HasLengths(cands, model)
  BY <1>1, StageIsCut
<1>3. PICK full : full = rerank(f, depth, model, model)
  OBVIOUS
<1>4. full = Rescored(cands, model)
  BY <1>1, <1>2, <1>3, RerankIs
<1>5. DOMAIN cands = DOMAIN f /\ DOMAIN full = DOMAIN f
  BY <1>1, <1>4 DEF Rescored
<1>6. \A k \in Nat \ {0} : cascade_quality(cands, k, f, model) = CascadeRun(cands, k, model)
  BY Zenon DEF cascade_quality
<1>7. \A k : DOMAIN CascadeRun(cands, k, model) = DOMAIN f
  BY <1>5, CascadeIs
<1>8. PICK plain : plain = cascade_quality(cands, 0, f, model)
  OBVIOUS
<1>9. plain = [q \in DOMAIN cands |-> [d \in Range(cands[q]) |-> Single(f[q][d])]]
  BY <1>8 DEF cascade_quality
<1>10. ASSUME NEW q \in DOMAIN f
       PROVE  /\ CutOf(f[q], depth, rank_run(f[q]), cands[q])
              /\ \A k \in Nat : OfCascade(q, cands[q], k, model, rank_run(CascadeRun(cands, k, model)[q]))
  <2>1. cands[q] = load_candidates(f[q], depth)
    BY <1>1
  <2>2. CutOf(f[q], depth, rank_run(f[q]), cands[q])
    BY <2>1, StageCutOf
  <2>3. \A k \in Nat : OfCascade(q, cands[q], k, model, rank_run(CascadeRun(cands, k, model)[q]))
    BY <1>1, CascadeOfQuery
  <2>4. QED
    BY <2>2, <2>3
<1>11. ASSUME NEW k \in 1 .. depth
       PROVE  evaluate(cascade_quality(cands, k, f, model), qrels, Metric("R", k, 1)) = evaluate(f, qrels, Metric("R", k, 1))
  <2>1. k \in Nat \ {0} /\ k \in Nat /\ k <= depth
    OBVIOUS
  <2>2. PICK m, at : m = Metric("R", k, 1) /\ at = CascadeRun(cands, k, model)
    OBVIOUS
  <2>3. ASSUME NEW q \in DOMAIN f, NEW qrel
        PROVE  metric_value(m, rank_run(at[q]), qrel) = metric_value(m, rank_run(f[q]), qrel)
    <3>1. PICK c, s, r : c = cands[q] /\ s = rank_run(f[q]) /\ r = rank_run(at[q])
      OBVIOUS
    <3>2. CutOf(f[q], depth, s, c) /\ OfCascade(q, c, k, model, r)
      BY <1>10, <2>1, <2>2, <3>1
    <3>3. recall_at_k(r, qrel, k, 1) = recall_at_k(s, qrel, k, 1)
      BY <2>1, <3>2, CascadeFinds
    <3>4. metric_value(m, r, qrel) = recall_at_k(r, qrel, k, 1) /\ metric_value(m, s, qrel) = recall_at_k(s, qrel, k, 1)
      BY <2>2, MetricIs
    <3>5. QED
      BY ONLY <3>1, <3>3, <3>4
  <2>4. DOMAIN at = DOMAIN f
    BY <1>7, <2>2
  <2>5. evaluate(at, qrels, m) = evaluate(f, qrels, m)
    BY <2>3, <2>4, SameValues
  <2>6. QED
    BY <1>6, <2>1, <2>2, <2>5
<1>12. ASSUME NEW q \in DOMAIN f, IsInjective(plain[q])
       PROVE  evaluate(cascade_quality(cands, 1, f, model), qrels, Metric("nDCG", depth, 1))[q]
                = evaluate(plain, qrels, Metric("nDCG", depth, 1))[q]
  <2>1. PICK c, s, g : c = cands[q] /\ s = rank_run(f[q]) /\ g = plain[q]
    OBVIOUS
  <2>2. PICK e : e = f[q] /\ Numbered(DOMAIN e, e)
    BY DEF Stage
  <2>3. CutOf(e, depth, s, c)
    BY <1>10, <2>1, <2>2
  <2>4. g = [d \in Range(c) |-> Single(e[d])]
    BY <1>5, <1>9, <2>1, <2>2
  <2>5. rank_run(g) = c
    BY <1>12, <2>1, <2>2, <2>3, <2>4, SinglesRank
  <2>6. PICK at : at = CascadeRun(cands, 1, model)
    OBVIOUS
  <2>7. PICK one \in Nat : one = 1
    OBVIOUS
  <2>8. OfCascade(q, c, 1, model, rank_run(at[q]))
    BY <1>10, <2>1, <2>6, <2>7
  <2>9. rank_run(at[q]) = c
    BY <2>3, <2>8, CascadeToOne DEF CutOf
  <2>10. at = cascade_quality(cands, 1, f, model)
    BY <1>6, <2>6
  <2>11. q \in DOMAIN at /\ q \in DOMAIN plain /\ q \in DOMAIN qrels
    BY <1>5, <1>7, <1>9, <2>6
  <2>12. PICK m : m = Metric("nDCG", depth, 1)
    OBVIOUS
  <2>13. /\ evaluate(at, qrels, m)[q] = metric_value(m, rank_run(at[q]), qrels[q])
         /\ evaluate(plain, qrels, m)[q] = metric_value(m, rank_run(plain[q]), qrels[q])
    BY <2>11, EvaluatedAt
  <2>14. QED
    BY ONLY <2>1, <2>5, <2>9, <2>10, <2>12, <2>13
<1>13. ASSUME NEW q \in DOMAIN f, IsInjective(full[q])
       PROVE  evaluate(cascade_quality(cands, depth, f, model), qrels, Metric("nDCG", depth, 1))[q]
                = evaluate(full, qrels, Metric("nDCG", depth, 1))[q]
  <2>1. PICK c, s, g : c = cands[q] /\ s = rank_run(f[q]) /\ g = full[q]
    OBVIOUS
  <2>2. PICK e : e = f[q] /\ Numbered(DOMAIN e, e)
    BY DEF Stage
  <2>3. CutOf(e, depth, s, c)
    BY <1>10, <2>1, <2>2
  <2>4. IsSeq(c) /\ Len(c) <= depth /\ Range(c) \subseteq Nat
    BY <2>2, <2>3 DEF CutOf, Numbered
  <2>5. \A d \in Range(c) : model[<<q, d>>] \in Int
    BY <1>2, <1>5, <2>1 DEF HasLengths
  <2>6. g = [d \in Range(c) |-> model[<<q, d>>]]
    BY <1>4, <1>5, <2>1 DEF Rescored
  <2>7. PICK at : at = CascadeRun(cands, depth, model)
    OBVIOUS
  <2>8. OfCascade(q, c, depth, model, rank_run(at[q]))
    BY <1>10, <2>1, <2>7
  <2>9. rank_run(g) = rank_run(at[q])
    BY <1>13, <2>1, <2>4, <2>5, <2>6, <2>8, CascadeToAll
  <2>10. at = cascade_quality(cands, depth, f, model)
    BY <1>6, <2>7
  <2>11. q \in DOMAIN at /\ q \in DOMAIN full /\ q \in DOMAIN qrels
    BY <1>5, <1>7, <2>7
  <2>12. PICK m : m = Metric("nDCG", depth, 1)
    OBVIOUS
  <2>13. /\ evaluate(at, qrels, m)[q] = metric_value(m, rank_run(at[q]), qrels[q])
         /\ evaluate(full, qrels, m)[q] = metric_value(m, rank_run(full[q]), qrels[q])
    BY <2>11, EvaluatedAt
  <2>14. QED
    BY ONLY <2>1, <2>9, <2>10, <2>12, <2>13
<1>14. QED
  BY Zenon, <1>1, <1>3, <1>5, <1>8, <1>11, <1>12, <1>13 DEF CascadeIsComparable

-----------------------------------------------------------------------------
(* The whole of it, for every query that is mined. *)
FirstStageOf(q) == [s \in {2, 10} |-> IF s = 2 THEN HitScores(q) ELSE q.dense]

\* The two first-stage lists of a query.
LEMMA StageOfQuery ==
    ASSUME NEW q, IsQuery(q), NEW f, f = FirstStageOf(q)
    PROVE  Stage(f) /\ DOMAIN f = {2, 10}
<1>1. DOMAIN f = {2, 10} /\ f[2] = HitScores(q) /\ f[10] = q.dense
  BY DEF FirstStageOf
<1>2. PICK h : h = HitScores(q)
  OBVIOUS
<1>3. Numbered(DOMAIN h, h)
  <2>1. CASE DOMAIN h # {}
    BY <1>2, <2>1, HitsAre
  <2>2. CASE DOMAIN h = {}
    <3>1. PICK none : none = {}
      OBVIOUS
    <3>2. IsFiniteSet(none)
      BY <3>1, FS_EmptySet
    <3>3. DOMAIN h = none /\ none \subseteq Nat /\ \A x \in none : h[x] \in Int
      BY <2>2, <3>1
    <3>4. QED
      BY ONLY <3>2, <3>3 DEF Numbered
  <2>3. QED
    BY <2>1, <2>2
<1>4. PICK e : e = q.dense /\ Numbered(DOMAIN e, e)
  BY DEF IsQuery
<1>5. \A s \in {2, 10} : Numbered(DOMAIN f[s], f[s])
  <2>1. Numbered(DOMAIN f[2], f[2])
    BY ONLY <1>1, <1>2, <1>3
  <2>2. Numbered(DOMAIN f[10], f[10])
    BY ONLY <1>1, <1>4
  <2>3. QED
    BY ONLY <2>1, <2>2
<1>6. IsFiniteSet({2, 10})
  <2>1. PICK none : none = {}
    OBVIOUS
  <2>2. IsFiniteSet(none)
    BY <2>1, FS_EmptySet
  <2>3. PICK A : A = none \cup {2}
    OBVIOUS
  <2>4. IsFiniteSet(A)
    BY <2>2, <2>3, FS_AddElement
  <2>5. IsFiniteSet(A \cup {10})
    BY <2>4, FS_AddElement
  <2>6. A \cup {10} = {2, 10}
    BY ONLY <2>1, <2>3
  <2>7. QED
    BY ONLY <2>5, <2>6
<1>7. {2, 10} \subseteq Nat
  OBVIOUS
<1>8. QED
  BY ONLY <1>1, <1>5, <1>6, <1>7 DEF Stage

StagePairs(f) == UNION {{s} \X DOMAIN f[s] : s \in {2, 10}}
LengthsOf(f) == [p \in StagePairs(f) |-> (p[1] + p[2]) % 4]
ReverseOf(f) == [p \in StagePairs(f) |-> -f[p[1]][p[2]]]

\* Every pair of the first stage has a length and a score.
LEMMA PairsOfStage ==
    ASSUME NEW f, Stage(f), DOMAIN f = {2, 10}
    PROVE  HasScores(f, LengthsOf(f)) /\ HasScores(f, ReverseOf(f))
<1>1. ASSUME NEW s \in DOMAIN f, NEW d \in DOMAIN f[s]
      PROVE  /\ <<s, d>> \in StagePairs(f)
             /\ LengthsOf(f)[<<s, d>>] \in Int /\ ReverseOf(f)[<<s, d>>] \in Int
  <2>1. PICK p : p = <<s, d>>
    OBVIOUS
  <2>2. p[1] = s /\ p[2] = d /\ p \in {s} \X DOMAIN f[s]
    BY ONLY <2>1, d \in DOMAIN f[s]
  <2>3. p \in StagePairs(f)
    BY ONLY <2>2, s \in DOMAIN f, DOMAIN f = {2, 10} DEF StagePairs
  <2>4. PICK g : g = f[s] /\ Numbered(DOMAIN g, g) /\ d \in DOMAIN g
    BY DEF Stage
  <2>5. s \in Nat /\ d \in Nat /\ g[d] \in Int
    BY <2>4 DEF Stage, Numbered
  <2>6. (s + d) % 4 \in Int /\ -g[d] \in Int
    BY ONLY <2>5
  <2>7. LengthsOf(f)[p] = (s + d) % 4
    BY ONLY <2>2, <2>3 DEF LengthsOf
  <2>8. ReverseOf(f)[p] = -g[d]
    BY ONLY <2>2, <2>3, <2>4 DEF ReverseOf
  <2>9. QED
    BY ONLY <2>1, <2>3, <2>6, <2>7, <2>8
<1>2. DOMAIN LengthsOf(f) = StagePairs(f) /\ DOMAIN ReverseOf(f) = StagePairs(f)
  BY DEF LengthsOf, ReverseOf
<1>3. QED
  BY ONLY <1>1, <1>2 DEF HasScores

QrelsOf(q) == [n \in {2, 10} |-> q.judged]
HitListsOf(f) == [s \in {2, 10} |-> Sorted(f[s])]

\* Its hit lists are candidates.
LEMMA HitListsAre ==
    ASSUME NEW f, Stage(f), DOMAIN f = {2, 10}, NEW length, HasScores(f, length)
    PROVE  Candidates(HitListsOf(f)) /\ HasLengths(HitListsOf(f), length)
<1>1. ASSUME NEW s \in DOMAIN f PROVE IsSeq(Sorted(f[s])) /\ Range(Sorted(f[s])) = DOMAIN f[s]
  <2>1. PICK g : g = f[s] /\ Numbered(DOMAIN g, g)
    BY DEF Stage
  <2>2. Listing(DOMAIN g, ByScore(DOMAIN g, g, Less), Sorted(g))
    BY <2>1, SortedLists
  <2>3. QED
    BY ONLY <2>1, <2>2 DEF Listing
<1>2. PICK hits : hits = HitListsOf(f)
  OBVIOUS
<1>3. DOMAIN hits = DOMAIN f /\ \A s \in DOMAIN f : hits[s] = Sorted(f[s])
  BY <1>2 DEF HitListsOf
<1>4. IsFiniteSet(DOMAIN f) /\ DOMAIN f \subseteq Nat
  BY DEF Stage
<1>5. Candidates(hits)
  BY ONLY <1>1, <1>3, <1>4 DEF Candidates
<1>6. HasLengths(hits, length)
  <2>1. \A s \in DOMAIN f : \A d \in DOMAIN f[s] : length[<<s, d>>] \in Int
    BY DEF HasScores
  <2>2. QED
    BY ONLY <1>1, <1>3, <2>1 DEF HasLengths
<1>7. QED
  BY ONLY <1>2, <1>5, <1>6

\* The rows of the index, by number, each with its own number for a length.
RowScores(q) == [i \in 1 .. Cardinality(DOMAIN q.dense) |-> q.dense[InOrder(DOMAIN q.dense)[i]]]

\* The encoded rows of a query keep their order.
LEMMA RowsAreMeasured ==
    ASSUME NEW q, IsQuery(q) PROVE EncodedInOrder(RowScores(q))
<1>1. PICK e, S : e = q.dense /\ S = DOMAIN e /\ Numbered(S, e)
  BY DEF IsQuery
<1>2. Listing(S, Less, InOrder(S))
  BY <1>1, NumbersAreListed DEF Numbered
<1>3. PICK o, n : o = InOrder(S) /\ n = Cardinality(S)
  OBVIOUS
<1>4. IsSeq(o) /\ Len(o) = n /\ Range(o) = S
  BY <1>2, <1>3 DEF Listing
<1>5. n \in Nat /\ DOMAIN o = 1 .. n
  BY <1>4, SeqIs
<1>6. \A i \in 1 .. n : o[i] \in S /\ e[o[i]] \in Int
  BY <1>1, <1>4, <1>5 DEF Range, Numbered
<1>7. PICK l : l = [i \in 1 .. n |-> e[o[i]]]
  OBVIOUS
<1>8. Measured(l, n)
  BY <1>6, <1>7 DEF Measured
<1>9. EncodedInOrder(l)
  BY <1>5, <1>8, EncodingKeepsOrder
<1>10. RowScores(q) = l
  BY ONLY <1>1, <1>3, <1>7 DEF RowScores
<1>11. QED
  BY ONLY <1>9, <1>10

\* At every depth, both comparisons are fair.
LEMMA DepthsAreComparable ==
    ASSUME NEW q, IsQuery(q), NEW f, f = FirstStageOf(q), NEW qrels, qrels = [n \in {2, 10} |-> q.judged],
           NEW depth \in Nat \ {0}, NEW length, length = LengthsOf(f), NEW reverse, reverse = ReverseOf(f)
    PROVE  /\ RerankIsComparable(f, qrels, depth, length)
           /\ CascadeIsComparable(f, qrels, depth, length)
           /\ CascadeIsComparable(f, qrels, depth, reverse)
           /\ \A n \in Nat : ValidatedAsEvaluated(HitListsOf(f), qrels, n, depth, length)
<1>1. Stage(f) /\ DOMAIN f = {2, 10}
  BY StageOfQuery
<1>2. HasScores(f, length) /\ HasScores(f, reverse)
  BY <1>1, PairsOfStage
<1>3. RerankIsComparable(f, qrels, depth, length)
  BY <1>1, <1>2, RerankingCompares
<1>4. DOMAIN f \subseteq DOMAIN qrels
  BY <1>1
<1>5. CascadeIsComparable(f, qrels, depth, length)
  BY <1>1, <1>2, <1>4, CascadeCompares
<1>6. CascadeIsComparable(f, qrels, depth, reverse)
  BY <1>1, <1>2, <1>4, CascadeCompares
<1>7. PICK hits : hits = HitListsOf(f)
  OBVIOUS
<1>8. Candidates(hits) /\ HasLengths(hits, length)
  BY <1>1, <1>2, <1>7, HitListsAre
<1>9. \A n \in Nat : ValidatedAsEvaluated(hits, qrels, n, depth, length)
  BY <1>8, ValidationIsEvaluation
<1>10. QED
  BY ONLY <1>3, <1>5, <1>6, <1>7, <1>9

CleanFor(q, mined) ==
    /\ NegativesAreClean(q, mined)
    /\ TopKIsExact(q.dense, DenseDepth)
    /\ EncodedInOrder([i \in 1 .. Cardinality(DOMAIN q.dense) |-> q.dense[Ordered(DOMAIN q.dense, <)[i]]])
    /\ \A depth \in 1 .. 3 :
          LET firstStage == [s \in {2, 10} |-> IF s = 2 THEN HitScores(q) ELSE q.dense]
              qrels == [n \in {2, 10} |-> q.judged]
              pairs == UNION {{s} \X DOMAIN firstStage[s] : s \in {2, 10}}
              length == [p \in pairs |-> (p[1] + p[2]) % 4]
              reverse == [p \in pairs |-> -firstStage[p[1]][p[2]]]
          IN  /\ RerankIsComparable(firstStage, qrels, depth, length)
              /\ CascadeIsComparable(firstStage, qrels, depth, length)
              /\ CascadeIsComparable(firstStage, qrels, depth, reverse)
              /\ \A n \in {1, 2} :
                    ValidatedAsEvaluated([s \in {2, 10} |-> Sorted(firstStage[s])], qrels, n, depth, length)

\* All of it, for one query.
LEMMA CleanForQuery == ASSUME NEW q, IsQuery(q) PROVE CleanFor(q, mine(q))
<1>1. NegativesAreClean(q, mine(q))
  BY MinedIsClean
<1>2. TopKIsExact(q.dense, DenseDepth)
  <2>1. PICK e : e = q.dense /\ Numbered(DOMAIN e, e)
    BY DEF IsQuery
  <2>2. DenseDepth \in Nat /\ ChunkRows \in Nat \ {0} /\ BlockRows \in Nat \ {0}
    BY DepthsAssumption
  <2>3. TopKIsExact(e, DenseDepth)
    BY <2>1, <2>2, SearchIsExact
  <2>4. QED
    BY ONLY <2>1, <2>3
<1>3. EncodedInOrder([i \in 1 .. Cardinality(DOMAIN q.dense) |-> q.dense[Ordered(DOMAIN q.dense, <)[i]]])
  BY Zenon, RowsAreMeasured DEF RowScores, InOrder
<1>4. PICK f : f = FirstStageOf(q)
  OBVIOUS
<1>5. PICK qrels, length, reverse : qrels = [n \in {2, 10} |-> q.judged] /\ length = LengthsOf(f) /\ reverse = ReverseOf(f)
  OBVIOUS
<1>6. PICK hits : hits = HitListsOf(f)
  OBVIOUS
<1>7. ASSUME NEW depth \in 1 .. 3
      PROVE  /\ RerankIsComparable(f, qrels, depth, length)
             /\ CascadeIsComparable(f, qrels, depth, length)
             /\ CascadeIsComparable(f, qrels, depth, reverse)
             /\ \A n \in {1, 2} : ValidatedAsEvaluated(hits, qrels, n, depth, length)
  <2>1. depth \in Nat \ {0}
    OBVIOUS
  <2>2. /\ RerankIsComparable(f, qrels, depth, length)
        /\ CascadeIsComparable(f, qrels, depth, length)
        /\ CascadeIsComparable(f, qrels, depth, reverse)
        /\ \A n \in Nat : ValidatedAsEvaluated(HitListsOf(f), qrels, n, depth, length)
    BY <1>4, <1>5, <2>1, DepthsAreComparable
  <2>3. {1, 2} \subseteq Nat
    OBVIOUS
  <2>4. QED
    BY ONLY <1>6, <2>2, <2>3
<1>8. ASSUME NEW depth \in 1 .. 3
      PROVE  /\ RerankIsComparable(FirstStageOf(q), QrelsOf(q), depth, LengthsOf(FirstStageOf(q)))
             /\ CascadeIsComparable(FirstStageOf(q), QrelsOf(q), depth, LengthsOf(FirstStageOf(q)))
             /\ CascadeIsComparable(FirstStageOf(q), QrelsOf(q), depth, ReverseOf(FirstStageOf(q)))
             /\ \A n \in {1, 2} :
                   ValidatedAsEvaluated(HitListsOf(FirstStageOf(q)), QrelsOf(q), n, depth, LengthsOf(FirstStageOf(q)))
  <2>1. qrels = QrelsOf(q)
    BY <1>5 DEF QrelsOf
  <2>2. QED
    BY ONLY <1>4, <1>5, <1>6, <1>7, <2>1, depth \in 1 .. 3
<1>9. QED
  BY Zenon, <1>1, <1>2, <1>3, <1>8 DEF CleanFor, QrelsOf, FirstStageOf, LengthsOf, ReverseOf, StagePairs, HitListsOf

-----------------------------------------------------------------------------
(* Fusion.  A list of documents with scores, each document once. *)
Once(r) ==
    /\ IsSeq(r) /\ \A i \in DOMAIN r : r[i].doc \in Nat /\ r[i].score \in Int
    /\ \A i, j \in DOMAIN r : r[i].doc = r[j].doc => i = j

OnceRanked(r) ==
    /\ IsSeq(Order(r)) /\ Len(Order(r)) = Len(r) /\ IsInjective(Order(r)) /\ Range(Order(r)) = Docs(r)
    /\ Len(r) \in Nat /\ DOMAIN r = 1 .. Len(r) /\ DOMAIN Order(r) = 1 .. Len(r) /\ Docs(r) \subseteq Nat /\ IsFiniteSet(Docs(r))
    /\ Cardinality(Docs(r)) = Len(r)
    /\ \A i \in 1 .. Len(r) : Order(r)[i] = r[i].doc /\ r[i].doc \in Docs(r) /\ RankOf(r, r[i].doc) = i
    /\ \A d \in Docs(r) : RankOf(r, d) \in 1 .. Len(r) /\ r[RankOf(r, d)].doc = d

\* Such a list gives every document one rank.
LEMMA OnceIs == ASSUME NEW r, Once(r) PROVE OnceRanked(r)
<1>1. PICK n \in Nat : n = Len(r) /\ DOMAIN r = 1 .. n
  BY SeqIs DEF Once
<1>2. \A i \in 1 .. n : r[i].doc \in Nat /\ \A j \in 1 .. n : r[i].doc = r[j].doc => i = j
  BY ONLY Once(r), <1>1 DEF Once
<1> DEFINE o == [i \in 1 .. n |-> r[i].doc]
<1>3. Order(r) = o
  BY ONLY <1>1 DEF Order
<1>4. IsSeq(o) /\ Len(o) = n
  <2>1. o = [i \in 1 .. n |-> o[i]]
    OBVIOUS
  <2> HIDE DEF o
  <2>2. QED
    BY <2>1, FunctionIsSeq
<1>5. IsInjective(o) /\ Range(o) = Docs(r) /\ DOMAIN o = 1 .. n
  <2>1. IsInjective(o)
    BY ONLY <1>2 DEF IsInjective
  <2>2. Range(o) = {o[i] : i \in 1 .. n}
    BY DEF Range
  <2>3. Docs(r) = {r[i].doc : i \in 1 .. n}
    BY ONLY <1>1 DEF Docs
  <2>4. {o[i] : i \in 1 .. n} = {r[i].doc : i \in 1 .. n}
    OBVIOUS
  <2>5. QED
    BY <2>1, <2>2, <2>3, <2>4
<1>6. \A i \in 1 .. n : o[i] = r[i].doc /\ r[i].doc \in Docs(r) /\ RankOf(r, r[i].doc) = i
  <2>1. ASSUME NEW i \in 1 .. n PROVE RankOf(r, r[i].doc) = i
    BY ONLY <1>1, <1>2, i \in 1 .. n DEF RankOf
  <2>2. QED
    BY <1>1, <2>1 DEF Docs
<1>7. \A d \in Docs(r) : RankOf(r, d) \in 1 .. n /\ r[RankOf(r, d)].doc = d
  <2>1. ASSUME NEW d \in Docs(r) PROVE \E i \in 1 .. n : d = r[i].doc
    BY <1>1 DEF Docs
  <2>2. QED
    BY <1>6, <2>1
<1>8. IsFiniteSet(Docs(r)) /\ Cardinality(Docs(r)) = n /\ Docs(r) \subseteq Nat
  <2>1. IsFiniteSet(Range(o)) /\ Cardinality(Range(o)) = Len(o)
    <3> HIDE DEF o
    <3> QED BY <1>4, <1>5, NoRepetitions
  <2>2. \A d \in Docs(r) : \E i \in 1 .. n : d = r[i].doc
    BY <1>1 DEF Docs
  <2>3. QED
    BY <1>2, <1>4, <1>5, <2>1, <2>2
<1> HIDE DEF o
<1>9. QED
  BY ONLY <1>1, <1>3, <1>4, <1>5, <1>6, <1>7, <1>8 DEF OnceRanked

\* A ranking has each document once, and so has what it is cut to.
LEMMA RankingIsOnce == ASSUME NEW r, IsRanking(r) PROVE Once(r)
<1>1. IsSeq(r) /\ Len(r) \in Nat /\ DOMAIN r = 1 .. Len(r)
  BY SeqIs DEF IsRanking, IsSeq
<1>2. \A i, j \in DOMAIN r : i < j => r[i].doc # r[j].doc
  BY ONLY IsRanking(r) DEF IsRanking
<1>3. \A i, j \in DOMAIN r : r[i].doc = r[j].doc => i = j
  BY <1>1, <1>2
<1>4. QED
  BY ONLY <1>1, <1>3, IsRanking(r) DEF Once, IsRanking

LEMMA TruncatedIs ==
    ASSUME NEW r, IsRanking(r)
    PROVE  /\ IsRanking(truncate(r)) /\ Len(truncate(r)) \in Nat /\ Len(truncate(r)) <= DEPTH
           /\ Order(truncate(r)) = Top(Order(r), DEPTH)
<1>1. DEPTH \in Nat
  BY GridAssumption
<1>2. PICK n \in Nat : n = Len(r) /\ DOMAIN r = 1 .. n /\ IsSeq(r)
  BY SeqIs DEF IsRanking, IsSeq
<1>3. PICK l, t : t = truncate(r) /\ l = IF DEPTH <= n THEN DEPTH ELSE n
  OBVIOUS
<1>4. Begins(t, r, l)
  BY ONLY <1>1, <1>2, <1>3, TopBegins DEF truncate
<1>5. IsSeq(t) /\ Len(t) = l /\ DOMAIN t = 1 .. l /\ l \in Nat /\ l <= n /\ l <= DEPTH /\ \A i \in 1 .. l : i \in DOMAIN r /\ t[i] = r[i]
  BY ONLY <1>1, <1>2, <1>3, <1>4 DEF Begins
<1>6. IsRanking(t)
  <2>1. \A i \in DOMAIN t : t[i].doc \in Nat /\ t[i].score \in Int
    BY ONLY <1>5, IsRanking(r) DEF IsRanking
  <2>2. ASSUME NEW i \in DOMAIN t, NEW j \in DOMAIN t, i < j
        PROVE  t[i].doc # t[j].doc /\ Ahead(t[i].score, t[j].score, t[i].doc < t[j].doc)
    <3>1. t[i] = r[i] /\ t[j] = r[j] /\ i \in DOMAIN r /\ j \in DOMAIN r
      BY <1>5
    <3>2. r[i].doc # r[j].doc /\ Ahead(r[i].score, r[j].score, r[i].doc < r[j].doc)
      BY ONLY <2>2, <3>1, IsRanking(r) DEF IsRanking
    <3>3. QED
      BY ONLY <3>1, <3>2
  <2>3. QED
    BY ONLY <1>5, <2>1, <2>2 DEF IsRanking, IsSeq
<1>7. Order(t) = Top(Order(r), DEPTH)
  <2>1. IsSeq(Order(r)) /\ Len(Order(r)) = n /\ \A i \in 1 .. n : Order(r)[i] = r[i].doc
    BY ONLY <1>2, RankingIsOnce, OnceIs, IsRanking(r) DEF OnceRanked
  <2>2. Begins(Top(Order(r), DEPTH), Order(r), l)
    BY ONLY <1>1, <1>3, <2>1, TopBegins
  <2>3. PICK u : u = Top(Order(r), DEPTH)
    OBVIOUS
  <2>4. IsSeq(u) /\ Len(u) = l /\ \A i \in 1 .. l : u[i] = r[i].doc
    BY ONLY <1>5, <2>1, <2>2, <2>3, <1>2 DEF Begins
  <2>5. u = [i \in 1 .. l |-> r[i].doc]
    BY <2>4, SeqIs
  <2>6. Order(t) = [i \in 1 .. l |-> r[i].doc]
    BY ONLY <1>5 DEF Order
  <2>7. QED
    BY <2>3, <2>5, <2>6
<1>8. QED
  BY ONLY <1>3, <1>5, <1>6, <1>7

\* Shares and normalised scores.
LEMMA QuotientIs ==
    ASSUME NEW u \in Int, NEW a \in Nat \ {0} PROVE u \div a \in Int
OBVIOUS

LEMMA QuotientGrows ==
    ASSUME NEW u \in Int, NEW v \in Int, u <= v, NEW a \in Nat \ {0} PROVE u \div a <= v \div a
OBVIOUS

LEMMA QuotientFalls ==
    ASSUME NEW u \in Nat, NEW a \in Nat \ {0}, NEW b \in Nat, a <= b PROVE u \div b <= u \div a /\ u \div b \in Nat
<1>1. PICK x, y : x = u \div a /\ y = u \div b
  OBVIOUS
<1>2. x \in Nat /\ y \in Nat /\ a * x <= u /\ u < a * (x + 1) /\ b * y <= u /\ u < b * (y + 1)
  BY ONLY <1>1, u \in Nat, a \in Nat \ {0}, b \in Nat, a <= b
<1>3. x < y => FALSE
  <2>1. SUFFICES ASSUME x < y PROVE FALSE
    OBVIOUS
  <2>2. x + 1 \in Nat /\ x + 1 <= y
    BY <1>2, <2>1
  <2>3. a * (x + 1) <= a * y
    BY <1>2, <2>2, Times
  <2>4. y * a <= y * b
    BY <1>2, Times
  <2>5. PICK p, q, s : p = a * (x + 1) /\ q = a * y /\ s = b * y /\ p \in Int /\ q \in Int /\ s \in Int
    BY <1>2
  <2>6. y * a = a * y /\ y * b = b * y
    BY <1>2
  <2>7. p <= q /\ q <= s /\ s <= u /\ u < p
    BY ONLY <1>2, <2>3, <2>4, <2>5, <2>6
  <2>8. QED
    BY ONLY <2>5, <2>7, u \in Nat
<1>4. QED
  BY ONLY <1>1, <1>2, <1>3

Least(r) == r[Len(r)].score
Greatest(r) == r[1].score
\* A ranking's first score is its greatest, its last the least.
LEMMA ScoresAre ==
    ASSUME NEW r, IsRanking(r), r # <<>>
    PROVE  /\ Len(r) \in Nat \ {0} /\ DOMAIN r = 1 .. Len(r)
           /\ Max(Scores(r)) = Greatest(r) /\ Min(Scores(r)) = Least(r) /\ Greatest(r) \in Int /\ Least(r) \in Int
           /\ \A i \in 1 .. Len(r) : r[i].score \in Int /\ Least(r) <= r[i].score /\ r[i].score <= Greatest(r)
<1>1. PICK n \in Nat : n = Len(r) /\ DOMAIN r = 1 .. n /\ IsSeq(r)
  BY SeqIs DEF IsRanking, IsSeq
<1>2. n # 0
  BY <1>1 DEF IsSeq
<1>3. \A i \in 1 .. n : r[i].score \in Int
  BY ONLY IsRanking(r), <1>1 DEF IsRanking
<1>4. ASSUME NEW i \in 1 .. n, NEW j \in 1 .. n, i <= j PROVE r[j].score <= r[i].score
  <2>1. CASE i = j
    BY <1>3, <2>1
  <2>2. CASE i # j
    <3>1. i < j
      BY <1>4, <2>2
    <3>2. Ahead(r[i].score, r[j].score, r[i].doc < r[j].doc)
      BY ONLY <3>1, <1>1, i \in 1 .. n, j \in 1 .. n, IsRanking(r) DEF IsRanking
    <3>3. PICK x, y : x = r[i].score /\ y = r[j].score /\ x \in Int /\ y \in Int
      BY <1>3
    <3>4. x > y \/ x = y
      BY ONLY <3>2, <3>3 DEF Ahead
    <3>5. QED
      BY ONLY <3>3, <3>4
  <2>3. QED
    BY <2>1, <2>2
<1>5. Scores(r) = {r[i].score : i \in 1 .. n}
  BY ONLY <1>1 DEF Scores
<1>6. 1 \in 1 .. n /\ n \in 1 .. n
  BY <1>2
<1>7. PICK g, l : g = Greatest(r) /\ l = Least(r)
  OBVIOUS
<1>8. g = r[1].score /\ l = r[n].score
  BY <1>1, <1>7 DEF Greatest, Least
<1>9. /\ g \in Int /\ l \in Int /\ g \in Scores(r) /\ l \in Scores(r)
      /\ \A x \in Scores(r) : x \in Int /\ l <= x /\ x <= g
  <2>1. ASSUME NEW x \in Scores(r) PROVE x \in Int /\ l <= x /\ x <= g
    <3>1. PICK i \in 1 .. n : x = r[i].score
      BY <1>5
    <3>2. 1 <= i /\ i <= n
      OBVIOUS
    <3>3. QED
      BY <1>3, <1>4, <1>6, <1>8, <3>1, <3>2
  <2>2. QED
    BY <1>3, <1>5, <1>6, <1>8, <2>1
<1>10. Max(Scores(r)) = g
  <2>1. PICK S : S = Scores(r)
    OBVIOUS
  <2>2. \A x \in S : x >= g => x = g
    BY ONLY <1>9, <2>1
  <2>3. g \in S /\ \A x \in S : g >= x
    BY ONLY <1>9, <2>1
  <2>4. Max(S) = g
    BY ONLY <2>2, <2>3 DEF Max
  <2>5. QED
    BY ONLY <2>1, <2>4
<1>11. Min(Scores(r)) = l
  <2>1. PICK S : S = Scores(r)
    OBVIOUS
  <2>2. \A x \in S : x <= l => x = l
    BY ONLY <1>9, <2>1
  <2>3. l \in S /\ \A x \in S : l <= x
    BY ONLY <1>9, <2>1
  <2>4. Min(S) = l
    BY ONLY <2>2, <2>3 DEF Min
  <2>5. QED
    BY ONLY <2>1, <2>4
<1>12. \A i \in 1 .. n : r[i].score \in Int /\ l <= r[i].score /\ r[i].score <= g
  BY <1>5, <1>9
<1>13. QED
  BY ONLY <1>1, <1>2, <1>7, <1>9, <1>10, <1>11, <1>12

\* Normalised scores are numbers, in the order of the scores.
LEMMA NormaliseIs ==
    ASSUME NEW r, IsRanking(r), r # <<>>
    PROVE  /\ \A i \in 1 .. Len(r) : normalise(r, r[i].score) \in Int
           /\ normalise(r, Least(r)) \in Int
           /\ \A i, j \in 1 .. Len(r) :
                 r[i].score <= r[j].score => normalise(r, r[i].score) <= normalise(r, r[j].score)
<1>1. PICK n, g, l : n = Len(r) /\ g = Greatest(r) /\ l = Least(r)
  OBVIOUS
<1>2. /\ n \in Nat \ {0} /\ g \in Int /\ l \in Int /\ Max(Scores(r)) = g /\ Min(Scores(r)) = l
      /\ \A i \in 1 .. n : r[i].score \in Int /\ l <= r[i].score /\ r[i].score <= g
  BY ONLY <1>1, ScoresAre, IsRanking(r), r # <<>>
<1>3. Unit \in Nat /\ Unit \in Int
  BY UnitAssumption
<1>4. \A x : normalise(r, x) = IF g = l THEN Unit ELSE (Unit * (x - l)) \div (g - l)
  BY ONLY <1>2, Zenon DEF normalise
<1>5. n \in 1 .. n /\ r[n].score = l
  BY <1>1, <1>2 DEF Least
<1>6. l <= g
  BY <1>2, <1>5
<1>7. ASSUME NEW x \in Int, NEW y \in Int, x <= y
      PROVE  normalise(r, x) \in Int /\ normalise(r, x) <= normalise(r, y)
  <2>1. CASE g = l
    BY <1>3, <1>4, <2>1
  <2>2. CASE g # l
    <3>1. PICK h \in Nat \ {0} : h = g - l
      BY <1>2, <1>6, <2>2
    <3>2. PICK v \in Int, w \in Int : v = x - l /\ w = y - l /\ v <= w
      BY <1>2, <1>7
    <3>3. Unit * v <= Unit * w
      BY <1>3, <3>2, Times
    <3>4. PICK a \in Int, b \in Int : a = Unit * v /\ b = Unit * w /\ a <= b
      BY <1>3, <3>3
    <3>5. a \div h \in Int /\ a \div h <= b \div h
      BY QuotientIs, QuotientGrows, <3>4
    <3>6. normalise(r, x) = a \div h /\ normalise(r, y) = b \div h
      BY <1>4, <2>2, <3>1, <3>2, <3>4
    <3>7. QED
      BY <3>5, <3>6
  <2>3. QED
    BY <2>1, <2>2
<1>8. \A x \in Int : normalise(r, x) \in Int
  <2>1. ASSUME NEW x \in Int PROVE normalise(r, x) \in Int
    <3>1. x <= x
      OBVIOUS
    <3>2. QED
      BY <1>7, <3>1
  <2>2. QED
    BY <2>1
<1>9. QED
  BY ONLY <1>1, <1>2, <1>7, <1>8

\* What a list gives a document, in either fusion, is a number.
LEMMA NormalIs ==
    ASSUME NEW r, IsRanking(r), NEW d PROVE Normal(r, d) \in Int
<1>1. OnceRanked(r)
  BY RankingIsOnce, OnceIs
<1>2. CASE r = <<>>
  <2>1. d \notin Docs(r)
    BY <1>2 DEF Docs
  <2>2. QED
    BY <1>2, <2>1 DEF Normal, Floor
<1>3. CASE r # <<>>
  <2>1. Floor(r) = normalise(r, Least(r))
    BY <1>3, ScoresAre DEF Floor
  <2>2. Floor(r) \in Int
    BY <1>3, <2>1, NormaliseIs
  <2>3. CASE d \in Docs(r)
    <3>1. PICK i \in 1 .. Len(r) : i = RankOf(r, d)
      BY <1>1, <2>3 DEF OnceRanked
    <3>2. Normal(r, d) = normalise(r, r[i].score)
      BY <2>3, <3>1 DEF Normal
    <3>3. QED
      BY <1>3, <3>2, NormaliseIs
  <2>4. CASE d \notin Docs(r)
    BY <2>2, <2>4 DEF Normal
  <2>5. QED
    BY <2>3, <2>4
<1>4. QED
  BY <1>2, <1>3

Smooth(k) == k \in Nat /\ \A a \in 1 .. DEPTH : Unit \div (k + a) > Unit \div (k + a + 1)
LEMMA ShareIs ==
    ASSUME NEW r, IsRanking(r), NEW k \in Nat, NEW d PROVE Share(r, k, d) \in Nat
<1>1. OnceRanked(r)
  BY RankingIsOnce, OnceIs
<1>2. CASE d \in Docs(r)
  <2>1. PICK i : i = RankOf(r, d) /\ i \in 1 .. Len(r)
    BY <1>1, <1>2 DEF OnceRanked
  <2>2. i \in Nat \ {0}
    BY <1>1, <2>1 DEF OnceRanked
  <2>3. PICK a \in Nat \ {0} : a = k + i
    BY <2>2
  <2>4. Unit \div a \in Nat
    <3>1. Unit \in Nat /\ a <= a /\ a \in Nat
      BY UnitAssumption
    <3>2. QED
      BY ONLY <3>1, a \in Nat \ {0}, QuotientFalls
  <2>5. QED
    BY <1>2, <2>1, <2>3, <2>4 DEF Share
<1>3. CASE d \notin Docs(r)
  BY <1>3 DEF Share
<1>4. QED
  BY <1>2, <1>3

\* What a list has above, it gives a greater share.
LEMMA ShareFalls ==
    ASSUME NEW r, IsRanking(r), Len(r) <= DEPTH, NEW k, Smooth(k), NEW d, NEW e, Above(r, d, e)
    PROVE  Share(r, k, d) > Share(r, k, e)
<1>1. OnceRanked(r)
  BY RankingIsOnce, OnceIs
<1>2. k \in Nat /\ DEPTH \in Nat /\ Unit \in Nat /\ d \in Docs(r) /\ Normal(r, d) > Normal(r, e)
  BY GridAssumption, UnitAssumption DEF Smooth, Above
<1>3. PICK n, i : n = Len(r) /\ i = RankOf(r, d) /\ n \in Nat /\ i \in 1 .. n /\ n <= DEPTH /\ r[i].doc = d
  BY ONLY <1>1, <1>2, Len(r) <= DEPTH DEF OnceRanked
<1>4. Share(r, k, d) = Unit \div (k + i)
  BY <1>2, <1>3 DEF Share
<1>5. PICK a \in Nat \ {0} : a = k + i /\ i \in 1 .. DEPTH
  BY <1>2, <1>3
<1>6. PICK s : s = Unit \div (a + 1)
  OBVIOUS
<1>7. Unit \div a > s
  <2>1. Unit \div (k + i) > Unit \div (k + i + 1)
    BY ONLY <1>5, Smooth(k) DEF Smooth
  <2>2. QED
    BY ONLY <1>5, <1>6, <2>1
<1>8. Unit \div a \in Nat /\ s \in Nat
  <2>1. a <= a + 1 /\ a + 1 \in Nat /\ a <= a /\ a \in Nat
    BY ONLY a \in Nat \ {0}
  <2>2. QED
    BY ONLY <1>2, <1>6, <2>1, a \in Nat \ {0}, QuotientFalls
<1>9. CASE e \notin Docs(r)
  <2>1. Share(r, k, e) = 0
    BY <1>9 DEF Share
  <2>2. QED
    BY ONLY <1>4, <1>5, <1>7, <1>8, <2>1
<1>10. CASE e \in Docs(r)
  <2>1. PICK j : j = RankOf(r, e) /\ j \in 1 .. n /\ r[j].doc = e
    BY ONLY <1>1, <1>3, <1>10 DEF OnceRanked
  <2>2. Share(r, k, e) = Unit \div (k + j)
    BY ONLY <1>10, <2>1 DEF Share
  <2>3. r # <<>> /\ DOMAIN r = 1 .. n
    <3>1. r # <<>>
      BY <1>2 DEF Docs
    <3>2. QED
      BY <3>1, <1>1, <1>3 DEF OnceRanked
  <2>4. Normal(r, d) = normalise(r, r[i].score) /\ Normal(r, e) = normalise(r, r[j].score)
    BY ONLY <1>2, <1>3, <1>10, <2>1 DEF Normal
  <2>5. /\ r[i].score \in Int /\ r[j].score \in Int
        /\ normalise(r, r[i].score) \in Int /\ normalise(r, r[j].score) \in Int
        /\ r[i].score <= r[j].score => normalise(r, r[i].score) <= normalise(r, r[j].score)
    BY ONLY <1>3, <2>1, <2>3, NormaliseIs, ScoresAre, IsRanking(r)
  <2>6. ~(r[i].score <= r[j].score)
    BY ONLY <1>2, <2>4, <2>5
  <2>7. i # j
    BY ONLY <2>5, <2>6
  <2>8. ~(j < i)
    <3>1. SUFFICES ASSUME j < i PROVE FALSE
      OBVIOUS
    <3>2. Ahead(r[j].score, r[i].score, r[j].doc < r[i].doc)
      BY ONLY <3>1, <1>3, <2>1, <2>3, IsRanking(r) DEF IsRanking
    <3>3. QED
      BY ONLY <2>5, <2>6, <3>2 DEF Ahead
  <2>9. PICK b \in Nat \ {0} : b = k + j /\ a + 1 <= b
    BY ONLY <1>2, <1>3, <1>5, <2>1, <2>7, <2>8
  <2>10. Unit \div b <= s /\ Unit \div b \in Nat
    <3>1. a + 1 \in Nat \ {0} /\ b \in Nat
      BY ONLY a \in Nat \ {0}, b \in Nat \ {0}
    <3>2. QED
      BY ONLY <1>2, <1>6, <2>9, <3>1, QuotientFalls
  <2>11. QED
    BY ONLY <1>4, <1>5, <1>7, <1>8, <2>2, <2>9, <2>10
<1>11. QED
  BY <1>9, <1>10

-----------------------------------------------------------------------------
(* The sort of fused scores, by their dictionary or by rows. *)
WithScores(s, f) == [i \in 1 .. Len(s) |-> [doc |-> s[i], score |-> f[s[i]]]]

LEMMA SortFusedIs == ASSUME NEW f, NEW k PROVE sort_fused(f, k) = Top(WithScores(Sorted(f), f), k)
<1>1. Sorted(f) = Ordered(DOMAIN f, LAMBDA d, e : Ahead(f[d], f[e], d < e))
  BY Zenon DEF Sorted
<1>2. QED
  BY Zenon, <1>1 DEF sort_fused, WithScores

LEMMA WithScoresIs ==
    ASSUME NEW s, IsSeq(s), NEW f
    PROVE  /\ IsSeq(WithScores(s, f)) /\ Len(WithScores(s, f)) = Len(s)
           /\ \A i \in 1 .. Len(s) : WithScores(s, f)[i] = [doc |-> s[i], score |-> f[s[i]]]
<1>1. PICK n \in Nat : n = Len(s)
  BY SeqIs
<1>2. PICK w : w = WithScores(s, f)
  OBVIOUS
<1>3. w = [i \in 1 .. n |-> [doc |-> s[i], score |-> f[s[i]]]]
  BY ONLY <1>1, <1>2 DEF WithScores
<1>4. w = [i \in 1 .. n |-> w[i]] /\ \A i \in 1 .. n : w[i] = [doc |-> s[i], score |-> f[s[i]]]
  BY ONLY <1>3
<1>5. IsSeq(w) /\ Len(w) = n
  BY ONLY <1>1, <1>4, FunctionIsSeq
<1>6. QED
  BY ONLY <1>1, <1>2, <1>4, <1>5

FusedFrom(r, f, k) ==
    /\ Once(r) /\ Order(r) = Top(Sorted(f), k) /\ IsInjective(Order(r)) /\ IsSeq(Order(r)) /\ Docs(r) \subseteq DOMAIN f
    /\ \A i \in DOMAIN r : r[i].score = f[r[i].doc]

\* The sort lists the first of the documents by score, each once, with its score.
LEMMA FusedIs ==
    ASSUME NEW f, Numbered(DOMAIN f, f), NEW k \in Nat PROVE FusedFrom(sort_fused(f, k), f, k)
<1>1. PICK s, R : s = Sorted(f) /\ R = ByScore(DOMAIN f, f, Less)
  OBVIOUS
<1>2. Listing(DOMAIN f, R, s) /\ TotalOrder(DOMAIN f, R)
  BY <1>1, SortedLists, ScoresAreTotal
<1>3. IsSeq(s) /\ IsInjective(s) /\ Range(s) = DOMAIN f
  BY ONLY <1>2, ListingIsInjective DEF Listing
<1>4. PICK n \in Nat : n = Len(s) /\ DOMAIN s = 1 .. n
  BY <1>3, SeqIs
<1>5. PICK w : w = WithScores(s, f)
  OBVIOUS
<1>6. IsSeq(w) /\ Len(w) = n /\ \A i \in 1 .. n : w[i] = [doc |-> s[i], score |-> f[s[i]]]
  BY ONLY <1>3, <1>4, <1>5, WithScoresIs
<1>7. PICK l, r, t : r = sort_fused(f, k) /\ t = Top(s, k) /\ l = IF k <= n THEN k ELSE n
  OBVIOUS
<1>8. Begins(r, w, l) /\ Begins(t, s, l)
  <2>1. r = Top(w, k)
    BY <1>1, <1>5, <1>7, SortFusedIs
  <2>2. QED
    BY ONLY <1>3, <1>4, <1>6, <1>7, <2>1, TopBegins, k \in Nat
<1>9. /\ IsSeq(r) /\ Len(r) = l /\ DOMAIN r = 1 .. l /\ l \in Nat /\ l <= n /\ IsSeq(t) /\ DOMAIN t = 1 .. l
      /\ t = [i \in 1 .. l |-> t[i]]
      /\ \A i \in 1 .. l : i \in 1 .. n /\ r[i] = [doc |-> s[i], score |-> f[s[i]]] /\ t[i] = s[i]
  <2>1. /\ IsSeq(r) /\ Len(r) = l /\ DOMAIN r = 1 .. l /\ l \in Nat /\ l <= n /\ IsSeq(t) /\ DOMAIN t = 1 .. l /\ Len(t) = l
        /\ \A i \in 1 .. l : r[i] = w[i] /\ t[i] = s[i]
    BY ONLY <1>4, <1>6, <1>8 DEF Begins
  <2>2. \A i \in 1 .. l : i \in 1 .. n
    BY <2>1
  <2>3. t = [i \in 1 .. l |-> t[i]]
    BY ONLY <2>1, SeqIs
  <2>4. QED
    BY ONLY <1>6, <2>1, <2>2, <2>3
<1>10. \A i \in 1 .. l : r[i].doc = t[i] /\ r[i].score = f[t[i]] /\ t[i] \in DOMAIN f /\ s[i] \in DOMAIN f /\ t[i] = s[i]
  <2>1. \A i \in 1 .. n : s[i] \in DOMAIN f
    BY <1>3, <1>4 DEF Range
  <2>2. QED
    BY <1>9, <2>1
<1>11. IsInjective(t)
  <2>1. ASSUME NEW i \in 1 .. l, NEW j \in 1 .. l, t[i] = t[j] PROVE i = j
    <3>1. s[i] = s[j] /\ i \in DOMAIN s /\ j \in DOMAIN s
      BY <1>4, <1>9, <2>1
    <3>2. QED
      BY ONLY <1>3, <3>1 DEF IsInjective
  <2>2. QED
    BY <1>9, <2>1 DEF IsInjective
<1>12. Order(r) = t
  BY ONLY <1>9, <1>10 DEF Order
<1>13. \A d \in DOMAIN f : d \in Nat /\ f[d] \in Int
  BY DEF Numbered
<1>14. Once(r)
  BY ONLY <1>9, <1>10, <1>11, <1>13 DEF Once, IsInjective
<1>15. Docs(r) \subseteq DOMAIN f
  BY ONLY <1>9, <1>10 DEF Docs
<1>16. QED
  BY ONLY <1>1, <1>7, <1>9, <1>10, <1>11, <1>12, <1>14, <1>15 DEF FusedFrom

\* The rows of the documents, in id order, sort as the documents do.
LEMMA RowsSortAlike ==
    ASSUME NEW f, Numbered(DOMAIN f, f), NEW qc, qc.docs = InOrder(DOMAIN f), NEW n, n = Len(qc.docs),
           NEW score, score = [i \in 1 .. n |-> f[qc.docs[i]]], NEW k
    PROVE  StableByScore(qc, score, k) = sort_fused(f, k)
<1>1. PICK D, docs : D = DOMAIN f /\ docs = qc.docs
  OBVIOUS
<1>2. IsFiniteSet(D) /\ D \subseteq Nat /\ \A d \in D : d \in Nat /\ f[d] \in Int
  BY <1>1 DEF Numbered
<1>3. Listing(D, Less, docs) /\ TotalOrder(D, Less) /\ \A x, y \in D : <<x, y>> \in Less <=> x < y
  BY ONLY <1>1, <1>2, NumbersAreListed, LessIsTotal, qc.docs = InOrder(DOMAIN f)
<1>4. IsSeq(docs) /\ IsInjective(docs) /\ Range(docs) = D /\ Len(docs) = Cardinality(D)
  BY ONLY <1>3, ListingIsInjective DEF Listing
<1>5. n \in Nat /\ DOMAIN docs = 1 .. n /\ n = Len(docs)
  BY <1>1, <1>4, SeqIs
<1>6. \A i \in 1 .. n : docs[i] \in D
  BY <1>4, <1>5 DEF Range
<1>7. \A i, j \in 1 .. n : i < j <=> docs[i] < docs[j]
  <2>1. ASSUME NEW i \in 1 .. n, NEW j \in 1 .. n, i < j PROVE docs[i] < docs[j]
    <3>1. <<docs[i], docs[j]>> \in Less
      BY ONLY <1>3, <1>5, <2>1 DEF Listing
    <3>2. QED
      BY <1>3, <1>6, <3>1
  <2>2. ASSUME NEW i \in 1 .. n, NEW j \in 1 .. n, docs[i] < docs[j] PROVE i < j
    <3>1. <<docs[i], docs[j]>> \in Less
      BY <1>3, <1>6, <2>2
    <3>2. QED
      BY ONLY <1>3, <1>5, <3>1, ListingIsInjective, i \in 1 .. n, j \in 1 .. n
  <2>3. QED
    BY <2>1, <2>2
<1>8. \A i \in 1 .. n : score[i] = f[docs[i]]
  BY <1>1
<1>9. Numbered(1 .. n, score)
  <2>1. 1 \in Int /\ n \in Int
    BY <1>5
  <2>2. IsFiniteSet(1 .. n)
    BY ONLY <2>1, FS_Interval
  <2>3. 1 .. n \subseteq Nat
    OBVIOUS
  <2>4. QED
    BY <1>2, <1>6, <1>8, <2>2, <2>3 DEF Numbered
<1>10. PICK idx, R : idx = ByScoreThenRow(score, 1 .. n) /\ R = ByScore(1 .. n, score, Less)
  OBVIOUS
<1>11. Listing(1 .. n, R, idx)
  BY ONLY <1>9, <1>10, RowsAreListed
<1>12. /\ IsSeq(idx) /\ IsInjective(idx) /\ Range(idx) = 1 .. n /\ Len(idx) = n /\ DOMAIN idx = 1 .. n
       /\ \A i \in 1 .. n : idx[i] \in 1 .. n
  <2>1. TotalOrder(1 .. n, R)
    BY ONLY <1>9, <1>10, ScoresAreTotal
  <2>2. IsSeq(idx) /\ IsInjective(idx) /\ Range(idx) = 1 .. n /\ Len(idx) = Cardinality(1 .. n)
    BY ONLY <1>11, <2>1, ListingIsInjective DEF Listing
  <2>3. Cardinality(1 .. n) = n
    BY ONLY <1>1, <1>4, <1>5, NoRepetitions, FS_Interval, <1>9, <2>2
  <2>4. DOMAIN idx = 1 .. n
    BY ONLY <2>2, <2>3, SeqIs
  <2>5. QED
    BY ONLY <2>2, <2>3, <2>4 DEF Range
<1> DEFINE s == [i \in 1 .. n |-> docs[idx[i]]]
<1>13. IsSeq(s) /\ Len(s) = n /\ DOMAIN s = 1 .. n /\ \A i \in 1 .. n : s[i] = docs[idx[i]]
  <2>1. s = [i \in 1 .. n |-> s[i]] /\ DOMAIN s = 1 .. n /\ \A i \in 1 .. n : s[i] = docs[idx[i]]
    OBVIOUS
  <2> HIDE DEF s
  <2>2. QED
    BY ONLY <1>5, <2>1, FunctionIsSeq
<1> HIDE DEF s
<1>14. Listing(D, ByScore(D, f, Less), s)
  <2>1. Range(s) = D
    <3>1. ASSUME NEW d \in D PROVE \E i \in 1 .. n : s[i] = d
      <4>1. PICK j \in 1 .. n : docs[j] = d
        BY <1>4, <1>5 DEF Range
      <4>2. PICK i \in 1 .. n : idx[i] = j
        BY <1>12 DEF Range
      <4>3. QED
        BY <1>13, <4>1, <4>2
    <3>2. \A i \in 1 .. n : s[i] \in D
      BY <1>6, <1>12, <1>13
    <3>3. QED
      BY ONLY <1>13, <3>1, <3>2 DEF Range
  <2>2. ASSUME NEW i \in 1 .. n, NEW j \in 1 .. n, i < j
        PROVE  <<s[i], s[j]>> \in ByScore(D, f, Less)
    <3>1. PICK a \in 1 .. n, b \in 1 .. n : a = idx[i] /\ b = idx[j]
      BY <1>12
    <3>2. <<a, b>> \in R
      BY ONLY <1>11, <1>12, <2>2, <3>1 DEF Listing
    <3>3. score[a] > score[b] \/ (score[a] = score[b] /\ <<a, b>> \in Less)
      BY ONLY <1>10, <3>2, ByScoreIs, a \in 1 .. n, b \in 1 .. n
    <3>4. <<a, b>> \in Less => a < b
      BY DEF Less
    <3>5. PICK x, y : x = docs[a] /\ y = docs[b] /\ x \in D /\ y \in D
      BY <1>6
    <3>6. a < b => <<x, y>> \in Less
      BY <1>3, <1>7, <3>5
    <3>7. f[x] > f[y] \/ (f[x] = f[y] /\ <<x, y>> \in Less)
      BY ONLY <1>8, <3>3, <3>4, <3>5, <3>6, a \in 1 .. n, b \in 1 .. n
    <3>8. <<x, y>> \in ByScore(D, f, Less)
      BY ONLY <3>5, <3>7, ByScoreIs
    <3>9. QED
      BY <1>13, <3>1, <3>5, <3>8
  <2>3. QED
    BY ONLY <1>4, <1>5, <1>13, <2>1, <2>2 DEF Listing
<1>15. s = Sorted(f)
  <2>1. TotalOrder(D, ByScore(D, f, Less)) /\ Listing(D, ByScore(D, f, Less), Sorted(f))
    BY <1>1, ScoresAreTotal, SortedLists
  <2>2. QED
    BY ONLY <1>14, <2>1, OneListing
<1> DEFINE u == [i \in 1 .. Len(idx) |-> [doc |-> qc.docs[idx[i]], score |-> score[idx[i]]]]
<1>16. StableByScore(qc, score, k) = Top(u, k)
  <2>1. idx = Ordered(1 .. Len(qc.docs), LAMBDA i, j : Ahead(score[i], score[j], i < j))
    <3>1. idx = ByScoreThenRow(score, 1 .. Len(qc.docs))
      BY <1>10
    <3>2. QED
      BY Zenon, <3>1 DEF ByScoreThenRow
  <2>2. QED
    BY Zenon, <2>1 DEF StableByScore
<1>17. u = WithScores(Sorted(f), f)
  <2>1. u = [i \in 1 .. n |-> [doc |-> s[i], score |-> f[s[i]]]]
    <3>1. \A i \in 1 .. n : qc.docs[idx[i]] = s[i] /\ score[idx[i]] = f[s[i]]
      BY <1>1, <1>8, <1>12, <1>13
    <3>2. QED
      BY ONLY <1>12, <3>1
  <2> HIDE DEF u
  <2>2. WithScores(s, f) = [i \in 1 .. n |-> [doc |-> s[i], score |-> f[s[i]]]]
    BY ONLY <1>13 DEF WithScores
  <2>3. QED
    BY <1>15, <2>1, <2>2
<1> HIDE DEF u
<1>18. QED
  BY <1>16, <1>17, SortFusedIs

Pooled(lex, dense) == Docs(truncate(lex)) \cup Docs(truncate(dense))
Shares(lex, dense, k) ==
    [d \in Pooled(lex, dense) |-> Share(truncate(lex), k, d) + Share(truncate(dense), k, d)]

Weights(lex, dense, alpha) ==
    [d \in Pooled(lex, dense) |-> (10 - alpha) * Normal(truncate(lex), d) + alpha * Normal(truncate(dense), d)]

FusedScores(c, lex, dense) == IF c.kind = "rrf" THEN Shares(lex, dense, c.p) ELSE Weights(lex, dense, c.p)
IsConfig(c) == c.p \in Nat /\ (c.kind = "rrf" \/ (c.kind = "wsum" /\ c.p \in 0 .. 10))

LEMMA PooledIs ==
    ASSUME NEW lex, IsRanking(lex), NEW dense, IsRanking(dense)
    PROVE  /\ IsFiniteSet(Pooled(lex, dense)) /\ Pooled(lex, dense) \subseteq Nat
           /\ Cardinality(Pooled(lex, dense)) <= 2 * DEPTH
<1>1. PICK A, B : A = Docs(truncate(lex)) /\ B = Docs(truncate(dense))
  OBVIOUS
<1>2. ASSUME NEW r, IsRanking(r)
      PROVE  /\ IsFiniteSet(Docs(truncate(r))) /\ Docs(truncate(r)) \subseteq Nat
             /\ Cardinality(Docs(truncate(r))) \in Nat /\ Cardinality(Docs(truncate(r))) <= DEPTH
  <2>1. IsRanking(truncate(r)) /\ Len(truncate(r)) \in Nat /\ Len(truncate(r)) <= DEPTH
    BY <1>2, TruncatedIs
  <2>2. OnceRanked(truncate(r))
    BY ONLY <2>1, RankingIsOnce, OnceIs
  <2>3. QED
    BY ONLY <2>1, <2>2 DEF OnceRanked
<1>3. PICK a, b : a = Cardinality(A) /\ b = Cardinality(B)
  OBVIOUS
<1>4. IsFiniteSet(A) /\ IsFiniteSet(B) /\ A \subseteq Nat /\ B \subseteq Nat /\ a \in Nat /\ b \in Nat /\ a <= DEPTH /\ b <= DEPTH
  BY ONLY <1>1, <1>2, <1>3, IsRanking(lex), IsRanking(dense)
<1>5. IsFiniteSet(A \cup B) /\ Cardinality(A \cup B) = a + b - Cardinality(A \cap B) /\ Cardinality(A \cap B) \in Nat
  <2>1. IsFiniteSet(A \cap B)
    BY ONLY <1>4, FS_Intersection
  <2>2. QED
    BY ONLY <1>3, <1>4, <2>1, FS_Union, FS_CardinalityType
<1>6. DEPTH \in Nat
  BY GridAssumption
<1>7. PICK u, i : u = Cardinality(A \cup B) /\ i = Cardinality(A \cap B)
  OBVIOUS
<1>8. u <= 2 * DEPTH
  BY ONLY <1>4, <1>5, <1>6, <1>7
<1>9. QED
  BY ONLY <1>1, <1>4, <1>5, <1>7, <1>8 DEF Pooled

\* Every fused score is a number.
LEMMA FusedScoresAre ==
    ASSUME NEW lex, IsRanking(lex), NEW dense, IsRanking(dense), NEW c, IsConfig(c), NEW f, f = FusedScores(c, lex, dense)
    PROVE  Numbered(DOMAIN f, f) /\ DOMAIN f = Pooled(lex, dense)
<1>1. IsRanking(truncate(lex)) /\ IsRanking(truncate(dense))
  BY TruncatedIs
<1>2. IsFiniteSet(Pooled(lex, dense)) /\ Pooled(lex, dense) \subseteq Nat
  BY PooledIs
<1>3. CASE c.kind = "rrf"
  <2>1. f = Shares(lex, dense, c.p) /\ c.p \in Nat
    BY ONLY <1>3, IsConfig(c), f = FusedScores(c, lex, dense) DEF FusedScores, IsConfig
  <2>2. ASSUME NEW d PROVE Share(truncate(lex), c.p, d) + Share(truncate(dense), c.p, d) \in Int
    <3>1. PICK a \in Nat, b \in Nat : a = Share(truncate(lex), c.p, d) /\ b = Share(truncate(dense), c.p, d)
      BY <1>1, <2>1, ShareIs
    <3>2. QED
      BY <3>1
  <2>3. QED
    BY ONLY <1>2, <2>1, <2>2 DEF Shares, Numbered
<1>4. CASE c.kind # "rrf"
  <2>1. f = Weights(lex, dense, c.p) /\ c.p \in 0 .. 10
    BY ONLY <1>4, IsConfig(c), f = FusedScores(c, lex, dense) DEF FusedScores, IsConfig
  <2>2. ASSUME NEW d PROVE (10 - c.p) * Normal(truncate(lex), d) + c.p * Normal(truncate(dense), d) \in Int
    <3>1. PICK a \in Int, b \in Int : a = Normal(truncate(lex), d) /\ b = Normal(truncate(dense), d)
      BY <1>1, NormalIs
    <3>2. PICK p : p = c.p /\ p \in Int
      BY <2>1
    <3>3. (10 - p) * a \in Int /\ p * b \in Int
      BY ONLY <3>2, a \in Int, b \in Int
    <3>4. QED
      BY <3>1, <3>2, <3>3
  <2>3. QED
    BY ONLY <1>2, <2>1, <2>2 DEF Weights, Numbered
<1>5. QED
  BY <1>3, <1>4

\* The rows of the vectorised form, by document.
RowShare(rank, k) == IF rank = 0 THEN 0 ELSE Unit \div (k + rank)
RowRank(r, d) == IF d \in Docs(r) THEN RankOf(r, d) ELSE 0
PreparedFor(qc, lex, dense, n) ==
    /\ qc.docs = InOrder(Pooled(lex, dense)) /\ n = Len(qc.docs)
    /\ \A i \in 1 .. n : /\ qc.lexRank[i] = RowRank(truncate(lex), qc.docs[i])
                         /\ qc.denseRank[i] = RowRank(truncate(dense), qc.docs[i])
                         /\ qc.lexNorm[i] = Normal(truncate(lex), qc.docs[i])
                         /\ qc.denseNorm[i] = Normal(truncate(dense), qc.docs[i])

LEMMA PrepareIs ==
    ASSUME NEW lex, NEW dense, NEW qc, qc = prepare(lex, dense)
    PROVE  PreparedFor(qc, lex, dense, Len(qc.docs))
<1>1. PICK docs, n, tl, td : docs = InOrder(Pooled(lex, dense)) /\ n = Len(docs) /\ tl = truncate(lex) /\ td = truncate(dense)
  OBVIOUS
<1>2. docs = Ordered(Docs(truncate(lex)) \cup Docs(truncate(dense)), <)
  BY Zenon, <1>1 DEF InOrder, Pooled
<1>3. qc = [docs |-> docs,
            lexRank |-> [i \in 1 .. Len(docs) |-> IF docs[i] \in Docs(truncate(lex)) THEN RankOf(truncate(lex), docs[i]) ELSE 0],
            denseRank |-> [i \in 1 .. Len(docs) |-> IF docs[i] \in Docs(truncate(dense)) THEN RankOf(truncate(dense), docs[i]) ELSE 0],
            lexNorm |-> [i \in 1 .. Len(docs) |-> Normal(truncate(lex), docs[i])],
            denseNorm |-> [i \in 1 .. Len(docs) |-> Normal(truncate(dense), docs[i])]]
  BY Zenon, <1>2 DEF prepare
<1>4. /\ qc.docs = docs
      /\ \A i \in 1 .. n : /\ qc.lexRank[i] = IF docs[i] \in Docs(tl) THEN RankOf(tl, docs[i]) ELSE 0
                           /\ qc.denseRank[i] = IF docs[i] \in Docs(td) THEN RankOf(td, docs[i]) ELSE 0
                           /\ qc.lexNorm[i] = Normal(tl, docs[i])
                           /\ qc.denseNorm[i] = Normal(td, docs[i])
  BY ONLY <1>1, <1>3
<1>5. QED
  BY ONLY <1>1, <1>4 DEF PreparedFor, RowRank

LEMMA RowShareIs ==
    ASSUME NEW r, IsRanking(r), NEW k, NEW d PROVE RowShare(RowRank(r, d), k) = Share(r, k, d)
<1>1. OnceRanked(r)
  BY RankingIsOnce, OnceIs
<1>2. CASE d \in Docs(r)
  <2>1. PICK i : i = RankOf(r, d) /\ i \in 1 .. Len(r)
    BY <1>1, <1>2 DEF OnceRanked
  <2>2. i # 0
    BY <2>1
  <2>3. QED
    BY ONLY <1>2, <2>1, <2>2 DEF RowShare, RowRank, Share
<1>3. CASE d \notin Docs(r)
  BY ONLY <1>3 DEF RowShare, RowRank, Share
<1>4. QED
  BY <1>2, <1>3

\* The vectorised fusion is the reference fusion (check_fast_vs_reference).
LEMMA FastIsReference ==
    ASSUME NEW lex, IsRanking(lex), NEW dense, IsRanking(dense), NEW c, IsConfig(c), NEW k
    PROVE  FastFused(c, prepare(lex, dense), k) = sort_fused(FusedScores(c, lex, dense), k)
<1>1. PICK qc, f : qc = prepare(lex, dense) /\ f = FusedScores(c, lex, dense)
  OBVIOUS
<1>2. PICK n : n = Len(qc.docs) /\ PreparedFor(qc, lex, dense, n)
  BY <1>1, PrepareIs
<1>3. Numbered(DOMAIN f, f) /\ DOMAIN f = Pooled(lex, dense) /\ qc.docs = InOrder(DOMAIN f)
  BY <1>1, <1>2, FusedScoresAre DEF PreparedFor
<1>4. IsFiniteSet(DOMAIN f) /\ DOMAIN f \subseteq Nat
  BY <1>3 DEF Numbered
<1>5. \A i \in 1 .. n : qc.docs[i] \in Pooled(lex, dense)
  <2>1. Listing(DOMAIN f, Less, qc.docs)
    BY <1>3, <1>4, NumbersAreListed
  <2>2. IsSeq(qc.docs) /\ Range(qc.docs) = DOMAIN f
    BY <2>1 DEF Listing
  <2>3. QED
    BY <1>2, <1>3, <2>2, SeqIs DEF Range
<1>6. IsRanking(truncate(lex)) /\ IsRanking(truncate(dense))
  BY TruncatedIs
<1>7. CASE c.kind = "rrf"
  <2> DEFINE score == [i \in 1 .. n |-> RowShare(qc.lexRank[i], c.p) + RowShare(qc.denseRank[i], c.p)]
  <2>1. FastFused(c, qc, k) = rrf_fast(qc, c.p, k)
    BY <1>7 DEF FastFused
  <2>2. rrf_fast(qc, c.p, k) = StableByScore(qc, score, k)
    BY Zenon, <1>2 DEF rrf_fast, RowShare
  <2>3. f = Shares(lex, dense, c.p)
    BY <1>1, <1>7 DEF FusedScores
  <2>4. score = [i \in 1 .. n |-> f[qc.docs[i]]]
    <3>1. ASSUME NEW i \in 1 .. n PROVE score[i] = f[qc.docs[i]]
      <4>1. score[i] = RowShare(qc.lexRank[i], c.p) + RowShare(qc.denseRank[i], c.p)
        OBVIOUS
      <4>2. RowShare(qc.lexRank[i], c.p) = Share(truncate(lex), c.p, qc.docs[i])
        BY <1>2, <1>6, RowShareIs DEF PreparedFor
      <4>3. RowShare(qc.denseRank[i], c.p) = Share(truncate(dense), c.p, qc.docs[i])
        BY <1>2, <1>6, RowShareIs DEF PreparedFor
      <4>4. f[qc.docs[i]] = Share(truncate(lex), c.p, qc.docs[i]) + Share(truncate(dense), c.p, qc.docs[i])
        BY ONLY <1>5, <2>3, i \in 1 .. n DEF Shares
      <4>5. QED
        BY ONLY <4>1, <4>2, <4>3, <4>4
    <3>2. score = [i \in 1 .. n |-> score[i]]
      OBVIOUS
    <3> HIDE DEF score
    <3>3. QED
      BY ONLY <3>1, <3>2
  <2> HIDE DEF score
  <2>5. StableByScore(qc, score, k) = sort_fused(f, k)
    BY ONLY <1>2, <1>3, <2>4, RowsSortAlike
  <2>6. QED
    BY ONLY <1>1, <2>1, <2>2, <2>5
<1>8. CASE c.kind # "rrf"
  <2> DEFINE score == [i \in 1 .. n |-> (10 - c.p) * qc.lexNorm[i] + c.p * qc.denseNorm[i]]
  <2>1. FastFused(c, qc, k) = weighted_fast(qc, c.p, k)
    BY <1>8 DEF FastFused
  <2>2. weighted_fast(qc, c.p, k) = StableByScore(qc, score, k)
    BY Zenon, <1>2 DEF weighted_fast
  <2>3. f = Weights(lex, dense, c.p)
    BY <1>1, <1>8 DEF FusedScores
  <2>4. score = [i \in 1 .. n |-> f[qc.docs[i]]]
    <3>1. ASSUME NEW i \in 1 .. n PROVE score[i] = f[qc.docs[i]]
      <4>1. score[i] = (10 - c.p) * qc.lexNorm[i] + c.p * qc.denseNorm[i]
        OBVIOUS
      <4>2. qc.lexNorm[i] = Normal(truncate(lex), qc.docs[i]) /\ qc.denseNorm[i] = Normal(truncate(dense), qc.docs[i])
        BY ONLY <1>2, i \in 1 .. n DEF PreparedFor
      <4>3. f[qc.docs[i]] = (10 - c.p) * Normal(truncate(lex), qc.docs[i]) + c.p * Normal(truncate(dense), qc.docs[i])
        BY ONLY <1>5, <2>3, i \in 1 .. n DEF Weights
      <4>4. QED
        BY ONLY <4>1, <4>2, <4>3
    <3>2. score = [i \in 1 .. n |-> score[i]]
      OBVIOUS
    <3> HIDE DEF score
    <3>3. QED
      BY ONLY <3>1, <3>2
  <2> HIDE DEF score
  <2>5. StableByScore(qc, score, k) = sort_fused(f, k)
    BY ONLY <1>2, <1>3, <2>4, RowsSortAlike
  <2>6. QED
    BY ONLY <1>1, <2>1, <2>2, <2>5
<1>9. QED
  BY <1>7, <1>8

LEMMA FusedListIs ==
    ASSUME NEW c, NEW data, NEW q, NEW lex, lex = Ranking(data.lex, q), NEW dense, dense = Ranking(data.dense, q)
    PROVE  Fused(c, data, q) = sort_fused(FusedScores(c, lex, dense), OUT_K)
<1>1. Fused(c, data, q) = IF c.kind = "rrf" THEN rrf(lex, dense, c.p, OUT_K) ELSE weighted(lex, dense, c.p, OUT_K)
  BY Zenon DEF Fused
<1>2. rrf(lex, dense, c.p, OUT_K) = sort_fused(Shares(lex, dense, c.p), OUT_K)
  BY Zenon DEF rrf, Shares, Pooled
<1>3. weighted(lex, dense, c.p, OUT_K) = sort_fused(Weights(lex, dense, c.p), OUT_K)
  BY Zenon DEF weighted, Weights, Pooled
<1>4. QED
  BY ONLY <1>1, <1>2, <1>3 DEF FusedScores

\* A query that a run lacks has an empty ranking.
HasRankings(data) ==
    (\A q \in DOMAIN data.lex : IsRanking(data.lex[q])) /\ \A q \in DOMAIN data.dense : IsRanking(data.dense[q])

LEMMA EmptyRanking == IsRanking(<<>>)
<1>1. <<>> \in Seq(Range(<<>>)) /\ DOMAIN <<>> = {}
  BY EmptySequences
<1>2. QED
  BY ONLY <1>1 DEF IsRanking

LEMMA RankingsAre ==
    ASSUME NEW data, HasRankings(data), NEW q PROVE IsRanking(Ranking(data.lex, q)) /\ IsRanking(Ranking(data.dense, q))
BY EmptyRanking DEF HasRankings, Ranking

LEMMA NoMismatches ==
    ASSUME NEW data, HasRankings(data), NEW systems, \A s \in DOMAIN systems : IsConfig(systems[s])
    PROVE  Mismatches(systems, data) = {}
<1>1. ASSUME NEW s \in DOMAIN systems, NEW q
      PROVE  FastFused(systems[s], prepare(Ranking(data.lex, q), Ranking(data.dense, q)), OUT_K) = Fused(systems[s], data, q)
  <2>1. IsConfig(systems[s]) /\ IsRanking(Ranking(data.lex, q)) /\ IsRanking(Ranking(data.dense, q))
    BY RankingsAre
  <2>2. QED
    BY ONLY <2>1, FastIsReference, FusedListIs
<1>2. QED
  BY ONLY <1>1 DEF Mismatches

-----------------------------------------------------------------------------
(* Run files. *)
Lowered(r, out, i) ==
    IF i = 1 THEN Printed(r[i].score)
    ELSE IF Printed(r[i].score) < out[i - 1] THEN Printed(r[i].score) ELSE Printed(out[i - 1] - Precision)

WrittenLines(r, n, out) == out = [i \in 1 .. n |-> Lowered(r, out, i)]

LEMMA WritingExists == ASSUME NEW r, NEW n \in Nat PROVE \E out : WrittenLines(r, n, out)
<1> DEFINE Bad == {m \in Nat : ~\E out : WrittenLines(r, m, out)}
<1>1. Bad = {}
  <2>1. SUFFICES ASSUME Bad # {} PROVE FALSE
    OBVIOUS
  <2>2. PICK m \in Bad : \A j \in Bad : m <= j
    <3>1. Bad \in SUBSET Nat
      OBVIOUS
    <3> HIDE DEF Bad
    <3> QED BY <2>1, <3>1, LeastOf
  <2>3. m \in Nat /\ ~\E out : WrittenLines(r, m, out)
    BY <2>2
  <2>4. m # 0
    <3> DEFINE g == [i \in 1 .. 0 |-> 0]
    <3>1. SUFFICES ASSUME m = 0 PROVE FALSE
      OBVIOUS
    <3>2. g = [i \in 1 .. 0 |-> Lowered(r, g, i)]
      OBVIOUS
    <3> HIDE DEF g
    <3>3. WrittenLines(r, 0, g)
      BY <3>2 DEF WrittenLines
    <3>4. QED
      BY <2>3, <3>1, <3>3
  <2>5. m - 1 \in Nat /\ m - 1 \notin Bad
    BY <2>2, <2>3, <2>4
  <2>6. PICK g : WrittenLines(r, m - 1, g)
    BY <2>5
  <2> DEFINE h == [i \in 1 .. m |-> Lowered(r, g, i)]
  <2>7. \A i \in 1 .. m - 1 : i \in 1 .. m /\ h[i] = g[i]
    <3>1. TAKE i \in 1 .. m - 1
    <3>2. g[i] = Lowered(r, g, i)
      BY ONLY <2>6, i \in 1 .. m - 1 DEF WrittenLines
    <3>3. i \in 1 .. m
      BY <2>3
    <3>4. h[i] = Lowered(r, g, i)
      BY ONLY <3>3
    <3>5. QED
      BY ONLY <3>2, <3>3, <3>4
  <2>8. \A i \in 1 .. m : i # 1 => i - 1 \in 1 .. m - 1
    BY <2>3
  <2>9. h = [i \in 1 .. m |-> Lowered(r, h, i)]
    <3>1. ASSUME NEW i \in 1 .. m PROVE Lowered(r, g, i) = Lowered(r, h, i)
      <4>1. i # 1 => h[i - 1] = g[i - 1]
        BY ONLY <2>7, <2>8, i \in 1 .. m
      <4> HIDE DEF h
      <4>2. QED
        BY ONLY <4>1 DEF Lowered
    <3>2. QED
      BY ONLY <3>1
  <2> HIDE DEF h
  <2>10. WrittenLines(r, m, h)
    BY <2>9 DEF WrittenLines
  <2>11. QED
    BY <2>3, <2>10
<1>2. QED
  BY <1>1

LEMMA WrittenIs ==
    ASSUME NEW r, NEW n \in Nat, n = Len(r)
    PROVE  \E out : WrittenLines(r, n, out) /\ run_file_scores(r) = [i \in 1 .. n |-> out[i]]
<1>1. run_file_scores(r) = [i \in 1 .. Len(r) |-> (CHOOSE out : WrittenLines(r, Len(r), out))[i]]
  BY Zenon DEF run_file_scores, WrittenLines, Lowered
<1>2. PICK g : g = CHOOSE out : WrittenLines(r, n, out)
  OBVIOUS
<1>3. WrittenLines(r, n, g)
  BY <1>2, WritingExists
<1>4. QED
  BY <1>1, <1>2, <1>3

LEMMA PrintedIs == ASSUME NEW s \in Int PROVE Printed(s) \in Int /\ Printed(s) <= s
<1>1. PICK p \in Nat \ {0} : p = Precision
  BY GridAssumption
<1>2. PICK x \in Int : x = s \div p
  OBVIOUS
<1>3. p * x <= s /\ p * x \in Int /\ x * p = p * x
  BY ONLY <1>2, s \in Int, p \in Nat \ {0}, x \in Int
<1>4. QED
  BY <1>1, <1>2, <1>3 DEF Printed

FallsTo(out, n) == \A i \in 1 .. n : out[i] \in Int /\ \A j \in 1 .. n : i < j => out[j] < out[i]
\* Every score written is below all before it.
LEMMA WrittenFalls ==
    ASSUME NEW r, NEW n \in Nat, \A i \in 1 .. n : r[i].score \in Int, NEW out, WrittenLines(r, n, out)
    PROVE  FallsTo(out, n)
<1>1. \A i \in 1 .. n : out[i] = Lowered(r, out, i)
  BY ONLY WrittenLines(r, n, out) DEF WrittenLines
<1>2. Precision \in Nat /\ Precision > 0
  BY GridAssumption
<1>3. ASSUME NEW i \in 1 .. n, i # 1 => out[i - 1] \in Int
      PROVE  out[i] \in Int /\ (i # 1 => out[i] < out[i - 1])
  <2>1. Printed(r[i].score) \in Int
    BY PrintedIs
  <2>2. CASE i = 1
    BY <1>1, <2>1, <2>2 DEF Lowered
  <2>3. CASE i # 1
    <3>1. PICK v, p \in Int : v = Printed(r[i].score) /\ p = out[i - 1] /\ v \in Int
      BY <1>3, <2>1, <2>3
    <3>2. out[i] = IF v < p THEN v ELSE Printed(p - Precision)
      BY <1>1, <2>3, <3>1 DEF Lowered
    <3>3. PICK w \in Int : w = p - Precision /\ w < p
      BY <1>2
    <3>4. Printed(w) \in Int /\ Printed(w) <= w
      BY PrintedIs
    <3>5. out[i] \in Int /\ out[i] < p
      BY ONLY <3>1, <3>2, <3>3, <3>4, p \in Int
    <3>6. QED
      BY <3>1, <3>5
  <2>4. QED
    BY <2>2, <2>3
<1> DEFINE Bad == {m \in Nat : m <= n /\ ~FallsTo(out, m)}
<1>4. Bad = {}
  <2>1. SUFFICES ASSUME Bad # {} PROVE FALSE
    OBVIOUS
  <2>2. PICK m \in Bad : \A j \in Bad : m <= j
    <3>1. Bad \in SUBSET Nat
      OBVIOUS
    <3> HIDE DEF Bad
    <3> QED BY <2>1, <3>1, LeastOf
  <2>3. m \in Nat /\ m <= n /\ ~FallsTo(out, m)
    BY <2>2
  <2>4. m # 0
    BY <2>3 DEF FallsTo
  <2>5. m - 1 \in Nat /\ m - 1 <= n /\ m - 1 \notin Bad /\ m \in 1 .. n
    BY <2>2, <2>3, <2>4
  <2>6. FallsTo(out, m - 1)
    BY <2>5
  <2>7. m # 1 => m - 1 \in 1 .. m - 1
    BY <2>5
  <2>8. m # 1 => out[m - 1] \in Int
    BY ONLY <2>6, <2>7 DEF FallsTo
  <2>9. out[m] \in Int /\ (m # 1 => out[m] < out[m - 1])
    BY ONLY <1>3, <2>5, <2>8
  <2>10. ASSUME NEW i \in 1 .. m, NEW j \in 1 .. m, i < j PROVE out[j] < out[i]
    <3>1. i \in 1 .. m - 1 /\ m # 1
      BY <2>5, <2>10
    <3>2. CASE j # m
      <4>1. j \in 1 .. m - 1
        BY <2>5, <3>2
      <4>2. QED
        BY ONLY <2>6, <2>10, <3>1, <4>1 DEF FallsTo
    <3>3. CASE j = m
      <4>1. i = m - 1 \/ (i < m - 1 /\ out[m - 1] < out[i])
        BY ONLY <2>3, <2>6, <2>7, <3>1 DEF FallsTo
      <4>2. out[i] \in Int /\ out[m - 1] \in Int
        BY ONLY <2>6, <2>7, <3>1 DEF FallsTo
      <4>3. PICK x \in Int, y \in Int : x = out[i] /\ y = out[m - 1] /\ (x = y \/ y < x)
        BY <4>1, <4>2
      <4>4. QED
        BY <2>9, <3>1, <3>3, <4>3
    <3>4. QED
      BY <3>2, <3>3
  <2>11. \A i \in 1 .. m : out[i] \in Int
    <3>1. \A i \in 1 .. m : i = m \/ i \in 1 .. m - 1
      BY <2>3
    <3>2. QED
      BY <2>6, <2>9, <3>1 DEF FallsTo
  <2>12. FallsTo(out, m)
    BY ONLY <2>10, <2>11 DEF FallsTo
  <2>13. QED
    BY <2>3, <2>12
<1>5. QED
  BY <1>4

\* A file sorts back into the order of the list it was written from.
LEMMA FilesReproduce ==
    ASSUME NEW r, Once(r) PROVE ReproducesOrder(r) /\ rank_run(as_score_dict(r)) = Order(r)
<1>1. OnceRanked(r)
  BY OnceIs
<1>2. PICK n, o : n = Len(r) /\ o = Order(r)
  OBVIOUS
<1>3. /\ n \in Nat /\ DOMAIN r = 1 .. n /\ IsSeq(o) /\ IsInjective(o) /\ DOMAIN o = 1 .. n /\ Range(o) = Docs(r)
      /\ Docs(r) \subseteq Nat /\ IsFiniteSet(Docs(r))
      /\ \A i \in 1 .. n : o[i] = r[i].doc /\ o[i] \in Docs(r) /\ RankOf(r, o[i]) = i
      /\ \A d \in Docs(r) : RankOf(r, d) \in 1 .. n
  BY ONLY <1>1, <1>2 DEF OnceRanked
<1>4. \A i \in 1 .. n : r[i].score \in Int
  BY ONLY <1>3, Once(r) DEF Once
<1>5. PICK out : WrittenLines(r, n, out) /\ run_file_scores(r) = [i \in 1 .. n |-> out[i]]
  BY ONLY <1>2, <1>3, WrittenIs
<1>6. FallsTo(out, n)
  BY ONLY <1>3, <1>4, <1>5, WrittenFalls
<1>7. PICK f : f = as_score_dict(r)
  OBVIOUS
<1>8. DOMAIN f = Docs(r) /\ \A d \in Docs(r) : f[d] = out[RankOf(r, d)]
  <2>1. f = [d \in Docs(r) |-> run_file_scores(r)[RankOf(r, d)]]
    BY Zenon, <1>7 DEF as_score_dict
  <2>2. QED
    BY ONLY <1>3, <1>5, <2>1
<1>9. \A i \in 1 .. n : f[o[i]] = out[i]
  BY ONLY <1>3, <1>8
<1>10. Numbered(DOMAIN f, f)
  BY ONLY <1>3, <1>6, <1>8 DEF Numbered, FallsTo
<1>11. \A i, j \in DOMAIN o : i < j => f[o[i]] > f[o[j]] \/ (f[o[i]] = f[o[j]] /\ StringBelow(o[j], o[i]))
  BY ONLY <1>3, <1>6, <1>9 DEF FallsTo
<1>12. rank_run(f) = o
  BY ONLY <1>3, <1>8, <1>10, <1>11, RankedAs
<1>13. QED
  BY ONLY <1>2, <1>7, <1>12 DEF ReproducesOrder
-----------------------------------------------------------------------------
(* What is swept is what is reported. *)
LEMMA TopOfLonger ==
    ASSUME NEW s, IsSeq(s), NEW a \in Nat, NEW b \in Nat, b <= a PROVE Top(Top(s, a), b) = Top(s, b)
<1>1. PICK t, u, v : t = Top(s, a) /\ u = Top(t, b) /\ v = Top(s, b)
  OBVIOUS
<1>2. PICK n \in Nat : n = Len(s)
  BY SeqIs
<1>3. PICK la \in Nat, lb \in Nat : la = (IF a <= n THEN a ELSE n) /\ lb = IF b <= n THEN b ELSE n
  OBVIOUS
<1>4. Begins(t, s, la) /\ Begins(v, s, lb)
  BY ONLY <1>1, <1>2, <1>3, TopBegins, IsSeq(s), a \in Nat, b \in Nat
<1>5. IsSeq(t) /\ Len(t) = la /\ \A i \in 1 .. la : t[i] = s[i]
  BY ONLY <1>4 DEF Begins
<1>6. lb = IF b <= la THEN b ELSE la
  BY <1>3
<1>7. Begins(u, t, lb)
  BY ONLY <1>1, <1>5, <1>6, TopBegins, b \in Nat
<1>8. /\ IsSeq(u) /\ Len(u) = lb /\ IsSeq(v) /\ Len(v) = lb
      /\ \A i \in 1 .. lb : u[i] = s[i] /\ v[i] = s[i]
  <2>1. \A i \in 1 .. lb : i \in 1 .. la
    BY <1>3, <1>6
  <2>2. QED
    BY ONLY <1>4, <1>5, <1>7, <2>1 DEF Begins
<1>9. u = v
  <2>1. u = [i \in 1 .. lb |-> u[i]] /\ v = [i \in 1 .. lb |-> v[i]]
    BY ONLY <1>8, SeqIs
  <2>2. QED
    BY ONLY <1>8, <2>1
<1>10. QED
  BY ONLY <1>1, <1>9

LEMMA ReciprocalOfTop ==
    ASSUME NEW r, IsSeq(r), NEW s, IsSeq(s), NEW k \in Nat, Top(r, k) = Top(s, k), NEW qrel, NEW rel
    PROVE  mrr_at_k(r, qrel, k, rel) = mrr_at_k(s, qrel, k, rel)
<1>1. PICK t : t = Top(r, k) /\ t = Top(s, k)
  OBVIOUS
<1>2. \A i \in 1 .. Len(t) : t[i] = r[i] /\ t[i] = s[i]
  <2>1. \A i \in 1 .. Len(Top(r, k)) : Top(r, k)[i] = r[i]
    BY TopAsIs
  <2>2. \A i \in 1 .. Len(Top(s, k)) : Top(s, k)[i] = s[i]
    BY TopAsIs
  <2>3. QED
    BY ONLY <1>1, <2>1, <2>2
<1>3. Hits(r, qrel, k, rel) = Hits(s, qrel, k, rel)
  BY ONLY <1>1, <1>2 DEF Hits
<1>4. QED
  BY Zenon, <1>3 DEF mrr_at_k

\* A metric sees no more of a list than its first k.
SeesTop(m) == m.k \in Nat /\ m.kind \in {"nDCG", "RR"}
LEMMA MetricOfTop ==
    ASSUME NEW m, SeesTop(m), NEW r, IsSeq(r), NEW s, IsSeq(s), Top(r, m.k) = Top(s, m.k), NEW qrel
    PROVE  metric_value(m, r, qrel) = metric_value(m, s, qrel)
<1>1. PICK k \in Nat : k = m.k
  BY DEF SeesTop
<1>2. CASE m.kind = "nDCG"
  <2>1. metric_value(m, r, qrel) = ndcg_at_k(r, qrel, k) /\ metric_value(m, s, qrel) = ndcg_at_k(s, qrel, k)
    BY <1>1, <1>2 DEF metric_value
  <2>2. QED
    BY ONLY <1>1, <2>1, NdcgOfTop, IsSeq(r), IsSeq(s), Top(r, m.k) = Top(s, m.k)
<1>3. CASE m.kind = "RR"
  <2>1. metric_value(m, r, qrel) = mrr_at_k(r, qrel, k, m.rel) /\ metric_value(m, s, qrel) = mrr_at_k(s, qrel, k, m.rel)
    BY <1>1, <1>3 DEF metric_value
  <2>2. QED
    BY ONLY <1>1, <2>1, ReciprocalOfTop, IsSeq(r), IsSeq(s), Top(r, m.k) = Top(s, m.k)
<1>4. QED
  BY <1>2, <1>3 DEF SeesTop

Gridded(c) ==
    \/ c.kind = "rrf" /\ c.p \in Range(RRF_KS)
    \/ c.kind = "wsum" /\ c.p \in 0 .. 10

\* The grid has configurations of both kinds.
LEMMA GridIs ==
    /\ IsSeq(Configs) /\ DOMAIN Configs = 1 .. Len(Configs) /\ Len(Configs) \in Nat
    /\ \A i \in 1 .. Len(Configs) : Gridded(Configs[i])
    /\ \A kind \in {"rrf", "wsum"} : \E i \in 1 .. Len(Configs) : Configs[i].kind = kind
<1>1. IsSeq(RRF_KS) /\ IsSeq(ALPHAS) /\ ALPHAS \in Seq(0 .. 10) /\ RRF_KS # <<>> /\ ALPHAS # <<>>
  BY GridAssumption, OwnElements DEF IsSeq
<1>2. PICK m, n : m = Len(RRF_KS) /\ n = Len(ALPHAS) /\ m \in Nat /\ n \in Nat /\ DOMAIN RRF_KS = 1 .. m
  BY <1>1, SeqIs
<1>3. 1 \in 1 .. m /\ 1 \in 1 .. n
  <2>1. m # 0 /\ n # 0
    BY ONLY <1>1, <1>2 DEF IsSeq
  <2>2. QED
    BY ONLY <1>2, <2>1
<1> DEFINE a == [i \in 1 .. Len(RRF_KS) |-> [kind |-> "rrf", p |-> RRF_KS[i]]]
           b == [i \in 1 .. Len(ALPHAS) |-> [kind |-> "wsum", p |-> ALPHAS[i]]]
<1>4. \A i \in 1 .. m : Gridded(a[i]) /\ a[i].kind = "rrf"
  <2>1. \A i \in 1 .. m : RRF_KS[i] \in Range(RRF_KS)
    BY ONLY <1>2 DEF Range
  <2>2. QED
    BY ONLY <1>2, <2>1 DEF Gridded
<1>5. \A i \in 1 .. n : Gridded(b[i]) /\ b[i].kind = "wsum"
  <2>1. \A i \in 1 .. n : ALPHAS[i] \in 0 .. 10
    BY ONLY <1>1, <1>2
  <2>2. QED
    BY ONLY <1>2, <2>1 DEF Gridded
<1>6. a = [i \in 1 .. m |-> a[i]] /\ b = [i \in 1 .. n |-> b[i]]
  BY ONLY <1>2
<1>7. Configs = a \o b
  BY Zenon DEF Configs
<1> HIDE DEF a, b
<1>8. IsSeq(a) /\ Len(a) = m /\ IsSeq(b) /\ Len(b) = n
  BY ONLY <1>2, <1>6, FunctionIsSeq
<1>9. PICK w : w = Configs /\ w = a \o b
  BY <1>7
<1>10. /\ IsSeq(w) /\ Len(w) = m + n
       /\ \A i \in 1 .. m : w[i] = a[i]
       /\ \A i \in 1 .. n : w[m + i] = b[i]
  <2>1. /\ IsSeq(a \o b) /\ Len(a \o b) = Len(a) + Len(b)
        /\ \A i \in 1 .. Len(a) : (a \o b)[i] = a[i]
        /\ \A i \in 1 .. Len(b) : (a \o b)[Len(a) + i] = b[i]
    BY ONLY <1>8, ConcatIs
  <2>2. QED
    BY ONLY <1>8, <1>9, <2>1
<1>11. ASSUME NEW i \in 1 .. m + n PROVE Gridded(w[i])
  <2>1. CASE i <= m
    BY <1>2, <1>4, <1>10, <2>1
  <2>2. CASE i > m
    <3>1. i - m \in 1 .. n /\ i = m + (i - m)
      BY <1>2, <2>2
    <3>2. PICK j \in 1 .. n : i = m + j
      BY ONLY <3>1
    <3>3. QED
      BY <1>5, <1>10, <3>2
  <2>3. QED
    BY <1>2, <2>1, <2>2
<1>12. w[1].kind = "rrf" /\ w[m + 1].kind = "wsum" /\ 1 \in 1 .. m + n /\ m + 1 \in 1 .. m + n
  BY ONLY <1>2, <1>3, <1>4, <1>5, <1>10
<1>13. \A kind \in {"rrf", "wsum"} : \E i \in 1 .. m + n : w[i].kind = kind
  BY ONLY <1>12
<1>14. DOMAIN w = 1 .. m + n /\ m + n \in Nat
  BY ONLY <1>2, <1>10, SeqIs
<1>15. QED
  BY ONLY <1>9, <1>10, <1>11, <1>13, <1>14

LEMMA GriddedIs == ASSUME NEW c, Gridded(c) PROVE IsConfig(c) /\ (c.kind = "rrf" => Smooth(c.p))
<1>1. \A k \in Range(RRF_KS) : k \in Nat
  BY GridAssumption DEF Range
<1>2. \A k \in Range(RRF_KS) : Smooth(k)
  BY ONLY <1>1, SharesAssumption DEF Smooth
<1>3. QED
  BY ONLY <1>1, <1>2, Gridded(c) DEF Gridded, IsConfig

\* The measure of the file of a fused list is that of the fast list, cut.
LEMMA FileIsSwept ==
    ASSUME NEW data, HasRankings(data), NEW m, SeesTop(m), m.k <= OUT_K, NEW c, IsConfig(c), NEW q, NEW qrel,
           NEW qc, qc = prepare(Ranking(data.lex, q), Ranking(data.dense, q))
    PROVE  metric_value(m, rank_run(as_score_dict(Fused(c, data, q))), qrel) = metric_value(m, Order(FastFused(c, qc, m.k)), qrel)
<1>1. PICK lex, dense : lex = Ranking(data.lex, q) /\ dense = Ranking(data.dense, q)
  OBVIOUS
<1>2. IsRanking(lex) /\ IsRanking(dense)
  BY <1>1, RankingsAre
<1>3. PICK f : f = FusedScores(c, lex, dense)
  OBVIOUS
<1>4. Numbered(DOMAIN f, f)
  BY ONLY <1>2, <1>3, FusedScoresAre, IsConfig(c)
<1>5. PICK k \in Nat, n \in Nat : k = m.k /\ n = OUT_K /\ k <= n
  BY GridAssumption DEF SeesTop
<1>6. PICK r, t : r = Fused(c, data, q) /\ t = FastFused(c, qc, k)
  OBVIOUS
<1>7. r = sort_fused(f, n) /\ t = sort_fused(f, k)
  BY ONLY <1>1, <1>2, <1>3, <1>5, <1>6, FusedListIs, FastIsReference, IsConfig(c),
          qc = prepare(Ranking(data.lex, q), Ranking(data.dense, q))
<1>8. FusedFrom(r, f, n) /\ FusedFrom(t, f, k)
  BY ONLY <1>4, <1>7, FusedIs, k \in Nat, n \in Nat
<1>9. rank_run(as_score_dict(r)) = Order(r)
  BY ONLY <1>8, FilesReproduce DEF FusedFrom
<1>10. PICK s : s = Sorted(f) /\ IsSeq(s)
  BY <1>4, SortedLists DEF Listing
<1>11. IsSeq(Order(r)) /\ IsSeq(Order(t)) /\ Order(r) = Top(s, n) /\ Order(t) = Top(s, k)
  BY ONLY <1>8, <1>10 DEF FusedFrom
<1>12. Top(Order(r), k) = Top(s, k) /\ Top(Order(t), k) = Top(s, k)
  <2>1. k <= k
    OBVIOUS
  <2>2. Top(Top(s, n), k) = Top(s, k)
    BY ONLY <1>5, <1>10, TopOfLonger, k \in Nat, n \in Nat
  <2>3. Top(Top(s, k), k) = Top(s, k)
    BY ONLY <1>10, <2>1, TopOfTop, k \in Nat
  <2>4. QED
    BY ONLY <1>11, <2>2, <2>3
<1>13. metric_value(m, Order(r), qrel) = metric_value(m, Order(t), qrel)
  BY ONLY <1>5, <1>11, <1>12, MetricOfTop, SeesTop(m)
<1>14. QED
  BY ONLY <1>5, <1>6, <1>9, <1>13

LEMMA SweptIsReported ==
    ASSUME NEW data, HasRankings(data), NEW m, SeesTop(m), m.k <= OUT_K
    PROVE  ReportedAsSwept(data, m)
<1>1. ASSUME NEW c, IsConfig(c)
      PROVE  evaluate(FusedRun(c, data), data.qrels, m) = SweptValues(c, data, m)
  <2>1. PICK run : run = FusedRun(c, data)
    OBVIOUS
  <2>2. DOMAIN run = DOMAIN data.qrels /\ \A q \in DOMAIN data.qrels : run[q] = as_score_dict(Fused(c, data, q))
    BY ONLY <2>1 DEF FusedRun
  <2>3. evaluate(run, data.qrels, m) = [q \in DOMAIN data.qrels |-> metric_value(m, rank_run(as_score_dict(Fused(c, data, q))), data.qrels[q])]
    BY ONLY <2>2 DEF evaluate
  <2>4. SweptValues(c, data, m) =
            [q \in DOMAIN data.qrels |->
                metric_value(m, Order(FastFused(c, prepare(Ranking(data.lex, q), Ranking(data.dense, q)), m.k)), data.qrels[q])]
    BY Zenon DEF SweptValues
  <2>5. ASSUME NEW q \in DOMAIN data.qrels
        PROVE  metric_value(m, rank_run(as_score_dict(Fused(c, data, q))), data.qrels[q])
                   = metric_value(m, Order(FastFused(c, prepare(Ranking(data.lex, q), Ranking(data.dense, q)), m.k)), data.qrels[q])
    BY <1>1, FileIsSwept
  <2>6. QED
    BY ONLY <2>1, <2>3, <2>4, <2>5
<1>2. QED
  BY <1>1, GridIs, GriddedIs DEF ReportedAsSwept

\* Of the subsets of a finite set that have a property, one has no smaller one.
LEMMA SmallestSubset ==
    ASSUME NEW S, IsFiniteSet(S), NEW M \in SUBSET (SUBSET S), M # {}
    PROVE  \E T \in M : /\ IsFiniteSet(T) /\ Cardinality(T) \in Nat
                        /\ \A x \in T : T \ {x} \notin M
<1>1. \A T \in SUBSET S : IsFiniteSet(T) /\ Cardinality(T) \in Nat
  BY FS_Subset, FS_CardinalityType
<1> DEFINE sizes == {Cardinality(T) : T \in M}
<1>2. sizes \in SUBSET Nat /\ sizes # {}
  BY <1>1
<1>3. PICK n \in sizes : \A m \in sizes : n <= m
  <2> HIDE DEF sizes
  <2> QED BY <1>2, LeastOf
<1>4. PICK T \in M : Cardinality(T) = n
  BY <1>3
<1>5. ASSUME NEW x \in T PROVE T \ {x} \notin M
  <2>1. Cardinality(T \ {x}) = Cardinality(T) - 1
    BY <1>1, FS_RemoveElement
  <2>2. T \ {x} \in M => Cardinality(T) <= Cardinality(T \ {x})
    BY <1>3, <1>4
  <2>3. QED
    BY <1>1, <2>1, <2>2
<1>6. QED
  BY <1>1, <1>5
-----------------------------------------------------------------------------
(* Sums, one number at a time. *)
Pick(s) == CHOOSE x \in s : TRUE
Adding(f, s, g) == IF s = {} THEN 0 ELSE f[Pick(s)] + g[s \ {Pick(s)}]
SumsOver(f, S, g) == g = [s \in SUBSET S |-> Adding(f, s, g)]
LEMMA PickIn == ASSUME NEW s, s # {} PROVE Pick(s) \in s
BY DEF Pick

UpTo(S, n) == {s \in SUBSET S : Cardinality(s) <= n}
SumsUpTo(f, S, n, g) == g = [s \in UpTo(S, n) |-> Adding(f, s, g)]
LEMMA SumsExist ==
    ASSUME NEW S, IsFiniteSet(S), NEW f
    PROVE  \E g : SumsOver(f, S, g)
<1>1. \A T \in SUBSET S : IsFiniteSet(T) /\ Cardinality(T) \in Nat /\ Cardinality(T) <= Cardinality(S)
  BY FS_Subset, FS_CardinalityType
<1>2. \A T \in SUBSET S : \A x \in T : Cardinality(T \ {x}) = Cardinality(T) - 1
  BY <1>1, FS_RemoveElement
<1>3. \A T \in SUBSET S : Cardinality(T) = 0 => T = {}
  BY <1>1, FS_EmptySet
<1> DEFINE Bad == {n \in Nat : ~\E g : SumsUpTo(f, S, n, g)}
<1>4. Bad = {}
  <2>1. SUFFICES ASSUME Bad # {} PROVE FALSE
    OBVIOUS
  <2>2. PICK n \in Bad : \A m \in Bad : n <= m
    <3>1. Bad \in SUBSET Nat
      OBVIOUS
    <3> HIDE DEF Bad
    <3> QED BY <2>1, <3>1, LeastOf
  <2>3. n \in Nat /\ ~\E g : SumsUpTo(f, S, n, g)
    BY <2>2
  <2>4. CASE n = 0
    <3> DEFINE g == [s \in UpTo(S, 0) |-> 0]
    <3>1. \A s \in UpTo(S, 0) : s = {}
      BY <1>1, <1>3 DEF UpTo
    <3>2. \A s \in UpTo(S, 0) : Adding(f, s, g) = 0
      BY <3>1 DEF Adding
    <3>3. g = [s \in UpTo(S, 0) |-> Adding(f, s, g)]
      BY <3>2
    <3>4. QED
      BY <2>3, <2>4, <3>3 DEF SumsUpTo
  <2>5. CASE n # 0
    <3>1. n - 1 \in Nat /\ n - 1 \notin Bad
      BY <2>2, <2>3, <2>5
    <3>2. PICK g : SumsUpTo(f, S, n - 1, g)
      BY <3>1
    <3> DEFINE h == [s \in UpTo(S, n) |-> Adding(f, s, g)]
    <3>3. \A s \in UpTo(S, n - 1) : s \in UpTo(S, n) /\ h[s] = g[s]
      <4>1. \A s \in UpTo(S, n - 1) : s \in UpTo(S, n)
        BY <1>1, <2>3 DEF UpTo
      <4>2. \A s \in UpTo(S, n - 1) : g[s] = Adding(f, s, g)
        BY <3>2 DEF SumsUpTo
      <4>3. QED
        BY <4>1, <4>2
    <3>4. \A s \in UpTo(S, n) : s # {} => s \ {Pick(s)} \in UpTo(S, n - 1)
      BY <1>1, <1>2, <2>3, PickIn DEF UpTo
    <3>5. \A s \in UpTo(S, n) : Adding(f, s, h) = Adding(f, s, g)
      <4> HIDE DEF h
      <4> QED BY <3>3, <3>4 DEF Adding
    <3>6. h = [s \in UpTo(S, n) |-> Adding(f, s, h)]
      <4>1. h = [s \in UpTo(S, n) |-> Adding(f, s, g)]
        OBVIOUS
      <4> HIDE DEF h
      <4> QED BY <3>5, <4>1
    <3>7. QED
      BY <2>3, <3>6 DEF SumsUpTo
  <2>6. QED
    BY <2>4, <2>5
<1>5. Cardinality(S) \notin Bad /\ Cardinality(S) \in Nat
  BY <1>1, <1>4
<1>6. PICK g : SumsUpTo(f, S, Cardinality(S), g)
  BY <1>5
<1>7. UpTo(S, Cardinality(S)) = SUBSET S
  BY <1>1 DEF UpTo
<1>8. QED
  BY <1>6, <1>7 DEF SumsUpTo, SumsOver

\* The sum of a fold with +.
FoldedSum(f, S) == (CHOOSE iter : SumsOver(f, S, iter))[S]
\* The sum of natural numbers is one, and that of integers an integer.
LEMMA SumIsNumber ==
    ASSUME NEW S, IsFiniteSet(S), NEW f, NEW N \in {Nat, Int}, \A x \in S : f[x] \in N
    PROVE  FoldedSum(f, S) \in N
<1>1. PICK g : SumsOver(f, S, g) /\ FoldedSum(f, S) = g[S]
  BY SumsExist DEF FoldedSum
<1>2. \A T \in SUBSET S : g[T] = Adding(f, T, g)
  BY <1>1 DEF SumsOver
<1> DEFINE L == {T \in SUBSET S : g[T] \notin N}
<1>3. L = {}
  <2>1. SUFFICES ASSUME L # {} PROVE FALSE
    OBVIOUS
  <2>2. PICK T \in L : \A x \in T : T \ {x} \notin L
    <3>1. L \in SUBSET (SUBSET S)
      OBVIOUS
    <3> HIDE DEF L
    <3> QED BY <2>1, <3>1, SmallestSubset
  <2>3. T \in SUBSET S /\ g[T] \notin N /\ g[T] = Adding(f, T, g)
    BY <1>2, <2>2
  <2>4. T # {}
    <3>1. 0 \in N
      OBVIOUS
    <3>2. QED
      BY <2>3, <3>1 DEF Adding
  <2>5. PICK p \in T : g[T] = f[p] + g[T \ {p}]
    BY <2>3, <2>4, PickIn DEF Adding
  <2>6. f[p] \in N /\ g[T \ {p}] \in N
    BY <2>2, <2>3, <2>5
  <2>7. QED
    BY <2>3, <2>5, <2>6
<1>4. QED
  BY <1>1, <1>3

\* Discounted gains add up.
LEMMA DCGIs ==
    ASSUME NEW gains, NEW n \in 0 .. 6, gains = [i \in 1 .. n |-> gains[i]], NEW N \in {Nat, Int},
           \A i \in 1 .. n : gains[i] \in N
    PROVE  DCG(gains) \in N
<1> DEFINE w == [i \in 1 .. Len(gains) |-> gains[i] * Discount[i]]
<1>1. DCG(gains) = FoldedSum(w, DOMAIN w)
  BY Zenon DEF DCG, FoldSeq, FoldFunction, FoldFunctionOnSet, MapThenFoldSet, FoldedSum, SumsOver, Adding, Pick
<1>2. Len(gains) = n
  BY FunctionIsSeq
<1>3. \A i \in 1 .. 6 : Discount[i] \in Nat
  BY DEF Discount
<1>4. IsFiniteSet(DOMAIN w) /\ \A i \in DOMAIN w : w[i] \in N
  <2>1. DOMAIN w = 1 .. n
    BY <1>2
  <2>2. IsFiniteSet(1 .. n)
    <3>1. 1 \in Int /\ n \in Int
      OBVIOUS
    <3>2. QED
      BY ONLY <3>1, FS_Interval
  <2>3. ASSUME NEW i \in 1 .. n PROVE w[i] \in N
    <3>1. w[i] = gains[i] * Discount[i] /\ gains[i] \in N /\ i \in 1 .. 6
      BY <1>2
    <3>2. Discount[i] \in Nat
      BY <1>3, <3>1
    <3>3. PICK a, b : a = gains[i] /\ b = Discount[i]
      OBVIOUS
    <3>4. a * b \in N
      <4>1. CASE N = Nat
        BY <3>1, <3>2, <3>3, <4>1
      <4>2. CASE N = Int
        BY <3>1, <3>2, <3>3, <4>2
      <4>3. QED
        BY <4>1, <4>2
    <3>5. QED
      BY <3>1, <3>3, <3>4
  <2>4. QED
    BY <2>1, <2>2, <2>3
<1> HIDE DEF w
<1>5. QED
  BY <1>1, <1>4, SumIsNumber

-----------------------------------------------------------------------------
(* No document passes one that both lists have above it. *)
LEMMA ScoredAbove ==
    ASSUME NEW lex, IsRanking(lex), NEW dense, IsRanking(dense), NEW c, Gridded(c), NEW f, f = FusedScores(c, lex, dense),
           NEW d \in Pooled(lex, dense), NEW e \in Pooled(lex, dense),
           Above(truncate(lex), d, e), Above(truncate(dense), d, e)
    PROVE  f[d] > f[e]
<1>1. PICK tl, td : tl = truncate(lex) /\ td = truncate(dense)
  OBVIOUS
<1>2. IsRanking(tl) /\ IsRanking(td) /\ Len(tl) <= DEPTH /\ Len(td) <= DEPTH
  BY <1>1, TruncatedIs
<1>3. Above(tl, d, e) /\ Above(td, d, e)
  BY <1>1
<1>4. CASE c.kind = "rrf"
  <2>1. Smooth(c.p) /\ c.p \in Nat
    BY <1>4, GriddedIs DEF Smooth
  <2>2. f = Shares(lex, dense, c.p)
    BY <1>4 DEF FusedScores
  <2>3. /\ f[d] = Share(tl, c.p, d) + Share(td, c.p, d)
        /\ f[e] = Share(tl, c.p, e) + Share(td, c.p, e)
    BY ONLY <1>1, <2>2, d \in Pooled(lex, dense), e \in Pooled(lex, dense) DEF Shares
  <2>4. PICK a, b, x, y : a = Share(tl, c.p, d) /\ b = Share(td, c.p, d) /\ x = Share(tl, c.p, e) /\ y = Share(td, c.p, e)
    OBVIOUS
  <2>5. a \in Nat /\ b \in Nat /\ x \in Nat /\ y \in Nat
    BY ONLY <1>2, <2>1, <2>4, ShareIs
  <2>6. a > x /\ b > y
    BY ONLY <1>2, <1>3, <2>1, <2>4, ShareFalls
  <2>7. QED
    BY ONLY <2>3, <2>4, <2>5, <2>6
<1>5. CASE c.kind # "rrf"
  <2>1. c.p \in 0 .. 10
    BY <1>5 DEF Gridded
  <2>2. PICK p \in 0 .. 10 : p = c.p
    BY <2>1
  <2>3. f = Weights(lex, dense, p)
    BY <1>5, <2>2 DEF FusedScores
  <2>4. /\ f[d] = (10 - p) * Normal(tl, d) + p * Normal(td, d)
        /\ f[e] = (10 - p) * Normal(tl, e) + p * Normal(td, e)
    BY ONLY <1>1, <2>3, d \in Pooled(lex, dense), e \in Pooled(lex, dense) DEF Weights
  <2>5. PICK a, b, x, y : a = Normal(tl, d) /\ b = Normal(td, d) /\ x = Normal(tl, e) /\ y = Normal(td, e)
    OBVIOUS
  <2>6. a \in Int /\ b \in Int /\ x \in Int /\ y \in Int
    BY ONLY <1>2, <2>5, NormalIs
  <2>7. a > x /\ b > y
    BY ONLY <1>3, <2>5 DEF Above
  <2>8. PICK o \in 0 .. 10 : o = 10 - p /\ o \in Nat /\ p \in Nat
    BY <2>2
  <2>9. x <= a /\ y <= b /\ x + 1 <= a /\ y + 1 <= b /\ x + 1 \in Int /\ y + 1 \in Int
    BY ONLY <2>6, <2>7
  <2>10. o * x <= o * a /\ p * y <= p * b /\ o * (x + 1) <= o * a /\ p * (y + 1) <= p * b
    BY ONLY <2>6, <2>8, <2>9, Times
  <2>11. o * (x + 1) = o * x + o /\ p * (y + 1) = p * y + p
    BY ONLY <2>6, <2>8
  <2>12. PICK oa \in Int, ox \in Int, pb \in Int, py \in Int : oa = o * a /\ ox = o * x /\ pb = p * b /\ py = p * y
    BY ONLY <2>6, <2>8
  <2>13. oa + pb > ox + py
    BY ONLY <2>8, <2>10, <2>11, <2>12
  <2>14. QED
    BY ONLY <2>4, <2>5, <2>8, <2>12, <2>13
<1>6. QED
  BY <1>4, <1>5

Dominating(tl, td, fused) ==
    \A d \in Docs(tl) \cup Docs(td), e \in Range(fused) :
        Above(tl, d, e) /\ Above(td, d, e) =>
            /\ d \in Range(fused)
            /\ (CHOOSE i \in 1 .. Len(fused) : fused[i] = d) < (CHOOSE i \in 1 .. Len(fused) : fused[i] = e)

LEMMA DominanceIs ==
    ASSUME NEW data, HasRankings(data), NEW q PROVE DominanceKept(data, q)
<1>1. PICK lex, dense : lex = Ranking(data.lex, q) /\ dense = Ranking(data.dense, q)
  OBVIOUS
<1>2. IsRanking(lex) /\ IsRanking(dense)
  BY <1>1, RankingsAre
<1>3. PICK tl, td : tl = truncate(lex) /\ td = truncate(dense)
  OBVIOUS
<1>4. ASSUME NEW c, Gridded(c), NEW fused, fused = Order(Fused(c, data, q)),
             NEW d \in Docs(tl) \cup Docs(td), NEW e \in Range(fused), Above(tl, d, e), Above(td, d, e)
      PROVE  /\ d \in Range(fused)
             /\ (CHOOSE i \in 1 .. Len(fused) : fused[i] = d) < (CHOOSE i \in 1 .. Len(fused) : fused[i] = e)
  <2>1. PICK f, D, R : f = FusedScores(c, lex, dense) /\ D = DOMAIN f /\ R = ByScore(D, f, Less)
    OBVIOUS
  <2>2. Numbered(D, f) /\ D = Pooled(lex, dense)
    BY <1>2, <1>4, <2>1, FusedScoresAre, GriddedIs
  <2>3. d \in D
    BY <1>3, <2>2 DEF Pooled
  <2>4. OUT_K \in Nat
    BY GridAssumption
  <2>5. FusedFrom(Fused(c, data, q), f, OUT_K)
    <3>1. Fused(c, data, q) = sort_fused(f, OUT_K)
      BY ONLY <1>1, <2>1, FusedListIs
    <3>2. FusedFrom(sort_fused(f, OUT_K), f, OUT_K)
      BY ONLY <2>1, <2>2, <2>4, FusedIs
    <3>3. QED
      BY ONLY <3>1, <3>2
  <2>6. IsSeq(fused) /\ fused = Top(Sorted(f), OUT_K)
    BY ONLY <1>4, <2>5 DEF FusedFrom
  <2>7. Listing(D, R, Sorted(f)) /\ TotalOrder(D, R)
    BY <2>1, <2>2, SortedLists, ScoresAreTotal
  <2>8. Best(D, R, fused)
    BY ONLY <2>4, <2>6, <2>7, TopIsBest
  <2>9. e \in D
    BY ONLY <1>4, <2>8 DEF Best
  <2>10. f[d] > f[e] /\ f[d] \in Int /\ f[e] \in Int
    <3>1. f[d] > f[e]
      BY ONLY <1>2, <1>3, <1>4, <2>1, <2>2, <2>3, <2>9, ScoredAbove
    <3>2. QED
      BY <2>2, <2>3, <2>9, <3>1 DEF Numbered
  <2>11. <<d, e>> \in R
    BY ONLY <2>1, <2>3, <2>9, <2>10, ByScoreIs
  <2>12. <<e, d>> \notin R
    BY ONLY <2>3, <2>7, <2>9, <2>11 DEF TotalOrder
  <2>13. d \in Range(fused)
    BY ONLY <1>4, <2>3, <2>8, <2>12 DEF Best
  <2>14. PICK n \in Nat : n = Len(fused) /\ DOMAIN fused = 1 .. n
    BY <2>6, SeqIs
  <2>15. PICK i \in 1 .. n, j \in 1 .. n : fused[i] = d /\ fused[j] = e
    BY <1>4, <2>13, <2>14 DEF Range
  <2>16. IsInjective(fused) /\ Listing(Range(fused), R, fused)
    BY ONLY <2>8 DEF Best
  <2>17. ~(j < i)
    <3>1. j < i => <<e, d>> \in R
      BY ONLY <2>14, <2>15, <2>16 DEF Listing
    <3>2. QED
      BY <2>12, <3>1
  <2>18. i # j
    <3>1. d # e
      BY <2>10
    <3>2. QED
      BY <2>15, <3>1
  <2>19. i < j
    BY <2>14, <2>17, <2>18
  <2>20. /\ (CHOOSE h \in 1 .. Len(fused) : fused[h] = d) = i
         /\ (CHOOSE h \in 1 .. Len(fused) : fused[h] = e) = j
    <3>1. \A h \in 1 .. n : (fused[h] = d => h = i) /\ (fused[h] = e => h = j)
      BY ONLY <2>14, <2>15, <2>16 DEF IsInjective
    <3>2. QED
      BY ONLY <2>14, <2>15, <3>1
  <2>21. QED
    BY ONLY <2>13, <2>19, <2>20
<1>5. \A c \in Range(Configs) : Gridded(c)
  BY GridIs DEF Range
<1>6. ASSUME NEW c \in Range(Configs) PROVE Dominating(tl, td, Order(Fused(c, data, q)))
  <2>1. PICK fused : fused = Order(Fused(c, data, q))
    OBVIOUS
  <2>2. Gridded(c)
    BY <1>5
  <2>3. Dominating(tl, td, fused)
    BY ONLY <1>4, <2>1, <2>2 DEF Dominating
  <2>4. QED
    BY ONLY <2>1, <2>3
<1>7. \A c \in Range(Configs) :
          Dominating(truncate(Ranking(data.lex, q)), truncate(Ranking(data.dense, q)), Order(Fused(c, data, q)))
  BY ONLY <1>1, <1>3, <1>6
<1>8. QED
  BY Zenon, <1>7 DEF DominanceKept, Dominating

-----------------------------------------------------------------------------
(* The fusion of the click studies. *)
\* A ranking is what its scores sort into.
LEMMA RankingSorts ==
    ASSUME NEW r, IsRanking(r), NEW f, f = [d \in Docs(r) |-> r[RankOf(r, d)].score]
    PROVE  Sorted(f) = Order(r)
<1>1. OnceRanked(r) /\ Once(r)
  BY RankingIsOnce, OnceIs
<1>2. PICK n, o, D : n = Len(r) /\ o = Order(r) /\ D = Docs(r)
  OBVIOUS
<1>3. /\ n \in Nat /\ DOMAIN r = 1 .. n /\ DOMAIN o = 1 .. n /\ IsSeq(o) /\ IsInjective(o) /\ Range(o) = D /\ Len(o) = n
      /\ D \subseteq Nat /\ IsFiniteSet(D) /\ Cardinality(D) = n
      /\ \A i \in 1 .. n : o[i] = r[i].doc /\ o[i] \in D /\ RankOf(r, o[i]) = i
      /\ \A d \in D : RankOf(r, d) \in 1 .. n
  BY ONLY <1>1, <1>2 DEF OnceRanked
<1>4. \A i \in 1 .. n : r[i].score \in Int
  BY ONLY <1>1, <1>3 DEF Once
<1>5. DOMAIN f = D /\ (\A i \in 1 .. n : f[o[i]] = r[i].score) /\ \A d \in D : f[d] \in Int
  BY ONLY <1>2, <1>3, <1>4, f = [d \in Docs(r) |-> r[RankOf(r, d)].score]
<1>6. Numbered(D, f)
  BY ONLY <1>3, <1>5 DEF Numbered
<1>7. PICK R : R = ByScore(D, f, Less)
  OBVIOUS
<1>8. ASSUME NEW i \in 1 .. n, NEW j \in 1 .. n, i < j PROVE <<o[i], o[j]>> \in R
  <2>1. Ahead(r[i].score, r[j].score, r[i].doc < r[j].doc)
    BY ONLY <1>3, <1>8, IsRanking(r) DEF IsRanking
  <2>2. PICK x \in D, y \in D : x = o[i] /\ y = o[j]
    BY <1>3
  <2>3. f[x] > f[y] \/ (f[x] = f[y] /\ x < y)
    BY ONLY <1>3, <1>5, <2>1, <2>2, i \in 1 .. n, j \in 1 .. n DEF Ahead
  <2>4. <<x, y>> \in Less <=> x < y
    BY <1>3, LessIsTotal
  <2>5. QED
    BY ONLY <1>7, <2>2, <2>3, <2>4, ByScoreIs
<1>9. Listing(D, R, o)
  BY ONLY <1>3, <1>8 DEF Listing
<1>10. Listing(D, R, Sorted(f)) /\ TotalOrder(D, R)
  BY ONLY <1>5, <1>6, <1>7, SortedLists, ScoresAreTotal
<1>11. QED
  BY ONLY <1>2, <1>9, <1>10, OneListing

ListShare(l, k, d) == IF d \in Range(l) THEN Unit \div (k + RankIn(l, d)) ELSE 0
LEMMA ListShareIs ==
    ASSUME NEW r, IsRanking(r), NEW f, f = [d \in Docs(r) |-> r[RankOf(r, d)].score], NEW l, l = Top(Sorted(f), DEPTH)
    PROVE  Range(l) = Docs(truncate(r)) /\ \A k, d : ListShare(l, k, d) = Share(truncate(r), k, d)
<1>1. PICK t : t = truncate(r)
  OBVIOUS
<1>2. l = Order(t) /\ IsRanking(t)
  BY <1>1, RankingSorts, TruncatedIs
<1>3. OnceRanked(t)
  BY ONLY <1>2, RankingIsOnce, OnceIs
<1>4. Range(l) = Docs(t) /\ DOMAIN l = 1 .. Len(t) /\ IsInjective(l)
  BY ONLY <1>2, <1>3 DEF OnceRanked
<1>5. ASSUME NEW d \in Docs(t) PROVE RankIn(l, d) = RankOf(t, d)
  <2>1. PICK i : i = RankOf(t, d) /\ i \in 1 .. Len(t) /\ l[i] = d
    BY ONLY <1>2, <1>3, d \in Docs(t) DEF OnceRanked
  <2>2. \A j \in DOMAIN l : l[j] = d => j = i
    BY ONLY <1>4, <2>1 DEF IsInjective
  <2>3. (CHOOSE j \in DOMAIN l : l[j] = d) = i
    BY ONLY <1>4, <2>1, <2>2
  <2>4. QED
    BY ONLY <1>4, <2>1, <2>3, d \in Docs(t) DEF RankIn
<1>6. QED
  BY ONLY <1>1, <1>4, <1>5 DEF ListShare, Share

SharesSummed(runs, k, depth, d, g) ==
    g = [s \in SUBSET DOMAIN runs |->
            IF s = {} THEN 0
            ELSE ListShare(Top(Sorted(runs[Pick(s)]), depth), k, d) + g[s \ {Pick(s)}]]

\* Of two runs, each document gets the sum of the two shares.
LEMMA TwoShares ==
    ASSUME NEW a, NEW b, NEW k, NEW depth, NEW d, NEW x \in Int, NEW y \in Int,
           x = ListShare(Top(Sorted(a), depth), k, d), y = ListShare(Top(Sorted(b), depth), k, d),
           NEW runs, runs = <<a, b>>,
           NEW g, g = CHOOSE h : SharesSummed(runs, k, depth, d, h)
    PROVE  g[DOMAIN runs] = x + y
<1>1. DOMAIN runs = {1, 2} /\ runs[1] = a /\ runs[2] = b
  <2>1. DOMAIN runs = 1 .. 2
    OBVIOUS
  <2>2. 1 .. 2 = {1, 2}
    OBVIOUS
  <2>3. QED
    BY <2>1, <2>2
<1>2. PICK S : S = DOMAIN runs /\ S = {1, 2}
  BY <1>1
<1> DEFINE w == [i \in S |-> ListShare(Top(Sorted(runs[i]), depth), k, d)]
<1>3. w[1] = x /\ w[2] = y
  BY <1>1, <1>2
<1>4. \A i \in S : w[i] = ListShare(Top(Sorted(runs[i]), depth), k, d)
  OBVIOUS
<1> HIDE DEF w
<1>5. ASSUME NEW h PROVE SumsOver(w, S, h) <=> SharesSummed(runs, k, depth, d, h)
  <2>1. ASSUME NEW s \in SUBSET S
        PROVE  Adding(w, s, h) = IF s = {} THEN 0
                                 ELSE ListShare(Top(Sorted(runs[Pick(s)]), depth), k, d) + h[s \ {Pick(s)}]
    <3>1. s # {} => Pick(s) \in S
      BY PickIn
    <3>2. QED
      BY <1>4, <3>1 DEF Adding
  <2>2. [s \in SUBSET S |-> Adding(w, s, h)] =
            [s \in SUBSET S |-> IF s = {} THEN 0
                                ELSE ListShare(Top(Sorted(runs[Pick(s)]), depth), k, d) + h[s \ {Pick(s)}]]
    BY ONLY <2>1
  <2>3. QED
    BY ONLY <1>2, <2>2 DEF SumsOver, SharesSummed
<1>6. IsFiniteSet(S)
  <2>1. 1 \in Int /\ 2 \in Int
    OBVIOUS
  <2>2. IsFiniteSet(1 .. 2)
    BY ONLY <2>1, FS_Interval
  <2>3. 1 .. 2 = {1, 2}
    OBVIOUS
  <2>4. QED
    BY <1>2, <2>2, <2>3
<1>7. \E h : SumsOver(w, S, h)
  BY ONLY <1>6, SumsExist
<1>8. SumsOver(w, S, g)
  BY ONLY <1>5, <1>7, g = CHOOSE h : SharesSummed(runs, k, depth, d, h)
<1>9. \A s \in SUBSET S : g[s] = IF s = {} THEN 0 ELSE w[Pick(s)] + g[s \ {Pick(s)}]
  BY ONLY <1>8 DEF SumsOver, Adding
<1>10. g[{}] = 0
  <2>1. {} \in SUBSET S
    OBVIOUS
  <2>2. QED
    BY ONLY <1>9, <2>1
<1>11. g[{1}] = x /\ g[{2}] = y
  <2>1. ASSUME NEW i \in {1, 2} PROVE g[{i}] = w[i] + 0
    <3>1. Pick({i}) = i
      <4>1. Pick({i}) \in {i}
        BY PickIn
      <4>2. QED
        BY <4>1
    <3>2. {i} \in SUBSET S /\ {i} # {} /\ {i} \ {i} = {}
      BY <1>2
    <3>3. g[{i}] = w[Pick({i})] + g[{i} \ {Pick({i})}]
      BY ONLY <1>9, <3>2
    <3>4. QED
      BY ONLY <1>10, <3>1, <3>2, <3>3
  <2>2. g[{1}] = w[1] + 0 /\ g[{2}] = w[2] + 0
    BY ONLY <2>1
  <2>3. QED
    BY ONLY <1>3, <2>2, x \in Int, y \in Int
<1>12. g[{1, 2}] = x + y
  <2>1. Pick({1, 2}) \in {1, 2}
    BY PickIn
  <2>2. {1, 2} \in SUBSET S /\ {1, 2} # {}
    BY <1>2
  <2>3. g[{1, 2}] = w[Pick({1, 2})] + g[{1, 2} \ {Pick({1, 2})}]
    BY ONLY <1>9, <2>2
  <2>4. {1, 2} \ {1} = {2} /\ {1, 2} \ {2} = {1}
    OBVIOUS
  <2>5. CASE Pick({1, 2}) = 1
    BY ONLY <1>3, <1>11, <2>3, <2>4, <2>5
  <2>6. CASE Pick({1, 2}) = 2
    <3>1. g[{1, 2}] = y + x
      BY ONLY <1>3, <1>11, <2>3, <2>4, <2>6
    <3>2. QED
      BY ONLY <3>1, x \in Int, y \in Int
  <2>7. QED
    BY ONLY <2>1, <2>5, <2>6
<1>13. QED
  BY <1>2, <1>12

\* The click studies fuse as the fusion study does.
LEMMA ClickFusionIs ==
    ASSUME NEW data, HasRankings(data), NEW q, NEW k \in Nat
    PROVE  Sorted(RRFScores(<<ScoresOf(data.lex, q), ScoresOf(data.dense, q)>>, k, DEPTH))
               = Order(rrf(Ranking(data.lex, q), Ranking(data.dense, q), k, 2 * DEPTH))
<1>1. PICK lex, dense : lex = Ranking(data.lex, q) /\ dense = Ranking(data.dense, q)
  OBVIOUS
<1>2. IsRanking(lex) /\ IsRanking(dense) /\ IsRanking(truncate(lex)) /\ IsRanking(truncate(dense))
  BY <1>1, RankingsAre, TruncatedIs
<1>3. PICK a, b : a = ScoresOf(data.lex, q) /\ b = ScoresOf(data.dense, q)
  OBVIOUS
<1>4. /\ a = [d \in Docs(lex) |-> lex[RankOf(lex, d)].score]
      /\ b = [d \in Docs(dense) |-> dense[RankOf(dense, d)].score]
  BY Zenon, <1>1, <1>3 DEF ScoresOf
<1>5. PICK la, lb : la = Top(Sorted(a), DEPTH) /\ lb = Top(Sorted(b), DEPTH)
  OBVIOUS
<1>6. /\ Range(la) = Docs(truncate(lex)) /\ \A d : ListShare(la, k, d) = Share(truncate(lex), k, d)
      /\ Range(lb) = Docs(truncate(dense)) /\ \A d : ListShare(lb, k, d) = Share(truncate(dense), k, d)
  BY ONLY <1>2, <1>4, <1>5, ListShareIs
<1>7. PICK runs, S : runs = <<a, b>> /\ S = DOMAIN runs
  OBVIOUS
<1>8. S = {1, 2} /\ runs[1] = a /\ runs[2] = b
  <2>1. S = 1 .. 2
    BY <1>7
  <2>2. 1 .. 2 = {1, 2}
    OBVIOUS
  <2>3. QED
    BY <1>7, <2>1, <2>2
<1>9. RRFScores(runs, k, DEPTH) =
          [d \in UNION {Range(Top(Sorted(runs[i]), DEPTH)) : i \in DOMAIN runs} |->
              (CHOOSE h : SharesSummed(runs, k, DEPTH, d, h))[DOMAIN runs]]
  BY Zenon DEF RRFScores, MapThenSumSet, MapThenFoldSet, SharesSummed, ListShare, Pick
<1>10. UNION {Range(Top(Sorted(runs[i]), DEPTH)) : i \in DOMAIN runs} = Pooled(lex, dense)
  <2>1. {Range(Top(Sorted(runs[i]), DEPTH)) : i \in S} = {Range(la), Range(lb)}
    BY ONLY <1>5, <1>8
  <2>2. UNION {Range(la), Range(lb)} = Range(la) \cup Range(lb)
    OBVIOUS
  <2>3. QED
    BY ONLY <1>6, <1>7, <2>1, <2>2 DEF Pooled
<1>11. ASSUME NEW d
       PROVE  (CHOOSE h : SharesSummed(runs, k, DEPTH, d, h))[DOMAIN runs] = Share(truncate(lex), k, d) + Share(truncate(dense), k, d)
  <2>1. PICK x \in Int, y \in Int : x = Share(truncate(lex), k, d) /\ y = Share(truncate(dense), k, d)
    BY <1>2, ShareIs
  <2>2. x = ListShare(Top(Sorted(a), DEPTH), k, d) /\ y = ListShare(Top(Sorted(b), DEPTH), k, d)
    BY ONLY <1>5, <1>6, <2>1
  <2>3. PICK g : g = CHOOSE h : SharesSummed(runs, k, DEPTH, d, h)
    OBVIOUS
  <2>4. g[DOMAIN runs] = x + y
    BY ONLY <1>7, <2>2, <2>3, TwoShares, x \in Int, y \in Int
  <2>5. QED
    BY ONLY <2>1, <2>3, <2>4
<1>12. PICK f : f = Shares(lex, dense, k)
  OBVIOUS
<1>13. RRFScores(runs, k, DEPTH) = f
  BY ONLY <1>9, <1>10, <1>11, <1>12 DEF Shares
<1> DEFINE c == [kind |-> "rrf", p |-> k]
<1>14. Numbered(DOMAIN f, f) /\ DOMAIN f = Pooled(lex, dense)
  <2>1. IsConfig(c) /\ f = FusedScores(c, lex, dense)
    BY <1>12 DEF IsConfig, FusedScores
  <2> HIDE DEF c
  <2>2. QED
    BY ONLY <1>2, <2>1, FusedScoresAre
<1>15. DEPTH \in Nat /\ 2 * DEPTH \in Nat
  BY GridAssumption
<1>16. rrf(lex, dense, k, 2 * DEPTH) = sort_fused(f, 2 * DEPTH)
  BY Zenon, <1>12 DEF rrf, Shares, Pooled
<1>17. FusedFrom(sort_fused(f, 2 * DEPTH), f, 2 * DEPTH)
  BY ONLY <1>14, <1>15, FusedIs
<1>18. Order(sort_fused(f, 2 * DEPTH)) = Top(Sorted(f), 2 * DEPTH)
  BY ONLY <1>17 DEF FusedFrom
<1>19. IsSeq(Sorted(f)) /\ Len(Sorted(f)) <= 2 * DEPTH
  <2>1. IsSeq(Sorted(f)) /\ Len(Sorted(f)) = Cardinality(DOMAIN f)
    BY ONLY <1>14, SortedLists DEF Listing
  <2>2. Cardinality(Pooled(lex, dense)) <= 2 * DEPTH
    BY ONLY <1>2, PooledIs
  <2>3. QED
    BY ONLY <1>14, <2>1, <2>2
<1>20. Top(Sorted(f), 2 * DEPTH) = Sorted(f)
  BY ONLY <1>15, <1>19, WholeIsTop
<1>21. QED
  BY ONLY <1>1, <1>3, <1>7, <1>13, <1>16, <1>18, <1>20

-----------------------------------------------------------------------------
(* The correction for many tests. *)
LEMMA LesserNumber == ASSUME NEW a \in Int, NEW b \in Int PROVE Min({a, b}) = IF a <= b THEN a ELSE b
BY DEF Min

Scaled(p, o, m, j) == (m - j + 1) * p[o[j]]
HolmAt(p, One, m, o) ==
    [i \in 1 .. m |-> [j \in 1 .. m |-> Max({Min({One, Scaled(p, o, m, h)}) : h \in 1 .. j})]
                           [CHOOSE j \in 1 .. m : o[j] = i]]

LEMMA HolmUnfolds ==
    ASSUME NEW p, NEW One
    PROVE  holm_bonferroni(p, One) = HolmAt(p, One, Len(p), StableOrder(p))
BY Zenon DEF holm_bonferroni, HolmAt, Scaled

\* Holm's adjusted p-values reject what the sequential rule rejects.
LEMMA HolmRejects ==
    ASSUME NEW m \in Nat, NEW p, m = Len(p), DOMAIN p = 1 .. m, \A i \in 1 .. m : p[i] \in Int,
           NEW One \in Int, NEW alpha \in Int, alpha < One
    PROVE  HolmIsSequential(p, alpha, One)
<1>1. PICK o : o = StableOrder(p)
  OBVIOUS
<1>2. ByLength(p, m, o)
  <2>1. o = LengthOrder(p)
    BY Zenon, <1>1 DEF StableOrder, LengthOrder
  <2>2. Measured(p, m)
    BY DEF Measured
  <2>3. QED
    BY ONLY <2>1, <2>2, LengthOrderIs, m \in Nat
<1>3. /\ DOMAIN o = 1 .. m /\ IsInjective(o)
      /\ \A i \in 1 .. m : o[i] \in 1 .. m /\ \E n \in 1 .. m : o[n] = i
  BY ONLY <1>2 DEF ByLength
<1> DEFINE adj == [j \in 1 .. m |-> Min({One, Scaled(p, o, m, j)})]
<1>4. ASSUME NEW j \in 1 .. m
      PROVE  adj[j] \in Int /\ Scaled(p, o, m, j) \in Int /\ (adj[j] <= alpha <=> Scaled(p, o, m, j) <= alpha)
  <2>1. PICK a, b : a = m - j + 1 /\ b = p[o[j]] /\ a \in Int /\ b \in Int
    <3>1. m - j + 1 \in Int /\ p[o[j]] \in Int
      BY <1>3
    <3>2. QED
      BY ONLY <3>1
  <2>2. PICK s \in Int : s = Scaled(p, o, m, j)
    BY <2>1 DEF Scaled
  <2>3. adj[j] = IF One <= s THEN One ELSE s
    BY <2>2, LesserNumber
  <2> HIDE DEF adj
  <2>4. QED
    BY <2>2, <2>3
<1> HIDE DEF adj
<1> DEFINE greatest == [j \in 1 .. m |-> Max({adj[h] : h \in 1 .. j})]
<1>5. ASSUME NEW j \in 1 .. m
      PROVE  greatest[j] <= alpha <=> \A h \in 1 .. j : Scaled(p, o, m, h) <= alpha
  <2>1. PICK g : g = greatest[j] /\ g = Max({adj[h] : h \in 1 .. j})
    OBVIOUS
  <2>2. Numbered(1 .. j, adj) /\ 1 .. j # {}
    <3>1. 1 \in Int /\ j \in Int
      OBVIOUS
    <3>2. IsFiniteSet(1 .. j)
      BY ONLY <3>1, FS_Interval
    <3>3. 1 .. j \subseteq 1 .. m /\ 1 .. j \subseteq Nat /\ 1 \in 1 .. j
      OBVIOUS
    <3>4. QED
      BY ONLY <1>4, <3>2, <3>3 DEF Numbered
  <2>3. g \in Int /\ (\E h \in 1 .. j : g = adj[h]) /\ \A h \in 1 .. j : g >= adj[h]
    BY ONLY <2>1, <2>2, GreatestScore
  <2>4. g <= alpha <=> \A h \in 1 .. j : adj[h] <= alpha
    <3>1. \A h \in 1 .. j : adj[h] \in Int
      BY ONLY <2>2 DEF Numbered
    <3>2. QED
      BY ONLY <2>3, <3>1, alpha \in Int
  <2>5. \A h \in 1 .. j : h \in 1 .. m
    OBVIOUS
  <2>6. QED
    BY ONLY <1>4, <2>1, <2>4, <2>5
<1>6. PICK a : a = holm_bonferroni(p, One)
  OBVIOUS
<1>7. \A i \in 1 .. m : a[i] = greatest[CHOOSE j \in 1 .. m : o[j] = i]
  <2>1. a = [i \in 1 .. m |-> [j \in 1 .. m |-> Max({Min({One, Scaled(p, o, m, h)}) : h \in 1 .. j})]
                                   [CHOOSE j \in 1 .. m : o[j] = i]]
    <3>1. a = HolmAt(p, One, m, o)
      BY ONLY <1>1, <1>6, HolmUnfolds, m = Len(p)
    <3>2. QED
      BY Zenon, <3>1 DEF HolmAt
  <2>2. ASSUME NEW j \in 1 .. m
        PROVE  Max({Min({One, Scaled(p, o, m, h)}) : h \in 1 .. j}) = greatest[j]
    <3>1. \A h \in 1 .. j : adj[h] = Min({One, Scaled(p, o, m, h)})
      BY DEF adj
    <3>2. {Min({One, Scaled(p, o, m, h)}) : h \in 1 .. j} = {adj[h] : h \in 1 .. j}
      BY ONLY <3>1
    <3>3. QED
      BY <3>2
  <2>3. [j \in 1 .. m |-> Max({Min({One, Scaled(p, o, m, h)}) : h \in 1 .. j})] = greatest
    <3>1. greatest = [j \in 1 .. m |-> greatest[j]]
      OBVIOUS
    <3> HIDE DEF greatest
    <3>2. QED
      BY ONLY <2>2, <3>1
  <2>4. QED
    BY ONLY <2>1, <2>3
<1> HIDE DEF greatest
<1>8. ASSUME NEW j \in 1 .. m PROVE (CHOOSE n \in 1 .. m : o[n] = o[j]) = j
  BY ONLY <1>3, j \in 1 .. m DEF IsInjective
<1>9. \A j \in 1 .. m : a[o[j]] <= alpha <=> \A h \in 1 .. j : Scaled(p, o, m, h) <= alpha
  <2>1. TAKE j \in 1 .. m
  <2>2. a[o[j]] = greatest[CHOOSE n \in 1 .. m : o[n] = o[j]]
    BY ONLY <1>3, <1>7, j \in 1 .. m
  <2>3. QED
    BY ONLY <1>5, <1>8, <2>2, j \in 1 .. m
<1>10. SequentiallyRejected(p, alpha) = {o[j] : j \in {i \in 1 .. m : \A h \in 1 .. i : Scaled(p, o, m, h) <= alpha}}
  <2>1. SequentiallyRejected(p, alpha) =
            {StableOrder(p)[j] : j \in {i \in 1 .. Len(p) : \A h \in 1 .. i : Scaled(p, StableOrder(p), Len(p), h) <= alpha}}
    BY Zenon DEF SequentiallyRejected, Scaled
  <2>2. QED
    BY ONLY <1>1, <2>1, m = Len(p)
<1>11. {i \in 1 .. m : a[i] <= alpha} = {o[j] : j \in {i \in 1 .. m : \A h \in 1 .. i : Scaled(p, o, m, h) <= alpha}}
  <2>1. ASSUME NEW i \in 1 .. m, a[i] <= alpha
        PROVE  \E j \in {n \in 1 .. m : \A h \in 1 .. n : Scaled(p, o, m, h) <= alpha} : i = o[j]
    BY ONLY <1>3, <1>9, <2>1
  <2>2. ASSUME NEW j \in {i \in 1 .. m : \A h \in 1 .. i : Scaled(p, o, m, h) <= alpha}
        PROVE  o[j] \in 1 .. m /\ a[o[j]] <= alpha
    BY ONLY <1>3, <1>9, <2>2
  <2>3. QED
    BY ONLY <2>1, <2>2
<1>12. QED
  BY ONLY <1>6, <1>10, <1>11, m = Len(p) DEF HolmIsSequential

-----------------------------------------------------------------------------
(* The randomization test. *)
LEMMA TotalIs ==
    ASSUME NEW values, IsFiniteSet(DOMAIN values), \A q \in DOMAIN values : values[q] \in Int
    PROVE  Total(values) \in Int
<1>1. Total(values) = FoldedSum(values, DOMAIN values)
  BY Zenon DEF Total, MapThenSumSet, MapThenFoldSet, FoldedSum, SumsOver, Adding, Pick
<1>2. FoldedSum(values, DOMAIN values) \in Int
  BY SumIsNumber
<1>3. QED
  BY <1>1, <1>2

Signs(Q) == [Q -> {-1, 1}]
LEMMA SignsAreFinite == ASSUME NEW Q, IsFiniteSet(Q) PROVE IsFiniteSet(Signs(Q))
<1> DEFINE f == [T \in SUBSET Q |-> [q \in Q |-> IF q \in T THEN 1 ELSE -1]]
<1>1. f \in [SUBSET Q -> Signs(Q)]
  BY DEF Signs
<1>2. ASSUME NEW s \in Signs(Q) PROVE \E T \in SUBSET Q : f[T] = s
  <2> DEFINE T == {q \in Q : s[q] = 1}
  <2>1. T \in SUBSET Q
    OBVIOUS
  <2>2. s = [q \in Q |-> IF q \in T THEN 1 ELSE -1]
    BY DEF Signs
  <2>3. f[T] = s
    BY <2>1, <2>2
  <2>4. QED
    BY <2>1, <2>3
<1> HIDE DEF f
<1>3. f \in Surjection(SUBSET Q, Signs(Q))
  BY ONLY <1>1, <1>2 DEF Surjection
<1>4. IsFiniteSet(SUBSET Q)
  BY FS_SUBSET
<1>5. QED
  BY ONLY <1>3, <1>4, FS_Surjection

AllSigns(perms, Q) == IsSeq(perms) /\ IsInjective(perms) /\ Range(perms) = Signs(Q)
\* Of a finite set, SetToSeq lists every member once.
LEMMA FlipsAre ==
    ASSUME NEW Q, IsFiniteSet(Q), NEW perms, perms = SetToSeq([Q -> {-1, 1}])
    PROVE  AllSigns(perms, Q) /\ Len(perms) \in Nat
<1>1. PICK S : S = Signs(Q)
  OBVIOUS
<1>2. IsFiniteSet(S)
  BY <1>1, SignsAreFinite
<1>3. PICK n \in Nat : n = Cardinality(S) /\ ExistsBijection(1 .. n, S)
  BY <1>2, FS_CardinalityType
<1>4. \E f \in [1 .. n -> S] : IsInjective(f)
  BY ONLY <1>3 DEF ExistsBijection, Bijection, Injection
<1>5. perms = CHOOSE f \in [1 .. n -> S] : IsInjective(f)
  BY ONLY <1>1, <1>3, perms = SetToSeq([Q -> {-1, 1}]) DEF SetToSeq, Signs
<1>6. perms \in [1 .. n -> S] /\ IsInjective(perms)
  BY ONLY <1>4, <1>5
<1>7. IsSeq(perms) /\ Len(perms) = n
  <2>1. perms = [i \in 1 .. n |-> perms[i]]
    BY <1>6
  <2>2. QED
    BY ONLY <2>1, FunctionIsSeq, n \in Nat
<1>8. Range(perms) = S
  <2>1. Cardinality(Range(perms)) = n
    BY ONLY <1>6, <1>7, NoRepetitions
  <2>2. Range(perms) \in SUBSET S
    BY <1>6 DEF Range
  <2>3. QED
    BY ONLY <1>2, <1>3, <2>1, <2>2, FS_Subset
<1>9. QED
  BY ONLY <1>1, <1>6, <1>7, <1>8, n \in Nat DEF AllSigns

\* So many of the flips have a property as of the signs.
LEMMA FlipsCounted ==
    ASSUME NEW Q, NEW perms, AllSigns(perms, Q), NEW M, M \subseteq Signs(Q)
    PROVE  Cardinality({i \in DOMAIN perms : perms[i] \in M}) = Cardinality(M)
<1>1. PICK I : I = {i \in DOMAIN perms : perms[i] \in M}
  OBVIOUS
<1>2. IsSeq(perms) /\ IsInjective(perms) /\ Range(perms) = Signs(Q)
  BY DEF AllSigns
<1>3. IsFiniteSet(DOMAIN perms)
  <2>1. PICK n \in Nat : DOMAIN perms = 1 .. n
    BY <1>2, SeqIs
  <2>2. 1 \in Int /\ n \in Int
    OBVIOUS
  <2>3. IsFiniteSet(1 .. n)
    BY ONLY <2>2, FS_Interval
  <2>4. QED
    BY <2>1, <2>3
<1>4. M = {perms[i] : i \in I}
  BY <1>1, <1>2 DEF Range
<1>5. I \subseteq DOMAIN perms
  BY <1>1
<1>6. Cardinality(M) = Cardinality(I)
  BY ONLY <1>2, <1>3, <1>4, <1>5, CountedOnce
<1>7. QED
  BY <1>1, <1>6

LEMMA FlipOfFlip ==
    ASSUME NEW Q, NEW s \in Signs(Q), NEW u \in Signs(Q), NEW d, DOMAIN d = Q, \A q \in Q : d[q] \in Int
    PROVE  /\ Flip(s, u) \in Signs(Q) /\ Flip(Flip(s, u), u) = s
           /\ Flip(s, Flip(u, d)) = Flip(Flip(s, u), d)
           /\ DOMAIN Flip(s, d) = Q /\ \A q \in Q : Flip(s, d)[q] \in Int
<1>1. DOMAIN s = Q /\ DOMAIN u = Q /\ s = [q \in Q |-> s[q]]
  BY DEF Signs
<1>2. ASSUME NEW q \in Q
      PROVE  /\ s[q] * u[q] \in {-1, 1} /\ (s[q] * u[q]) * u[q] = s[q]
             /\ s[q] * (u[q] * d[q]) = (s[q] * u[q]) * d[q] /\ s[q] * d[q] \in Int
  <2>1. PICK a \in {-1, 1}, b \in {-1, 1}, x \in Int : a = s[q] /\ b = u[q] /\ x = d[q]
    BY DEF Signs
  <2>2. a * b \in {-1, 1} /\ (a * b) * b = a /\ a * (b * x) = (a * b) * x /\ a * x \in Int
    BY ONLY a \in {-1, 1}, b \in {-1, 1}, x \in Int
  <2>3. QED
    BY ONLY <2>1, <2>2
<1>3. Flip(s, u) = [q \in Q |-> s[q] * u[q]] /\ Flip(u, d) = [q \in Q |-> u[q] * d[q]] /\ Flip(s, d) = [q \in Q |-> s[q] * d[q]]
  BY ONLY <1>1, DOMAIN d = Q DEF Flip
<1>4. /\ DOMAIN Flip(s, u) = Q /\ \A q \in Q : Flip(s, u)[q] = s[q] * u[q]
      /\ DOMAIN Flip(u, d) = Q /\ \A q \in Q : Flip(u, d)[q] = u[q] * d[q]
  BY ONLY <1>3
<1>5. Flip(s, u) \in Signs(Q)
  BY ONLY <1>2, <1>3 DEF Signs
<1>6. Flip(Flip(s, u), u) = s
  <2>1. Flip(Flip(s, u), u) = [q \in Q |-> Flip(s, u)[q] * u[q]]
    BY ONLY <1>1 DEF Flip
  <2>2. QED
    BY ONLY <1>1, <1>2, <1>4, <2>1
<1>7. Flip(s, Flip(u, d)) = Flip(Flip(s, u), d)
  <2>1. Flip(s, Flip(u, d)) = [q \in Q |-> s[q] * Flip(u, d)[q]]
    BY ONLY <1>4 DEF Flip
  <2>2. Flip(Flip(s, u), d) = [q \in Q |-> Flip(s, u)[q] * d[q]]
    BY ONLY DOMAIN d = Q DEF Flip
  <2>3. QED
    BY ONLY <1>2, <1>4, <2>1, <2>2
<1>8. DOMAIN Flip(s, d) = Q /\ \A q \in Q : Flip(s, d)[q] \in Int
  BY ONLY <1>2, <1>3
<1>9. QED
  BY ONLY <1>5, <1>6, <1>7, <1>8

Size(s, d) == Abs(Total(Flip(s, d)))
AsLarge(Q, d, u) == {s \in Signs(Q) : Size(s, d) >= Size(u, d)}
SizesAre(Q, d) == \A s \in Signs(Q) : Size(s, d) \in Nat

LEMMA SizeIs ==
    ASSUME NEW Q, IsFiniteSet(Q), NEW d, DOMAIN d = Q, \A q \in Q : d[q] \in Int
    PROVE  SizesAre(Q, d)
<1>1. ASSUME NEW s \in Signs(Q) PROVE Size(s, d) \in Nat
  <2>1. DOMAIN Flip(s, d) = Q /\ \A q \in Q : Flip(s, d)[q] \in Int
    BY FlipOfFlip
  <2>2. PICK x \in Int : x = Total(Flip(s, d))
    BY ONLY <2>1, TotalIs, IsFiniteSet(Q)
  <2>3. QED
    BY <2>2 DEF Size, Abs
<1>2. QED
  BY <1>1 DEF SizesAre

\* A p-value counts the flips of at least the size of the observed one.
LEMMA ExtremeIs ==
    ASSUME NEW Q, IsFiniteSet(Q), NEW d, DOMAIN d = Q, \A q \in Q : d[q] \in Int,
           NEW perms, AllSigns(perms, Q), NEW u \in Signs(Q)
    PROVE  AsExtreme(Flip(u, d), perms) = Cardinality(AsLarge(Q, d, u)) + 1
<1>1. \A i \in DOMAIN perms : perms[i] \in Signs(Q)
  BY DEF AllSigns, Range
<1> DEFINE M == {s \in Signs(Q) : Size(Flip(s, u), d) >= Size(u, d)}
           g == [s \in M |-> Flip(s, u)]
<1>2. {i \in DOMAIN perms : Abs(Total(Flip(perms[i], Flip(u, d)))) >= Abs(Total(Flip(u, d)))}
          = {i \in DOMAIN perms : perms[i] \in M}
  <2>1. ASSUME NEW i \in DOMAIN perms
        PROVE  Abs(Total(Flip(perms[i], Flip(u, d)))) = Size(Flip(perms[i], u), d)
    <3>1. Flip(perms[i], Flip(u, d)) = Flip(Flip(perms[i], u), d)
      BY <1>1, FlipOfFlip
    <3>2. QED
      BY ONLY <3>1 DEF Size
  <2>2. Abs(Total(Flip(u, d))) = Size(u, d)
    BY DEF Size
  <2>3. QED
    BY <1>1, <2>1, <2>2
<1>3. AsExtreme(Flip(u, d), perms) = Cardinality({i \in DOMAIN perms : perms[i] \in M}) + 1
  BY Zenon, <1>2 DEF AsExtreme
<1>4. Cardinality({i \in DOMAIN perms : perms[i] \in M}) = Cardinality(M)
  <2>1. M \subseteq Signs(Q)
    OBVIOUS
  <2> HIDE DEF M
  <2>2. QED
    BY <2>1, FlipsCounted
<1>5. g \in Bijection(M, AsLarge(Q, d, u))
  <2>1. ASSUME NEW s \in Signs(Q) PROVE Flip(s, u) \in Signs(Q) /\ Flip(Flip(s, u), u) = s
    BY FlipOfFlip
  <2>2. ASSUME NEW s \in M PROVE g[s] \in AsLarge(Q, d, u)
    BY <2>1 DEF AsLarge
  <2>3. ASSUME NEW s \in M, NEW t \in M, g[s] = g[t] PROVE s = t
    <3>1. Flip(Flip(s, u), u) = Flip(Flip(t, u), u)
      BY <2>3
    <3>2. QED
      BY <2>1, <3>1
  <2>4. ASSUME NEW t \in AsLarge(Q, d, u) PROVE \E s \in M : g[s] = t
    <3>1. t \in Signs(Q) /\ Size(t, d) >= Size(u, d)
      BY DEF AsLarge
    <3>2. Flip(t, u) \in Signs(Q) /\ Flip(Flip(t, u), u) = t
      BY <2>1, <3>1
    <3>3. Flip(t, u) \in M
      BY <3>1, <3>2
    <3>4. g[Flip(t, u)] = t
      BY <3>2, <3>3
    <3>5. QED
      BY <3>3, <3>4
  <2>5. g = [s \in M |-> g[s]]
    OBVIOUS
  <2> HIDE DEF g, M
  <2>6. g \in [M -> AsLarge(Q, d, u)]
    BY ONLY <2>2, <2>5
  <2>7. DOMAIN g = M
    BY ONLY <2>5
  <2>8. QED
    BY ONLY <2>3, <2>4, <2>6, <2>7 DEF Bijection, Injection, Surjection, IsInjective
<1>6. IsFiniteSet(M)
  <2>1. M \in SUBSET Signs(Q)
    OBVIOUS
  <2> HIDE DEF M
  <2>2. QED
    BY <2>1, SignsAreFinite, FS_Subset
<1> HIDE DEF M, g
<1>7. Cardinality(AsLarge(Q, d, u)) = Cardinality(M)
  <2>1. ExistsBijection(M, AsLarge(Q, d, u))
    BY ONLY <1>5 DEF ExistsBijection
  <2>2. QED
    BY ONLY <1>6, <2>1, FS_Bijection
<1>8. QED
  BY ONLY <1>3, <1>4, <1>7

\* A p-value of c or less comes up in at most c - 1 of the cases.
LEMMA RandomizationHolds ==
    ASSUME NEW Q, IsFiniteSet(Q), NEW d, DOMAIN d = Q, \A q \in Q : d[q] \in Int,
           NEW perms, AllSigns(perms, Q)
    PROVE  RandomizationIsValid(d, perms)
<1>1. \A i \in DOMAIN perms : perms[i] \in Signs(Q)
  BY DEF AllSigns, Range
<1>2. IsFiniteSet(Signs(Q)) /\ SizesAre(Q, d)
  BY SignsAreFinite, SizeIs
<1>3. \A u \in Signs(Q) : IsFiniteSet(AsLarge(Q, d, u)) /\ Cardinality(AsLarge(Q, d, u)) \in Nat
  <2>1. ASSUME NEW u \in Signs(Q) PROVE IsFiniteSet(AsLarge(Q, d, u)) /\ Cardinality(AsLarge(Q, d, u)) \in Nat
    <3>1. AsLarge(Q, d, u) \in SUBSET Signs(Q)
      BY DEF AsLarge
    <3>2. QED
      BY <1>2, <3>1, FS_Subset, FS_CardinalityType
  <2>2. QED
    BY <2>1
<1>4. ASSUME NEW c \in 1 .. Len(perms)
      PROVE  Cardinality({i \in DOMAIN perms : AsExtreme(Flip(perms[i], d), perms) <= c}) <= c - 1
  <2> DEFINE M == {u \in Signs(Q) : Cardinality(AsLarge(Q, d, u)) + 1 <= c}
  <2>1. {i \in DOMAIN perms : AsExtreme(Flip(perms[i], d), perms) <= c} = {i \in DOMAIN perms : perms[i] \in M}
    <3>1. \A i \in DOMAIN perms : AsExtreme(Flip(perms[i], d), perms) = Cardinality(AsLarge(Q, d, perms[i])) + 1
      BY <1>1, ExtremeIs
    <3>2. QED
      BY ONLY <1>1, <3>1
  <2>2. Cardinality({i \in DOMAIN perms : perms[i] \in M}) = Cardinality(M)
    <3>1. M \subseteq Signs(Q)
      OBVIOUS
    <3> HIDE DEF M
    <3>2. QED
      BY <3>1, FlipsCounted
  <2>3. c \in Nat /\ 1 <= c
    <3>1. Len(perms) \in Nat
      BY SeqIs DEF AllSigns
    <3>2. QED
      BY <3>1
  <2>4. Cardinality(M) <= c - 1
    <3>1. CASE M = {}
      <4>1. Cardinality(M) = 0
        BY ONLY <3>1, FS_EmptySet
      <4>2. QED
        BY ONLY <2>3, <4>1
    <3>2. CASE M # {}
      <4> DEFINE sizes == {Size(u, d) : u \in M}
      <4>1. sizes \in SUBSET Nat /\ sizes # {}
        BY <1>2, <3>2 DEF SizesAre
      <4>2. PICK n \in sizes : \A k \in sizes : n <= k
        <5> HIDE DEF sizes
        <5> QED BY ONLY <4>1, LeastOf
      <4>3. PICK u \in M : \A s \in M : Size(s, d) >= Size(u, d)
        <5>1. PICK u \in M : n = Size(u, d)
          OBVIOUS
        <5>2. \A s \in M : Size(s, d) \in Nat /\ Size(u, d) \in Nat /\ Size(u, d) <= Size(s, d)
          BY <4>1, <4>2, <5>1
        <5>3. QED
          BY ONLY <5>2, u \in M
      <4>4. u \in Signs(Q) /\ Cardinality(AsLarge(Q, d, u)) + 1 <= c
        OBVIOUS
      <4>5. M \in SUBSET AsLarge(Q, d, u)
        BY <4>3 DEF AsLarge
      <4> HIDE DEF M
      <4>6. Cardinality(M) <= Cardinality(AsLarge(Q, d, u)) /\ Cardinality(M) \in Nat
        <5>1. IsFiniteSet(AsLarge(Q, d, u))
          BY <1>3, <4>4
        <5>2. QED
          BY ONLY <4>5, <5>1, FS_Subset, FS_CardinalityType
      <4>7. PICK a, b : a = Cardinality(M) /\ b = Cardinality(AsLarge(Q, d, u)) /\ a \in Nat /\ b \in Nat
        BY <1>3, <4>4, <4>6
      <4>8. QED
        BY ONLY <2>3, <4>4, <4>6, <4>7
    <3>3. QED
      BY <3>1, <3>2
  <2> HIDE DEF M
  <2>5. QED
    BY ONLY <2>1, <2>2, <2>4
<1>5. QED
  BY ONLY <1>4 DEF RandomizationIsValid

LEMMA ExtremeIsNumber ==
    ASSUME NEW d, NEW perms, IsSeq(perms) PROVE AsExtreme(d, perms) \in Nat
<1>1. PICK I : I = {i \in DOMAIN perms : Abs(Total(Flip(perms[i], d))) >= Abs(Total(d))}
  OBVIOUS
<1>2. IsFiniteSet(DOMAIN perms)
  <2>1. PICK n \in Nat : DOMAIN perms = 1 .. n
    BY SeqIs
  <2>2. 1 \in Int /\ n \in Int
    OBVIOUS
  <2>3. IsFiniteSet(1 .. n)
    BY ONLY <2>2, FS_Interval
  <2>4. QED
    BY <2>1, <2>3
<1>3. I \in SUBSET DOMAIN perms
  BY <1>1
<1>4. Cardinality(I) \in Nat
  BY ONLY <1>2, <1>3, FS_Subset, FS_CardinalityType
<1>5. AsExtreme(d, perms) = Cardinality(I) + 1
  BY ONLY <1>1 DEF AsExtreme
<1>6. QED
  BY <1>4, <1>5

-----------------------------------------------------------------------------
(* Tuning, on judged queries. *)
HasJudgments(qrels) ==
    IsFiniteSet(DOMAIN qrels) /\ \A q \in DOMAIN qrels : Numbered(DOMAIN qrels[q], qrels[q]) /\ Range(qrels[q]) \subseteq Nat

Gains(ranked, qrel, n) == [i \in 1 .. n |-> Grade(qrel, ranked[i])]
Ideal(sorted, qrel, n) == [i \in 1 .. n |-> qrel[sorted[i]]]

\* The nDCG of a list at 2 is a number, from a nonzero ideal.
LEMMA NdcgIsNumber ==
    ASSUME NEW list, IsSeq(list), NEW qrel, Numbered(DOMAIN qrel, qrel), Range(qrel) \subseteq Nat
    PROVE  ndcg_at_k(list, qrel, 2) \in Int
<1>1. PICK s : s = Sorted(qrel)
  OBVIOUS
<1>2. IsSeq(s) /\ Range(s) = DOMAIN qrel
  BY <1>1, SortedLists, Zenon DEF Listing
<1>3. PICK n : n = Len(Top(list, 2)) /\ n \in 0 .. 6
  <2>1. Len(Top(list, 2)) \in Nat /\ Len(Top(list, 2)) <= 2
    BY TopIs
  <2>2. PICK l : l = Len(Top(list, 2)) /\ l \in Nat /\ l <= 2
    BY <2>1
  <2>3. QED
    BY ONLY <2>2
<1>4. PICK m : m = Len(Top(s, 2)) /\ m \in 0 .. 6 /\ \A i \in 1 .. m : s[i] \in DOMAIN qrel
  <2>1. Len(Top(s, 2)) \in Nat /\ Len(Top(s, 2)) <= 2 /\ Len(Top(s, 2)) <= Len(s) /\ Len(s) \in Nat
    BY <1>2, TopIs, SeqIs
  <2>2. PICK l, k : l = Len(Top(s, 2)) /\ l \in Nat /\ l <= 2 /\ k = Len(s) /\ k \in Nat /\ l <= k
    BY <2>1
  <2>3. \A i \in 1 .. k : s[i] \in DOMAIN qrel
    BY ONLY <1>2, <2>2, SeqIs DEF Range
  <2>4. PICK l2 \in Nat : l2 = l /\ l2 <= 2
    BY ONLY <2>2
  <2>5. l \in 0 .. 6
    BY ONLY <2>4
  <2>6. \A i \in 1 .. l : i \in 1 .. k
    BY ONLY <2>2
  <2>7. QED
    BY ONLY <2>2, <2>3, <2>5, <2>6
<1>5. \A d : Grade(qrel, d) \in Nat
  BY DEF Grade, Range
<1>6. DCG(Gains(list, qrel, n)) \in Nat
  <2>1. PICK g : g = Gains(list, qrel, n)
    OBVIOUS
  <2>2. g = [i \in 1 .. n |-> g[i]] /\ \A i \in 1 .. n : g[i] \in Nat
    BY <1>5, <2>1 DEF Gains
  <2>3. QED
    BY <1>3, <2>1, <2>2, DCGIs
<1>7. DCG(Ideal(s, qrel, m)) \in Nat
  <2>1. PICK g : g = Ideal(s, qrel, m)
    OBVIOUS
  <2>2. g = [i \in 1 .. m |-> g[i]] /\ \A i \in 1 .. m : g[i] \in Nat
    BY <1>4, <2>1 DEF Ideal, Range
  <2>3. QED
    BY <1>4, <2>1, <2>2, DCGIs
<1>8. ndcg_at_k(list, qrel, 2)
         = IF DCG(Ideal(s, qrel, m)) = 0 THEN 0 ELSE (Unit * DCG(Gains(list, qrel, n))) \div DCG(Ideal(s, qrel, m))
  BY <1>1, <1>3, <1>4, Zenon DEF ndcg_at_k, Gains, Ideal, Sorted
<1>9. PICK g, h : g = DCG(Gains(list, qrel, n)) /\ h = DCG(Ideal(s, qrel, m)) /\ g \in Nat /\ h \in Nat
  BY <1>6, <1>7
<1>10. Unit * g \in Int
  BY ONLY <1>9, UnitAssumption
<1>11. h # 0 => (Unit * g) \div h \in Int
  <2>1. PICK u : u = Unit * g /\ u \in Int
    BY <1>10
  <2>2. h # 0 => u \div h \in Int
    BY ONLY <1>9, <2>1, QuotientIs
  <2>3. QED
    BY <2>1, <2>2
<1>12. QED
  BY ONLY <1>8, <1>9, <1>11

\* What a run holds of a query is a list of scores.
LEMMA EmptyIsRanked == IsSeq(rank_run(Empty))
<1>1. PICK f : f = Empty
  OBVIOUS
<1>2. Numbered(DOMAIN f, f)
  <2>1. DOMAIN f = {}
    BY <1>1 DEF Empty
  <2>2. QED
    BY <2>1, FS_EmptySet DEF Numbered
<1>3. QED
  BY <1>1, <1>2, RunIsRanked DEF Listing

Ranks(run, qrels) == \A q \in DOMAIN qrels \cap DOMAIN run : IsSeq(rank_run(run[q]))
Valued(values, qrels) == DOMAIN values = DOMAIN qrels /\ \A q \in DOMAIN values : values[q] \in Int

LEMMA MetricIsNumber ==
    ASSUME NEW qrels, HasJudgments(qrels), NEW list, IsSeq(list), NEW q \in DOMAIN qrels, NEW m, m = Metric("nDCG", 2, 1)
    PROVE  metric_value(m, list, qrels[q]) \in Int
<1>1. metric_value(m, list, qrels[q]) = ndcg_at_k(list, qrels[q], 2)
  BY MetricIs
<1>2. QED
  BY <1>1, NdcgIsNumber, Zenon DEF HasJudgments

\* Evaluation gives every judged query a number.
LEMMA EvaluationIs ==
    ASSUME NEW qrels, HasJudgments(qrels), NEW run, Ranks(run, qrels), NEW m, m = Metric("nDCG", 2, 1)
    PROVE  Valued(evaluate(run, qrels, m), qrels)
<1>1. PICK v : v = evaluate(run, qrels, m)
  OBVIOUS
<1>2. DOMAIN v = DOMAIN qrels
  BY <1>1, Zenon DEF evaluate
<1>3. ASSUME NEW q \in DOMAIN qrels PROVE v[q] \in Int
  <2>1. PICK list : list = rank_run(IF q \in DOMAIN run THEN run[q] ELSE Empty)
    OBVIOUS
  <2>2. v[q] = metric_value(m, list, qrels[q])
    BY <1>1, <1>3, <2>1, Zenon DEF evaluate
  <2>3. IsSeq(list)
    <3>1. CASE q \in DOMAIN run
      BY <1>3, <2>1, <3>1 DEF Ranks
    <3>2. CASE q \notin DOMAIN run
      BY <2>1, <3>2, EmptyIsRanked
    <3>3. QED
      BY <3>1, <3>2
  <2>4. QED
    BY <2>2, <2>3, MetricIsNumber
<1>4. QED
  BY <1>1, <1>2, <1>3, Zenon DEF Valued

\* The value that the sweep gives a configuration is a number.
LEMMA SweptIsNumber ==
    ASSUME NEW data, HasRankings(data), HasJudgments(data.qrels), NEW c, IsConfig(c), NEW m, m = Metric("nDCG", 2, 1)
    PROVE  Valued(SweptValues(c, data, m), data.qrels) /\ Total(SweptValues(c, data, m)) \in Int
<1>1. PICK v : v = SweptValues(c, data, m)
  OBVIOUS
<1>2. DOMAIN v = DOMAIN data.qrels
  BY <1>1, Zenon DEF SweptValues
<1>3. ASSUME NEW q \in DOMAIN data.qrels PROVE v[q] \in Int
  <2>1. PICK lex, dense : lex = Ranking(data.lex, q) /\ dense = Ranking(data.dense, q)
    OBVIOUS
  <2>2. PICK k : k = m.k /\ k \in Nat
    BY DEF Metric
  <2>3. PICK r : r = FastFused(c, prepare(lex, dense), k)
    OBVIOUS
  <2>4. v[q] = metric_value(m, Order(r), data.qrels[q])
    BY <1>1, <1>3, <2>1, <2>2, <2>3, Zenon DEF SweptValues
  <2>5. IsRanking(lex) /\ IsRanking(dense)
    BY <2>1, RankingsAre
  <2>6. PICK f : f = FusedScores(c, lex, dense)
    OBVIOUS
  <2>7. Numbered(DOMAIN f, f) /\ r = sort_fused(f, k)
    BY <2>3, <2>5, <2>6, FusedScoresAre, FastIsReference
  <2>8. IsSeq(Order(r))
    BY <2>2, <2>7, FusedIs DEF FusedFrom
  <2>9. QED
    BY <1>3, <2>4, <2>8, MetricIsNumber
<1>4. Valued(v, data.qrels)
  BY <1>2, <1>3, Zenon DEF Valued
<1>5. IsFiniteSet(DOMAIN v)
  BY <1>2 DEF HasJudgments
<1>6. Total(v) \in Int
  BY <1>4, <1>5, TotalIs DEF Valued
<1>7. QED
  BY <1>1, <1>4, <1>6

LEMMA SmallestIs ==
    ASSUME NEW M \in SUBSET Nat, M # {} PROVE Min(M) \in M
<1>1. PICK a \in M : \A b \in M : a <= b
  BY LeastOf
<1>2. QED
  BY <1>1, Zenon DEF Min

\* Of finitely many there is a first best.
LEMMA FirstOfBest ==
    ASSUME NEW S, NEW v, Numbered(S, v), S # {}, NEW B, B = {i \in S : \A j \in S : v[j] <= v[i]}
    PROVE  Min(B) \in S
<1>1. PICK R : R = ByScore(S, v, Less)
  OBVIOUS
<1>2. PICK s : s = ByScoreThenRow(v, S)
  OBVIOUS
<1>3. Listing(S, R, s)
  BY <1>1, <1>2, RowsAreListed
<1>4. IsSeq(s) /\ Range(s) = S /\ \A i, j \in DOMAIN s : i < j => <<s[i], s[j]>> \in R
  BY <1>3, Zenon DEF Listing
<1>5. PICK x : x = s[1] /\ x \in B
  <2>1. PICK n : n = Len(s) /\ n \in Nat /\ DOMAIN s = 1 .. n
    BY <1>4, SeqIs
  <2>2. n # 0
    BY <1>4, <2>1 DEF Range
  <2>3. 1 \in DOMAIN s /\ \A j \in DOMAIN s : j = 1 \/ 1 < j
    BY <2>1, <2>2
  <2>4. s[1] \in S
    BY <1>4, <2>3 DEF Range
  <2>5. ASSUME NEW j \in S PROVE v[j] <= v[s[1]]
    <3>1. PICK i \in DOMAIN s : s[i] = j
      BY <1>4, <2>5 DEF Range
    <3>2. v[j] \in Int
      BY <2>5 DEF Numbered
    <3>3. CASE i = 1
      BY <3>1, <3>2, <3>3
    <3>4. CASE 1 < i
      <4>1. <<s[1], j>> \in R
        BY <1>4, <2>3, <3>1, <3>4
      <4>2. v[s[1]] > v[j] \/ v[s[1]] = v[j]
        BY <1>1, <2>4, <2>5, <4>1, ByScoreIs
      <4>3. v[s[1]] \in Int
        BY <2>4 DEF Numbered
      <4>4. QED
        BY <3>2, <4>2, <4>3
    <3>5. QED
      BY <2>3, <3>1, <3>3, <3>4
  <2>6. QED
    BY <2>4, <2>5
<1>6. B \in SUBSET Nat
  BY DEF Numbered
<1>7. Min(B) \in B
  BY <1>5, <1>6, SmallestIs
<1>8. QED
  BY <1>7

\* Tuning picks a configuration of its kind from the grid.
LEMMA TunedIs ==
    ASSUME NEW tune, HasRankings(tune), HasJudgments(tune.qrels), NEW m, m = Metric("nDCG", 2, 1), NEW kind \in {"rrf", "wsum"}
    PROVE  Gridded(FirstBest(kind, tune, m)) /\ IsConfig(FirstBest(kind, tune, m))
<1>1. PICK n : n = Len(Configs) /\ n \in Nat
  BY GridIs
<1>2. PICK S : S = {i \in 1 .. n : Configs[i].kind = kind}
  OBVIOUS
<1>3. S # {}
  BY <1>1, <1>2, GridIs
<1>4. PICK v : v = [i \in S |-> Total(SweptValues(Configs[i], tune, m))]
  OBVIOUS
<1>5. \A i \in S : Gridded(Configs[i])
  BY <1>1, <1>2, GridIs
<1>6. ASSUME NEW i \in S PROVE v[i] \in Int
  <2>1. IsConfig(Configs[i])
    BY <1>5, <1>6, GriddedIs
  <2>2. Total(SweptValues(Configs[i], tune, m)) \in Int
    BY <2>1, SweptIsNumber
  <2>3. QED
    BY <1>4, <1>6, <2>2
<1>7. Numbered(S, v)
  <2>1. IsFiniteSet(1 .. n) /\ S \subseteq 1 .. n
    <3>1. 1 \in Int /\ n \in Int
      BY <1>1
    <3>2. IsFiniteSet(1 .. n)
      BY <3>1, FS_Interval
    <3>3. QED
      BY <1>2, <3>2
  <2>2. IsFiniteSet(S)
    BY <2>1, FS_Subset
  <2>3. S \subseteq Nat
    BY <1>1, <1>2
  <2>4. QED
    BY <1>6, <2>2, <2>3, Zenon DEF Numbered
<1>8. PICK B : B = {i \in S : \A j \in S : v[j] <= v[i]}
  OBVIOUS
<1>9. Min(B) \in S
  BY <1>3, <1>7, <1>8, FirstOfBest
<1>10. B = {i \in S : \A j \in S : Total(SweptValues(Configs[j], tune, m)) <= Total(SweptValues(Configs[i], tune, m))}
  BY <1>4, <1>8
<1>11. FirstBest(kind, tune, m) = Configs[Min(B)]
  BY <1>1, <1>2, <1>10, Zenon DEF FirstBest
<1>12. Gridded(Configs[Min(B)])
  BY <1>5, <1>9
<1>13. QED
  BY <1>11, <1>12, GriddedIs

\* The systems of the study.
Compared(systems) ==
    /\ DOMAIN systems = {"rrf_tuned", "rrf_k60", "wsum_tuned"}
    /\ \A s \in DOMAIN systems : IsConfig(systems[s])

LEMMA SystemsAre ==
    ASSUME NEW tune, HasRankings(tune), HasJudgments(tune.qrels), NEW m, m = Metric("nDCG", 2, 1)
    PROVE  Compared(Systems(tune, m))
<1>1. IsConfig(FirstBest("rrf", tune, m)) /\ IsConfig(FirstBest("wsum", tune, m))
  BY TunedIs
<1>2. IsConfig(DefaultRRF)
  BY GridAssumption DEF DefaultRRF, IsConfig
<1>3. PICK a, b, c : a = FirstBest("rrf", tune, m) /\ b = FirstBest("wsum", tune, m) /\ c = DefaultRRF
  OBVIOUS
<1>4. Systems(tune, m) = [rrf_tuned |-> a, rrf_k60 |-> c, wsum_tuned |-> b]
  BY <1>3, Zenon DEF Systems
<1>5. PICK s : s = Systems(tune, m)
  OBVIOUS
<1>6. DOMAIN s = {"rrf_tuned", "rrf_k60", "wsum_tuned"} /\ s["rrf_tuned"] = a /\ s["rrf_k60"] = c /\ s["wsum_tuned"] = b
  BY <1>4, <1>5
<1>7. QED
  BY <1>1, <1>2, <1>3, <1>5, <1>6, Zenon DEF Compared
-----------------------------------------------------------------------------
(* The held-out evaluation. *)
LEMMA FusedRanks ==
    ASSUME NEW data, HasRankings(data), NEW c, IsConfig(c)
    PROVE  Ranks(FusedRun(c, data), data.qrels)
<1>1. SUFFICES ASSUME NEW q \in DOMAIN data.qrels PROVE IsSeq(rank_run(FusedRun(c, data)[q]))
  BY Zenon DEF Ranks
<1>2. PICK lex, dense : lex = Ranking(data.lex, q) /\ dense = Ranking(data.dense, q)
  OBVIOUS
<1>3. PICK f : f = FusedScores(c, lex, dense)
  OBVIOUS
<1>4. IsRanking(lex) /\ IsRanking(dense)
  BY <1>2, RankingsAre
<1>5. Numbered(DOMAIN f, f)
  BY <1>3, <1>4, FusedScoresAre
<1>6. PICK r : r = Fused(c, data, q)
  OBVIOUS
<1>7. r = sort_fused(f, OUT_K)
  BY <1>2, <1>3, <1>6, FusedListIs
<1>8. OUT_K \in Nat
  BY GridAssumption
<1>9. Once(r) /\ IsSeq(Order(r))
  BY <1>5, <1>7, <1>8, FusedIs DEF FusedFrom
<1>10. rank_run(as_score_dict(r)) = Order(r)
  BY <1>9, FilesReproduce
<1>11. FusedRun(c, data)[q] = as_score_dict(r)
  BY <1>1, <1>6, Zenon DEF FusedRun
<1>12. QED
  BY <1>9, <1>10, <1>11

LEMMA SingleRanks ==
    ASSUME NEW run, \A q \in DOMAIN run : IsRanking(run[q]), NEW qrels
    PROVE  Ranks(SingleRun(run), qrels)
<1>1. SUFFICES ASSUME NEW q \in DOMAIN run PROVE IsSeq(rank_run(SingleRun(run)[q]))
  BY Zenon DEF Ranks, SingleRun
<1>2. PICK r : r = run[q] /\ IsRanking(r)
  BY <1>1
<1>3. Ranking(run, q) = r
  BY <1>1, <1>2, Zenon DEF Ranking
<1>4. PICK f : f = [d \in Docs(r) |-> r[RankOf(r, d)].score]
  OBVIOUS
<1>5. SingleRun(run)[q] = f
  BY <1>1, <1>3, <1>4, Zenon DEF SingleRun, ScoresOf
<1>6. Numbered(DOMAIN f, f)
  <2>1. OnceRanked(r) /\ Once(r)
    BY <1>2, RankingIsOnce, OnceIs
  <2>2. IsFiniteSet(Docs(r)) /\ Docs(r) \subseteq Nat
    BY <2>1 DEF OnceRanked
  <2>3. \A d \in Docs(r) : r[RankOf(r, d)].score \in Int
    <3>1. \A d \in Docs(r) : RankOf(r, d) \in DOMAIN r
      BY <2>1, Zenon DEF OnceRanked
    <3>2. \A i \in DOMAIN r : r[i].score \in Int
      BY <2>1, Zenon DEF Once
    <3>3. QED
      BY <3>1, <3>2
  <2>4. QED
    BY <1>4, <2>2, <2>3 DEF Numbered
<1>7. QED
  BY <1>5, <1>6, RunIsRanked DEF Listing

\* Every system has a number for every judged query.
Evaluated(systems, values, qrels) ==
    /\ DOMAIN values = DOMAIN systems \cup {"bm25", "dense"}
    /\ \A s \in DOMAIN values : Valued(values[s], qrels)

LEMMA PerQueryIs ==
    ASSUME NEW data, HasRankings(data), HasJudgments(data.qrels), NEW systems, Compared(systems), NEW m, m = Metric("nDCG", 2, 1)
    PROVE  Evaluated(systems, PerQuery(systems, data, m), data.qrels)
<1>1. PICK S : S = DOMAIN systems \cup {"bm25", "dense"}
  OBVIOUS
<1>2. PICK v : v = PerQuery(systems, data, m)
  OBVIOUS
<1>3. DOMAIN v = S
  BY <1>1, <1>2, Zenon DEF PerQuery
<1>4. ASSUME NEW s \in S PROVE Valued(v[s], data.qrels)
  <2>1. PICK run : run = IF s \in DOMAIN systems THEN FusedRun(systems[s], data)
                         ELSE SingleRun(IF s = "bm25" THEN data.lex ELSE data.dense)
    OBVIOUS
  <2>2. v[s] = evaluate(run, data.qrels, m)
    BY <1>1, <1>2, <1>4, <2>1, Zenon DEF PerQuery
  <2>3. Ranks(run, data.qrels)
    <3>1. CASE s \in DOMAIN systems
      <4>1. IsConfig(systems[s]) /\ run = FusedRun(systems[s], data)
        BY <2>1, <3>1 DEF Compared
      <4>2. QED
        BY <4>1, FusedRanks
    <3>2. CASE s \notin DOMAIN systems /\ s = "bm25"
      <4>1. run = SingleRun(data.lex) /\ \A q \in DOMAIN data.lex : IsRanking(data.lex[q])
        BY <2>1, <3>2 DEF HasRankings
      <4>2. QED
        BY <4>1, SingleRanks
    <3>3. CASE s \notin DOMAIN systems /\ s # "bm25"
      <4>1. run = SingleRun(data.dense) /\ \A q \in DOMAIN data.dense : IsRanking(data.dense[q])
        BY <2>1, <3>3 DEF HasRankings
      <4>2. QED
        BY <4>1, SingleRanks
    <3>4. QED
      BY <3>1, <3>2, <3>3
  <2>4. QED
    BY <2>2, <2>3, EvaluationIs
<1>5. QED
  BY <1>1, <1>2, <1>3, <1>4, Zenon DEF Evaluated

-----------------------------------------------------------------------------
(* The comparisons. *)
Against(h, perQuery, j) ==
    [name |-> <<h, <<"bm25", "dense">>[j]>>, a |-> perQuery[h], b |-> perQuery[<<"bm25", "dense">>[j]]]

BySingle(h, perQuery) == [j \in 1 .. 2 |-> Against(h, perQuery, j)]
ByHybrid(hybrids, perQuery) == [i \in 1 .. Len(hybrids) |-> BySingle(hybrids[i], perQuery)]

LEMMA HybridsAre ==
    ASSUME NEW systems, NEW hs, hs = Hybrids(systems)
    PROVE  IsSeq(hs) /\ "rrf_tuned" \in Range(hs) /\ Range(hs) \subseteq {"rrf_tuned", "wsum_tuned", "rrf_k60"}
<1>1. PICK a : a = <<"rrf_tuned", "wsum_tuned">>
  OBVIOUS
<1>2. IsSeq(a) /\ Range(a) = {"rrf_tuned", "wsum_tuned"}
  <2>1. a = [i \in 1 .. 2 |-> a[i]] /\ a[1] = "rrf_tuned" /\ a[2] = "wsum_tuned"
    BY <1>1
  <2>2. DOMAIN a = {1, 2}
    BY <2>1
  <2>3. IsSeq(a)
    BY <2>1, FunctionIsSeq
  <2>4. QED
    BY <2>1, <2>2, <2>3 DEF Range
<1>3. PICK b : b = IF systems.rrf_tuned = DefaultRRF THEN <<>> ELSE <<"rrf_k60">>
  OBVIOUS
<1>4. IsSeq(b) /\ Range(b) \subseteq {"rrf_k60"}
  <2>1. CASE b = <<>>
    BY <2>1, EmptySequences DEF IsSeq, Range
  <2>2. CASE b = <<"rrf_k60">>
    BY <2>2, SingleIs
  <2>3. QED
    BY <1>3, <2>1, <2>2
<1>5. hs = a \o b
  BY <1>1, <1>3, Zenon DEF Hybrids
<1>6. IsSeq(hs) /\ Range(hs) = Range(a) \cup Range(b)
  BY <1>2, <1>4, <1>5, ConcatIs
<1>7. QED
  BY <1>2, <1>4, <1>6

LEMMA FamilyUnfolds ==
    ASSUME NEW systems, NEW perQuery
    PROVE  Family(systems, perQuery) = FlattenSeq(ByHybrid(Hybrids(systems), perQuery))
BY Zenon DEF Family, ByHybrid, BySingle, Against

Pairings(family, qrels) ==
    /\ IsSeq(family)
    /\ \A i \in DOMAIN family : Valued(family[i].a, qrels) /\ Valued(family[i].b, qrels)
    /\ \A single \in {"bm25", "dense"} : \E i \in DOMAIN family : family[i].name = <<"rrf_tuned", single>>

\* A family is of pairs with numbers for the same queries, the tuned RRF among
\* them against both retrievers.
LEMMA FamilyIs ==
    ASSUME NEW systems, Compared(systems), NEW values, NEW qrels, Evaluated(systems, values, qrels),
           NEW family, family = Family(systems, values)
    PROVE  Pairings(family, qrels)
<1>1. PICK hs : hs = Hybrids(systems)
  OBVIOUS
<1>2. IsSeq(hs) /\ "rrf_tuned" \in Range(hs) /\ Range(hs) \subseteq DOMAIN values
  BY <1>1, HybridsAre DEF Evaluated, Compared
<1>3. PICK n : n = Len(hs) /\ n \in Nat /\ DOMAIN hs = 1 .. n
  BY <1>2, SeqIs
<1>4. PICK ss : ss = ByHybrid(hs, values)
  OBVIOUS
<1>5. DOMAIN ss = 1 .. n /\ IsSeq(ss) /\ \A i \in 1 .. n : ss[i] = BySingle(hs[i], values)
  <2>1. ss = [i \in 1 .. n |-> BySingle(hs[i], values)]
    BY <1>3, <1>4, Zenon DEF ByHybrid
  <2>2. ss = [i \in 1 .. n |-> ss[i]]
    BY <2>1
  <2>3. QED
    BY <1>3, <2>1, <2>2, FunctionIsSeq
<1>6. ASSUME NEW h PROVE /\ IsSeq(BySingle(h, values))
                         /\ Range(BySingle(h, values)) = {Against(h, values, 1), Against(h, values, 2)}
  <2>1. PICK t : t = BySingle(h, values)
    OBVIOUS
  <2>2. t = [j \in 1 .. 2 |-> Against(h, values, j)]
    BY <2>1, Zenon DEF BySingle
  <2>3. t = [j \in 1 .. 2 |-> t[j]] /\ DOMAIN t = {1, 2} /\ t[1] = Against(h, values, 1) /\ t[2] = Against(h, values, 2)
    BY <2>2
  <2>4. IsSeq(t)
    BY <2>3, FunctionIsSeq
  <2>5. QED
    BY <2>1, <2>3, <2>4 DEF Range
<1>7. IsSeq(family) /\ Range(family) = UNION {Range(ss[i]) : i \in DOMAIN ss}
  <2>1. \A i \in DOMAIN ss : IsSeq(ss[i])
    BY <1>5, <1>6
  <2>2. family = FlattenSeq(ss)
    BY <1>1, <1>4, FamilyUnfolds
  <2>3. QED
    BY <1>5, <2>1, <2>2, FlattenIs
<1>8. ASSUME NEW h \in DOMAIN values, NEW j \in {1, 2}
      PROVE  Valued(Against(h, values, j).a, qrels) /\ Valued(Against(h, values, j).b, qrels)
  <2>1. PICK single : single = <<"bm25", "dense">>[j]
    OBVIOUS
  <2>2. single \in {"bm25", "dense"}
    BY <1>8, <2>1
  <2>3. Valued(values[h], qrels) /\ Valued(values[single], qrels)
    BY <1>8, <2>2 DEF Evaluated
  <2>4. Against(h, values, j).a = values[h] /\ Against(h, values, j).b = values[single]
    BY <2>1 DEF Against
  <2>5. QED
    BY <2>3, <2>4
<1>9. ASSUME NEW i \in DOMAIN family PROVE Valued(family[i].a, qrels) /\ Valued(family[i].b, qrels)
  <2>1. family[i] \in Range(family)
    BY <1>9 DEF Range
  <2>2. PICK k \in DOMAIN ss : family[i] \in Range(ss[k])
    BY <1>7, <2>1
  <2>3. PICK h : h = hs[k] /\ h \in DOMAIN values
    BY <1>2, <1>3, <1>5, <2>2 DEF Range
  <2>4. family[i] \in {Against(h, values, 1), Against(h, values, 2)}
    BY <1>5, <1>6, <2>2, <2>3
  <2>5. PICK j \in {1, 2} : family[i] = Against(h, values, j)
    BY <2>4
  <2>6. QED
    BY <1>8, <2>3, <2>5
<1>10. ASSUME NEW single \in {"bm25", "dense"} PROVE \E i \in DOMAIN family : family[i].name = <<"rrf_tuned", single>>
  <2>1. PICK k \in DOMAIN ss : hs[k] = "rrf_tuned"
    BY <1>2, <1>3, <1>5 DEF Range
  <2>2. PICK j \in {1, 2} : <<"bm25", "dense">>[j] = single
    <3>1. <<"bm25", "dense">>[1] = "bm25" /\ <<"bm25", "dense">>[2] = "dense"
      OBVIOUS
    <3>2. QED
      BY <1>10, <3>1
  <2>3. PICK e : e = Against("rrf_tuned", values, j)
    OBVIOUS
  <2>4. e \in Range(ss[k])
    BY <1>5, <1>6, <2>1, <2>2, <2>3
  <2>5. e \in Range(family)
    BY <1>7, <2>1, <2>4
  <2>6. e.name = <<"rrf_tuned", single>>
    BY <2>2, <2>3 DEF Against
  <2>7. QED
    BY <2>5, <2>6 DEF Range
<1>11. QED
  BY <1>7, <1>9, <1>10, Zenon DEF Pairings

\* The headline is a row of the family.
LEMMA HeadlineIs ==
    ASSUME NEW systems, NEW values, NEW qrels, NEW family, family = Family(systems, values), Pairings(family, qrels), NEW h
    PROVE  HeadlineRow(h, systems, values) \in {family[i].name : i \in DOMAIN family}
<1>1. DOMAIN family = 1 .. Len(family)
  BY SeqIs DEF Pairings
<1>2. PICK names : names = {family[i].name : i \in DOMAIN family}
  OBVIOUS
<1>3. names = {family[i].name : i \in 1 .. Len(family)}
  BY <1>1, <1>2
<1>4. PICK best : best = IF Total(values["dense"]) >= Total(values["bm25"]) THEN "dense" ELSE "bm25"
  OBVIOUS
<1>5. HeadlineRow(h, systems, values) = IF <<h, best>> \in names THEN <<h, best>> ELSE <<"rrf_tuned", best>>
  BY <1>3, <1>4, Zenon DEF HeadlineRow
<1>6. best \in {"bm25", "dense"}
  BY <1>4
<1>7. PICK i \in DOMAIN family : family[i].name = <<"rrf_tuned", best>>
  BY <1>6 DEF Pairings
<1>8. <<"rrf_tuned", best>> \in names
  BY <1>2, <1>7
<1>9. QED
  BY <1>2, <1>5, <1>8

PValues(family, perms, n) == [i \in 1 .. n |-> AsExtreme(Differences(family[i].a, family[i].b), perms)]
ComparedAs(family, p, adj, alpha, n) ==
    [i \in 1 .. n |-> [name |-> family[i].name, p |-> p[i], holm |-> adj[i], significant |-> adj[i] <= alpha,
                       delta |-> Total(Differences(family[i].a, family[i].b))]]

LEMMA CompareUnfolds ==
    ASSUME NEW family, NEW perms, NEW alpha, NEW One, NEW n, n = Len(family), NEW p, p = PValues(family, perms, n)
    PROVE  compare(family, perms, alpha, One) = ComparedAs(family, p, holm_bonferroni(p, One), alpha, n)
BY Zenon DEF compare, PValues, ComparedAs

Significances(rows, p, alpha, One, n) ==
    /\ HolmIsSequential(p, alpha, One)
    /\ \A i \in 1 .. n : rows[i].significant <=> i \in SequentiallyRejected(p, alpha)

PsOf(rows) == [i \in DOMAIN rows |-> rows[i].p]
\* Those comparisons are significant that the sequential rule rejects.
LEMMA ComparisonsAre ==
    ASSUME NEW family, IsSeq(family), NEW perms, IsSeq(perms), NEW alpha \in Int, NEW One \in Int, alpha < One,
           NEW rows, rows = compare(family, perms, alpha, One), NEW p, p = PsOf(rows)
    PROVE  Significances(rows, p, alpha, One, Len(family)) /\ DOMAIN rows = DOMAIN family
<1>1. PICK n : n = Len(family) /\ n \in Nat /\ DOMAIN family = 1 .. n
  BY SeqIs
<1>2. PICK pv : pv = PValues(family, perms, n)
  OBVIOUS
<1>3. PICK adj : adj = holm_bonferroni(pv, One)
  OBVIOUS
<1>4. rows = ComparedAs(family, pv, adj, alpha, n)
  BY <1>1, <1>2, <1>3, CompareUnfolds
<1>5. DOMAIN rows = 1 .. n
  BY <1>4, Zenon DEF ComparedAs
<1>6. ASSUME NEW i \in 1 .. n PROVE rows[i].p = pv[i] /\ rows[i].significant = (adj[i] <= alpha)
  <2>1. PICK e : e = rows[i]
    OBVIOUS
  <2>2. e = [name |-> family[i].name, p |-> pv[i], holm |-> adj[i], significant |-> adj[i] <= alpha,
             delta |-> Total(Differences(family[i].a, family[i].b))]
    BY <1>4, <1>6, <2>1, Zenon DEF ComparedAs
  <2>3. PICK d, s : d = Total(Differences(family[i].a, family[i].b)) /\ s = (adj[i] <= alpha)
    OBVIOUS
  <2>4. PICK a, b, c : a = family[i].name /\ b = pv[i] /\ c = adj[i]
    OBVIOUS
  <2>5. e = [name |-> a, p |-> b, holm |-> c, significant |-> s, delta |-> d]
    BY <2>2, <2>3, <2>4, Zenon
  <2>6. e.p = b /\ e.significant = s
    BY ONLY <2>5
  <2>7. QED
    BY <2>1, <2>3, <2>4, <2>6, Zenon
<1>7. pv = [i \in 1 .. n |-> pv[i]] /\ DOMAIN pv = 1 .. n
  BY <1>2 DEF PValues
<1>8. p = pv
  <2>1. p = [i \in 1 .. n |-> rows[i].p]
    BY <1>5, Zenon DEF PsOf
  <2>2. [i \in 1 .. n |-> rows[i].p] = [i \in 1 .. n |-> pv[i]]
    BY <1>6, Zenon
  <2>3. QED
    BY <1>7, <2>1, <2>2
<1>9. Len(pv) = n
  BY <1>1, <1>7, FunctionIsSeq
<1>10. ASSUME NEW i \in 1 .. n PROVE pv[i] \in Int
  <2>1. pv[i] = AsExtreme(Differences(family[i].a, family[i].b), perms)
    BY <1>2, <1>10 DEF PValues
  <2>2. QED
    BY <2>1, ExtremeIsNumber
<1>11. HolmIsSequential(pv, alpha, One)
  BY <1>1, <1>7, <1>9, <1>10, HolmRejects
<1>12. ASSUME NEW i \in 1 .. n PROVE rows[i].significant <=> i \in SequentiallyRejected(pv, alpha)
  <2>1. {j \in 1 .. n : adj[j] <= alpha} = SequentiallyRejected(pv, alpha)
    BY <1>3, <1>9, <1>11, Zenon DEF HolmIsSequential
  <2>2. i \in {j \in 1 .. n : adj[j] <= alpha} <=> adj[i] <= alpha
    BY <1>12, Zenon
  <2>3. rows[i].significant = (adj[i] <= alpha)
    BY <1>6, <1>12
  <2>4. QED
    BY <2>1, <2>2, <2>3, Zenon
<1>13. QED
  BY <1>1, <1>5, <1>8, <1>11, <1>12, Zenon DEF Significances

\* Two evaluations of the same queries can be compared, and the test is valid.
LEMMA PairIsTested ==
    ASSUME NEW qrels, HasJudgments(qrels), NEW a, Valued(a, qrels), NEW b, Valued(b, qrels),
           NEW perms, AllSigns(perms, DOMAIN qrels)
    PROVE  Alignable(a, b) /\ RandomizationIsValid(Differences(a, b), perms)
<1>1. DOMAIN a = DOMAIN qrels /\ DOMAIN b = DOMAIN qrels
  BY DEF Valued
<1>2. Alignable(a, b)
  BY <1>1 DEF Alignable
<1>3. PICK d : d = Differences(a, b)
  OBVIOUS
<1>4. DOMAIN d = DOMAIN qrels /\ \A q \in DOMAIN qrels : d[q] \in Int
  <2>1. d = [q \in DOMAIN qrels |-> a[q] - b[q]]
    BY <1>1, <1>3 DEF Differences
  <2>2. \A q \in DOMAIN qrels : a[q] \in Int /\ b[q] \in Int
    BY <1>1 DEF Valued
  <2>3. QED
    BY <2>1, <2>2
<1>5. IsFiniteSet(DOMAIN qrels)
  BY DEF HasJudgments
<1>6. QED
  BY <1>2, <1>3, <1>4, <1>5, RandomizationHolds

\* What the study reports, of data with rankings and judgments.
ReportWith(data, systems, values, rows, perms, One, family, p, alpha) ==
    /\ ReportedAsSwept(data, Metric("nDCG", 2, 1)) /\ ReportedAsSwept(data, Metric("RR", 2, 1))
    /\ Mismatches(systems, data) = {}
    /\ \A q \in DOMAIN data.qrels :
          /\ \A c \in Range(Configs) : ReproducesOrder(Fused(c, data, q))
          /\ DominanceKept(data, q)
          /\ Sorted(RRFScores(<<ScoresOf(data.lex, q), ScoresOf(data.dense, q)>>, DefaultK, DEPTH))
                = Order(rrf(Ranking(data.lex, q), Ranking(data.dense, q), DefaultK, 2 * DEPTH))
    /\ HolmIsSequential(p, alpha, One)
    /\ \A i \in DOMAIN family :
          /\ Alignable(family[i].a, family[i].b)
          /\ rows[i].significant <=> i \in SequentiallyRejected(p, alpha)
          /\ RandomizationIsValid(Differences(family[i].a, family[i].b), perms)
    /\ \A h \in {"rrf_tuned", "wsum_tuned", "rrf_k60"} :
          HeadlineRow(h, systems, values) \in {family[i].name : i \in DOMAIN family}

ReportIs(data, systems, values, rows, perms, One) ==
    ReportWith(data, systems, values, rows, perms, One, Family(systems, values), PsOf(rows), One \div 2)

LEMMA FilesAreRead ==
    ASSUME NEW data, HasRankings(data), NEW c \in Range(Configs), NEW q
    PROVE  ReproducesOrder(Fused(c, data, q))
<1>1. IsConfig(c)
  <2>1. Gridded(c)
    BY GridIs DEF Range
  <2>2. QED
    BY <2>1, GriddedIs
<1>2. PICK lex, dense : lex = Ranking(data.lex, q) /\ dense = Ranking(data.dense, q)
  OBVIOUS
<1>3. PICK f : f = FusedScores(c, lex, dense)
  OBVIOUS
<1>4. IsRanking(lex) /\ IsRanking(dense)
  BY <1>2, RankingsAre
<1>5. Numbered(DOMAIN f, f)
  BY <1>1, <1>3, <1>4, FusedScoresAre
<1>6. PICK r : r = Fused(c, data, q)
  OBVIOUS
<1>7. r = sort_fused(f, OUT_K)
  BY <1>2, <1>3, <1>6, FusedListIs
<1>8. OUT_K \in Nat
  BY GridAssumption
<1>9. Once(r)
  BY <1>5, <1>7, <1>8, FusedIs DEF FusedFrom
<1>10. QED
  BY <1>6, <1>9, FilesReproduce

LEMMA StudyReports ==
    ASSUME NEW data, HasRankings(data), HasJudgments(data.qrels), OUT_K >= 2,
           NEW systems, systems = Systems(data, Metric("nDCG", 2, 1)),
           NEW values, values = PerQuery(systems, data, Metric("nDCG", 2, 1)),
           NEW perms, perms = SetToSeq([DOMAIN data.qrels -> {-1, 1}]), NEW One, One = Len(perms) + 1,
           NEW rows, rows = compare(Family(systems, values), perms, One \div 2, One)
    PROVE  ReportIs(data, systems, values, rows, perms, One)
<1>1. Compared(systems)
  BY SystemsAre
<1>2. Evaluated(systems, values, data.qrels)
  BY <1>1, PerQueryIs
<1>3. PICK family : family = Family(systems, values)
  OBVIOUS
<1>4. Pairings(family, data.qrels)
  BY <1>1, <1>2, <1>3, FamilyIs
<1>5. AllSigns(perms, DOMAIN data.qrels) /\ Len(perms) \in Nat /\ IsSeq(perms)
  BY FlipsAre DEF HasJudgments, AllSigns
<1>6. PICK alpha : alpha = One \div 2 /\ alpha \in Int /\ One \in Int /\ alpha < One
  <2>1. PICK l : l = Len(perms) /\ l \in Nat
    BY <1>5
  <2>2. PICK o : o = One /\ o = l + 1
    BY <2>1
  <2>3. o \div 2 \in Int /\ o \in Int /\ o \div 2 < o
    BY ONLY <2>1, <2>2
  <2>4. QED
    BY <2>2, <2>3
<1>7. PICK p : p = PsOf(rows)
  OBVIOUS
<1>8. IsSeq(family)
  BY <1>4 DEF Pairings
<1>9. Significances(rows, p, alpha, One, Len(family)) /\ DOMAIN rows = DOMAIN family
  <2>1. rows = compare(family, perms, alpha, One)
    BY <1>3, <1>6
  <2>2. QED
    BY <1>5, <1>6, <1>7, <1>8, <2>1, ComparisonsAre
<1>10. HolmIsSequential(p, alpha, One)
  BY <1>9 DEF Significances
<1>11. ASSUME NEW i \in DOMAIN family
       PROVE  /\ Alignable(family[i].a, family[i].b)
              /\ rows[i].significant <=> i \in SequentiallyRejected(p, alpha)
              /\ RandomizationIsValid(Differences(family[i].a, family[i].b), perms)
  <2>1. Valued(family[i].a, data.qrels) /\ Valued(family[i].b, data.qrels)
    BY <1>4, <1>11 DEF Pairings
  <2>2. Alignable(family[i].a, family[i].b) /\ RandomizationIsValid(Differences(family[i].a, family[i].b), perms)
    BY <1>5, <2>1, PairIsTested
  <2>3. i \in 1 .. Len(family)
    BY <1>8, <1>11, SeqIs
  <2>4. rows[i].significant <=> i \in SequentiallyRejected(p, alpha)
    BY <1>9, <2>3, Zenon DEF Significances
  <2>5. QED
    BY <2>2, <2>4, Zenon
<1>12. \A h \in {"rrf_tuned", "wsum_tuned", "rrf_k60"} :
          HeadlineRow(h, systems, values) \in {family[i].name : i \in DOMAIN family}
  BY <1>3, <1>4, HeadlineIs
<1>13. ReportedAsSwept(data, Metric("nDCG", 2, 1)) /\ ReportedAsSwept(data, Metric("RR", 2, 1))
  <2>1. ASSUME NEW m, m \in {Metric("nDCG", 2, 1), Metric("RR", 2, 1)} PROVE SeesTop(m) /\ m.k <= OUT_K
    <3>1. m.k = 2 /\ m.kind \in {"nDCG", "RR"}
      BY <2>1 DEF Metric
    <3>2. QED
      BY <3>1, GridAssumption DEF SeesTop
  <2>2. QED
    BY <2>1, SweptIsReported
<1>14. Mismatches(systems, data) = {}
  BY <1>1, NoMismatches DEF Compared
<1>15. ASSUME NEW q \in DOMAIN data.qrels
       PROVE  /\ \A c \in Range(Configs) : ReproducesOrder(Fused(c, data, q))
              /\ DominanceKept(data, q)
              /\ Sorted(RRFScores(<<ScoresOf(data.lex, q), ScoresOf(data.dense, q)>>, DefaultK, DEPTH))
                    = Order(rrf(Ranking(data.lex, q), Ranking(data.dense, q), DefaultK, 2 * DEPTH))
  <2>1. \A c \in Range(Configs) : ReproducesOrder(Fused(c, data, q))
    BY FilesAreRead
  <2>2. DominanceKept(data, q)
    BY DominanceIs
  <2>3. DefaultK \in Nat
    BY GridAssumption
  <2>4. Sorted(RRFScores(<<ScoresOf(data.lex, q), ScoresOf(data.dense, q)>>, DefaultK, DEPTH))
           = Order(rrf(Ranking(data.lex, q), Ranking(data.dense, q), DefaultK, 2 * DEPTH))
    BY <2>3, ClickFusionIs
  <2>5. QED
    BY <2>1, <2>2, <2>4
<1>16. ReportWith(data, systems, values, rows, perms, One, family, p, alpha)
  BY <1>10, <1>11, <1>12, <1>13, <1>14, <1>15, Zenon DEF ReportWith
<1>17. QED
  BY <1>3, <1>6, <1>7, <1>16, Zenon DEF ReportIs
=============================================================================
