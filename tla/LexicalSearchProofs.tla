------------------------ MODULE LexicalSearchProofs ------------------------
(***************************************************************************)
(* The lexical search of a shard, for any lists, scores, bounds, k and      *)
(* sizes of blocks: whichever of the five algorithms runs, what its heap    *)
(* holds is the best k of the documents that its cursors have passed, so    *)
(* that skipping by bounds loses nothing.  First sums (a bound is one),     *)
(* then orders and the heap, then the invariant, then one algorithm after   *)
(* the other.                                                               *)
(***************************************************************************)
EXTENDS LexicalSearch, FiniteSetTheorems, WellFoundedInduction, TLAPS

-----------------------------------------------------------------------------
(* Least elements, and smallest subsets: induction over concrete sets. *)

\* Every non-empty set of natural numbers has a least one.
LEMMA LeastOf ==
    ASSUME NEW M \in SUBSET Nat, M # {}
    PROVE  \E m \in M : \A n \in M : m <= n
<1>1. PICK m \in M : \A n \in M : ~(<<n, m>> \in OpToRel(<, Nat))
  BY WFMin, NatLessThanWellFounded
<1>2. ASSUME NEW n \in M PROVE m <= n
  <2>1. SUFFICES ASSUME n < m PROVE FALSE
    OBVIOUS
  <2>2. <<n, m>> \in OpToRel(<, Nat)
    BY <2>1 DEF OpToRel
  <2>3. QED
    BY <1>1, <2>2
<1>3. QED
  BY <1>2

\* Among subsets of a finite set there is one that none of them is a smaller part of.
LEMMA SmallestSubset ==
    ASSUME NEW S, IsFiniteSet(S), NEW M \in SUBSET (SUBSET S), M # {}
    PROVE  \E T \in M : /\ IsFiniteSet(T) /\ Cardinality(T) \in Nat
                        /\ \A x \in T : T \ {x} \notin M
<1>1. \A T \in SUBSET S : IsFiniteSet(T) /\ Cardinality(T) \in Nat
  BY FS_Subset, FS_CardinalityType
<1> DEFINE sizes == {Cardinality(T) : T \in M}
<1>2. sizes \in SUBSET Nat /\ sizes # {}
  BY <1>1
<1>3. PICK n \in sizes : \A m \in sizes : n <= m
  <2> HIDE DEF sizes
  <2> QED BY <1>2, LeastOf
<1>4. PICK T \in M : Cardinality(T) = n
  BY <1>3
<1>5. ASSUME NEW x \in T PROVE T \ {x} \notin M
  <2>1. Cardinality(T \ {x}) = Cardinality(T) - 1
    BY <1>1, FS_RemoveElement
  <2>2. T \ {x} \in M => Cardinality(T) <= Cardinality(T \ {x})
    BY <1>3, <1>4
  <2>3. QED
    BY <1>1, <2>1, <2>2
<1>6. QED
  BY <1>1, <1>5

-----------------------------------------------------------------------------
(* Sums. *)

\* The definition of the sums, one number at a time.
Pick(s) == CHOOSE x \in s : TRUE
Adding(f, s, g) == IF s = {} THEN 0 ELSE f[Pick(s)] + g[s \ {Pick(s)}]
SumsOver(f, S, g) == g = [s \in SUBSET S |-> Adding(f, s, g)]

\* What SumFunctionOnSet stands for, below the names of the library.
LEMMA SumIsFold ==
    ASSUME NEW f, NEW S PROVE SumFunctionOnSet(f, S) = (CHOOSE iter : SumsOver(f, S, iter))[S]
BY Zenon DEF SumFunctionOnSet, FoldFunctionOnSet, MapThenFoldSet, SumsOver, Adding, Pick

LEMMA PickIn == ASSUME NEW s, s # {} PROVE Pick(s) \in s
BY DEF Pick

UpTo(S, n) == {s \in SUBSET S : Cardinality(s) <= n}
SumsUpTo(f, S, n, g) == g = [s \in UpTo(S, n) |-> Adding(f, s, g)]

\* The recursion that defines the sums has a solution over a finite set.
LEMMA SumsExist ==
    ASSUME NEW S, IsFiniteSet(S), NEW f
    PROVE  \E g : SumsOver(f, S, g)
<1>1. \A T \in SUBSET S : IsFiniteSet(T) /\ Cardinality(T) \in Nat /\ Cardinality(T) <= Cardinality(S)
  BY FS_Subset, FS_CardinalityType
<1>2. \A T \in SUBSET S : \A x \in T : Cardinality(T \ {x}) = Cardinality(T) - 1
  BY <1>1, FS_RemoveElement
<1>3. \A T \in SUBSET S : Cardinality(T) = 0 => T = {}
  BY <1>1, FS_EmptySet
<1> DEFINE Bad == {n \in Nat : ~\E g : SumsUpTo(f, S, n, g)}
<1>4. Bad = {}
  <2>1. SUFFICES ASSUME Bad # {} PROVE FALSE
    OBVIOUS
  <2>2. PICK n \in Bad : \A m \in Bad : n <= m
    <3>1. Bad \in SUBSET Nat
      OBVIOUS
    <3> HIDE DEF Bad
    <3> QED BY <2>1, <3>1, LeastOf
  <2>3. n \in Nat /\ ~\E g : SumsUpTo(f, S, n, g)
    BY <2>2
  <2>4. CASE n = 0
    <3> DEFINE g == [s \in UpTo(S, 0) |-> 0]
    <3>1. \A s \in UpTo(S, 0) : s = {}
      BY <1>1, <1>3 DEF UpTo
    <3>2. \A s \in UpTo(S, 0) : Adding(f, s, g) = 0
      BY <3>1 DEF Adding
    <3>3. g = [s \in UpTo(S, 0) |-> Adding(f, s, g)]
      BY <3>2
    <3>4. QED
      BY <2>3, <2>4, <3>3 DEF SumsUpTo
  <2>5. CASE n # 0
    <3>1. n - 1 \in Nat /\ n - 1 \notin Bad
      BY <2>2, <2>3, <2>5
    <3>2. PICK g : SumsUpTo(f, S, n - 1, g)
      BY <3>1
    <3> DEFINE h == [s \in UpTo(S, n) |-> Adding(f, s, g)]
    <3>3. \A s \in UpTo(S, n - 1) : s \in UpTo(S, n) /\ h[s] = g[s]
      <4>1. \A s \in UpTo(S, n - 1) : s \in UpTo(S, n)
        BY <1>1, <2>3 DEF UpTo
      <4>2. \A s \in UpTo(S, n - 1) : g[s] = Adding(f, s, g)
        BY <3>2 DEF SumsUpTo
      <4>3. QED
        BY <4>1, <4>2
    <3>4. \A s \in UpTo(S, n) : s # {} => s \ {Pick(s)} \in UpTo(S, n - 1)
      BY <1>1, <1>2, <2>3, PickIn DEF UpTo
    <3>5. \A s \in UpTo(S, n) : Adding(f, s, h) = Adding(f, s, g)
      <4> HIDE DEF h
      <4> QED BY <3>3, <3>4 DEF Adding
    <3>6. h = [s \in UpTo(S, n) |-> Adding(f, s, h)]
      <4>1. h = [s \in UpTo(S, n) |-> Adding(f, s, g)]
        OBVIOUS
      <4> HIDE DEF h
      <4> QED BY <3>5, <4>1
    <3>7. QED
      BY <2>3, <3>6 DEF SumsUpTo
  <2>6. QED
    BY <2>4, <2>5
<1>5. Cardinality(S) \notin Bad /\ Cardinality(S) \in Nat
  BY <1>1, <1>4
<1>6. PICK g : SumsUpTo(f, S, Cardinality(S), g)
  BY <1>5
<1>7. UpTo(S, Cardinality(S)) = SUBSET S
  BY <1>1 DEF UpTo
<1>8. QED
  BY <1>6, <1>7 DEF SumsUpTo, SumsOver

\* The sums of f over the subsets of a finite set.
SubsetSums(f, S) == CHOOSE g : SumsOver(f, S, g)

\* A sum takes out one number after another.
LEMMA SumsOfSubsets ==
    ASSUME NEW S, IsFiniteSet(S), NEW f
    PROVE  /\ SumFunctionOnSet(f, S) = SubsetSums(f, S)[S]
           /\ SubsetSums(f, S)[{}] = 0
           /\ \A s \in SUBSET S : s # {} =>
                 Pick(s) \in s /\ SubsetSums(f, S)[s] = f[Pick(s)] + SubsetSums(f, S)[s \ {Pick(s)}]
<1>1. SumsOver(f, S, SubsetSums(f, S))
  BY SumsExist DEF SubsetSums
<1>2. \A s \in SUBSET S : SubsetSums(f, S)[s] = Adding(f, s, SubsetSums(f, S))
  BY <1>1 DEF SumsOver
<1>3. QED
  BY <1>2, SumIsFold, PickIn DEF Adding, SubsetSums

\* A subset's sum is the same, whichever set it is taken as a part of.
LEMMA SumsAgree ==
    ASSUME NEW S, IsFiniteSet(S), NEW U \in SUBSET S, NEW f
    PROVE  SubsetSums(f, S)[U] = SumFunctionOnSet(f, U)
<1> DEFINE g == SubsetSums(f, S)
           h == SubsetSums(f, U)
           M == {T \in SUBSET U : g[T] # h[T]}
<1>1. IsFiniteSet(U)
  BY FS_Subset
<1>2. /\ g[{}] = 0 /\ h[{}] = 0 /\ SumFunctionOnSet(f, U) = h[U]
      /\ \A T \in SUBSET U : T # {} => /\ Pick(T) \in T
                                      /\ g[T] = f[Pick(T)] + g[T \ {Pick(T)}]
                                      /\ h[T] = f[Pick(T)] + h[T \ {Pick(T)}]
  <2>1. \A T \in SUBSET U : T \in SUBSET S
    OBVIOUS
  <2>2. QED
    BY <1>1, <2>1, SumsOfSubsets
<1> HIDE DEF g, h
<1>3. M = {}
  <2>1. SUFFICES ASSUME M # {} PROVE FALSE
    OBVIOUS
  <2>2. PICK T \in M : \A x \in T : T \ {x} \notin M
    <3>1. M \in SUBSET (SUBSET U)
      OBVIOUS
    <3> HIDE DEF M
    <3> QED BY <1>1, <2>1, <3>1, SmallestSubset
  <2>3. T \in SUBSET U /\ g[T] # h[T] /\ T # {}
    BY <1>2, <2>2
  <2>4. g[T \ {Pick(T)}] = h[T \ {Pick(T)}]
    BY <1>2, <2>2, <2>3
  <2>5. QED
    BY <1>2, <2>3, <2>4
<1>4. QED
  BY <1>2, <1>3 DEF g

\* The sum of numbers is one, and any of them may be taken out first.
LEMMA SumFacts ==
    ASSUME NEW S, IsFiniteSet(S), NEW f, \A x \in S : f[x] \in Nat
    PROVE  /\ SumFunctionOnSet(f, {}) = 0
           /\ SumFunctionOnSet(f, S) \in Nat
           /\ \A y \in S : SumFunctionOnSet(f, S) = f[y] + SumFunctionOnSet(f, S \ {y})
<1> DEFINE g == SubsetSums(f, S)
           L == {T \in SUBSET S : g[T] \notin Nat}
           M == {T \in SUBSET S : \E y \in T : g[T] # f[y] + g[T \ {y}]}
<1>1. /\ g[{}] = 0
      /\ \A T \in SUBSET S : T # {} => Pick(T) \in T /\ g[T] = f[Pick(T)] + g[T \ {Pick(T)}]
  <2>1. SubsetSums(f, S)[{}] = 0
    BY ONLY IsFiniteSet(S), SumsOfSubsets
  <2>2. ASSUME NEW T \in SUBSET S, T # {}
        PROVE  Pick(T) \in T /\ SubsetSums(f, S)[T] = f[Pick(T)] + SubsetSums(f, S)[T \ {Pick(T)}]
    BY ONLY IsFiniteSet(S), SumsOfSubsets, T \in SUBSET S, T # {}
  <2>3. QED
    BY ONLY <2>1, <2>2
<1>2. \A T \in SUBSET S : g[T] = SumFunctionOnSet(f, T)
  BY SumsAgree
<1> HIDE DEF g
<1>3. L = {}
  <2>1. SUFFICES ASSUME L # {} PROVE FALSE
    OBVIOUS
  <2>2. PICK T \in L : \A x \in T : T \ {x} \notin L
    <3>1. L \in SUBSET (SUBSET S)
      OBVIOUS
    <3> HIDE DEF L
    <3> QED BY <2>1, <3>1, SmallestSubset
  <2>3. T \in SUBSET S /\ g[T] \notin Nat /\ T # {}
    BY <1>1, <2>2
  <2>4. g[T \ {Pick(T)}] \in Nat
    BY <1>1, <2>2, <2>3
  <2>5. QED
    BY <1>1, <2>3, <2>4
<1>4. \A T \in SUBSET S : g[T] \in Nat
  BY <1>3
<1>5. M = {}
  <2>1. SUFFICES ASSUME M # {} PROVE FALSE
    OBVIOUS
  <2>2. PICK T \in M : \A x \in T : T \ {x} \notin M
    <3>1. M \in SUBSET (SUBSET S)
      OBVIOUS
    <3> HIDE DEF M
    <3> QED BY <2>1, <3>1, SmallestSubset
  <2>3. PICK y \in T : g[T] # f[y] + g[T \ {y}]
    BY <2>2
  <2>4. T \in SUBSET S /\ T # {}
    BY <2>2, <2>3
  <2>5. PICK p \in T : g[T] = f[p] + g[T \ {p}]
    BY <1>1, <2>4
  <2>6. p # y
    BY <2>3, <2>5
  <2>7. \A z \in T \ {p} : g[T \ {p}] = f[z] + g[(T \ {p}) \ {z}]
    BY <2>2, <2>4
  <2>8. \A z \in T \ {y} : g[T \ {y}] = f[z] + g[(T \ {y}) \ {z}]
    BY <2>2, <2>4
  <2>9. (T \ {p}) \ {y} = (T \ {y}) \ {p}
    OBVIOUS
  <2>10. g[T \ {p}] = f[y] + g[(T \ {y}) \ {p}] /\ g[T \ {y}] = f[p] + g[(T \ {y}) \ {p}]
    BY <2>6, <2>7, <2>8, <2>9
  <2>11. PICK a \in Nat : a = g[(T \ {y}) \ {p}]
    BY <1>4, <2>4
  <2>12. f[p] \in Nat /\ f[y] \in Nat
    BY <2>4
  <2>13. QED
    BY <2>3, <2>5, <2>10, <2>11, <2>12
<1>6. \A y \in S : g[S] = f[y] + g[S \ {y}]
  BY <1>5
<1>7. QED
  BY <1>1, <1>2, <1>4, <1>6

\* Fewer numbers come to no more.
LEMMA SumSubset ==
    ASSUME NEW B, IsFiniteSet(B), NEW f, \A x \in B : f[x] \in Nat, NEW A \in SUBSET B
    PROVE  SumFunctionOnSet(f, A) <= SumFunctionOnSet(f, B)
<1> DEFINE sum(T) == SumFunctionOnSet(f, T)
           M == {T \in SUBSET B : \E C \in SUBSET T : ~(sum(C) <= sum(T))}
<1>1. \A T \in SUBSET B : sum(T) \in Nat /\ \A y \in T : sum(T) = f[y] + sum(T \ {y})
  <2>1. SUFFICES ASSUME NEW T \in SUBSET B
                 PROVE  sum(T) \in Nat /\ \A y \in T : sum(T) = f[y] + sum(T \ {y})
    OBVIOUS
  <2>2. IsFiniteSet(T) /\ \A x \in T : f[x] \in Nat
    BY FS_Subset
  <2>3. QED
    BY <2>2, SumFacts
<1> HIDE DEF sum
<1>2. M = {}
  <2>1. SUFFICES ASSUME M # {} PROVE FALSE
    OBVIOUS
  <2>2. PICK T \in M : \A x \in T : T \ {x} \notin M
    <3>1. M \in SUBSET (SUBSET B)
      OBVIOUS
    <3> HIDE DEF M
    <3> QED BY <2>1, <3>1, SmallestSubset
  <2>3. T \in SUBSET B
    BY <2>2
  <2>4. PICK C \in SUBSET T : ~(sum(C) <= sum(T))
    BY <2>2
  <2>5. C # T
    BY <1>1, <2>3, <2>4
  <2>6. PICK x \in T : x \notin C
    BY <2>4, <2>5
  <2>7. sum(C) <= sum(T \ {x})
    BY <2>2, <2>3, <2>4, <2>6
  <2>8. sum(T) = f[x] + sum(T \ {x}) /\ f[x] \in Nat /\ sum(T \ {x}) \in Nat /\ sum(C) \in Nat
    BY <1>1, <2>3, <2>4, <2>6
  <2>9. QED
    BY <2>4, <2>7, <2>8
<1>3. QED
  BY <1>2 DEF sum

\* A sum is at most another if its terms that count go to terms of the other
\* that are as large, no two to the same.
LEMMA SumInto ==
    ASSUME NEW S, IsFiniteSet(S), NEW f, \A x \in S : f[x] \in Nat,
           NEW J, IsFiniteSet(J), NEW g, \A j \in J : g[j] \in Nat,
           NEW W \in SUBSET S, \A x \in S \ W : f[x] = 0,
           NEW m, \A x \in W : m[x] \in J /\ f[x] <= g[m[x]],
           \A x, y \in W : m[x] = m[y] => x = y
    PROVE  SumFunctionOnSet(f, S) <= SumFunctionOnSet(g, J)
<1> DEFINE sum(T) == SumFunctionOnSet(f, T)
           its(K) == SumFunctionOnSet(g, K)
           image(T) == {m[x] : x \in T \cap W}
           M == {T \in SUBSET S : ~(sum(T) <= its(image(T)))}
<1>1. \A T \in SUBSET S : sum(T) \in Nat /\ \A y \in T : sum(T) = f[y] + sum(T \ {y})
  <2>1. SUFFICES ASSUME NEW T \in SUBSET S
                 PROVE  sum(T) \in Nat /\ \A y \in T : sum(T) = f[y] + sum(T \ {y})
    OBVIOUS
  <2>2. IsFiniteSet(T) /\ \A x \in T : f[x] \in Nat
    BY FS_Subset
  <2>3. QED
    BY <2>2, SumFacts
<1>2. \A K \in SUBSET J : its(K) \in Nat /\ \A y \in K : its(K) = g[y] + its(K \ {y})
  <2>1. SUFFICES ASSUME NEW K \in SUBSET J
                 PROVE  its(K) \in Nat /\ \A y \in K : its(K) = g[y] + its(K \ {y})
    OBVIOUS
  <2>2. IsFiniteSet(K) /\ \A x \in K : g[x] \in Nat
    BY FS_Subset
  <2>3. QED
    BY <2>2, SumFacts
<1>3. sum({}) = 0
  BY FS_EmptySet, SumFacts
<1>4. its(image(S)) <= its(J)
  <2>1. image(S) \in SUBSET J
    OBVIOUS
  <2> HIDE DEF image
  <2> QED BY <2>1, SumSubset
<1> HIDE DEF sum, its
<1>5. M = {}
  <2>1. SUFFICES ASSUME M # {} PROVE FALSE
    OBVIOUS
  <2>2. PICK T \in M : \A x \in T : T \ {x} \notin M
    <3>1. M \in SUBSET (SUBSET S)
      OBVIOUS
    <3> HIDE DEF M
    <3> QED BY <2>1, <3>1, SmallestSubset
  <2>3. T \in SUBSET S /\ ~(sum(T) <= its(image(T)))
    BY <2>2
  <2>4. image(T) \in SUBSET J
    OBVIOUS
  <2>5. T # {}
    BY <1>2, <1>3, <2>3, <2>4
  <2>6. PICK x : x \in T
    BY <2>5
  <2>7. /\ sum(T) = f[x] + sum(T \ {x}) /\ f[x] \in Nat /\ sum(T \ {x}) \in Nat
        /\ sum(T \ {x}) <= its(image(T \ {x}))
    BY <1>1, <2>2, <2>3, <2>6
  <2>8. CASE x \in W
    <3>1. m[x] \in image(T) /\ image(T) \ {m[x]} = image(T \ {x})
      BY <2>6, <2>8
    <3>2. image(T \ {x}) \in SUBSET J
      OBVIOUS
    <3>3. f[x] <= g[m[x]] /\ g[m[x]] \in Nat
      BY <2>8
    <3> HIDE DEF image
    <3>4. its(image(T)) = g[m[x]] + its(image(T \ {x})) /\ its(image(T \ {x})) \in Nat
      BY <1>2, <2>4, <3>1, <3>2
    <3>5. QED
      BY <2>3, <2>7, <3>3, <3>4
  <2>9. CASE x \notin W
    <3>1. image(T) = image(T \ {x}) /\ f[x] = 0
      BY <2>3, <2>6, <2>9
    <3> HIDE DEF image
    <3>2. QED
      BY <2>3, <2>7, <3>1
  <2>10. QED
    BY <2>8, <2>9
<1>6. sum(S) <= its(image(S)) /\ sum(S) \in Nat /\ its(image(S)) \in Nat /\ its(J) \in Nat
  <2>1. image(S) \in SUBSET J
    OBVIOUS
  <2>2. sum(S) <= its(image(S))
    BY <1>5
  <2> HIDE DEF image
  <2>3. QED
    BY <1>1, <1>2, <2>1, <2>2
<1>7. QED
  BY <1>4, <1>6 DEF sum, its

\* Equal numbers have equal sums.
LEMMA SumsEqual ==
    ASSUME NEW S, IsFiniteSet(S), NEW f, NEW g, \A x \in S : f[x] \in Nat /\ f[x] = g[x]
    PROVE  SumFunctionOnSet(f, S) = SumFunctionOnSet(g, S)
<1> DEFINE m == [x \in S |-> x]
<1>1. \A x \in S : m[x] = x /\ f[x] \in Nat /\ g[x] \in Nat /\ f[x] <= g[x] /\ g[x] <= f[x]
  OBVIOUS
<1> HIDE DEF m
<1>2. SumFunctionOnSet(f, S) <= SumFunctionOnSet(g, S)
  BY <1>1, SumInto
<1>3. SumFunctionOnSet(g, S) <= SumFunctionOnSet(f, S)
  BY <1>1, SumInto
<1>4. SumFunctionOnSet(f, S) \in Nat /\ SumFunctionOnSet(g, S) \in Nat
  BY <1>1, SumFacts
<1>5. QED
  BY <1>2, <1>3, <1>4

\* What two sets without a common member come to.
LEMMA SumOfUnion ==
    ASSUME NEW S, IsFiniteSet(S), NEW f, \A x \in S : f[x] \in Nat,
           NEW A \in SUBSET S, NEW B \in SUBSET S, A \cap B = {}
    PROVE  SumFunctionOnSet(f, A \cup B) = SumFunctionOnSet(f, A) + SumFunctionOnSet(f, B)
<1> DEFINE sum(T) == SumFunctionOnSet(f, T)
           M == {T \in SUBSET A : sum(T \cup B) # sum(T) + sum(B)}
<1>1. \A T \in SUBSET S : sum(T) \in Nat /\ \A y \in T : sum(T) = f[y] + sum(T \ {y})
  <2>1. SUFFICES ASSUME NEW T \in SUBSET S
                 PROVE  sum(T) \in Nat /\ \A y \in T : sum(T) = f[y] + sum(T \ {y})
    OBVIOUS
  <2>2. IsFiniteSet(T) /\ \A x \in T : f[x] \in Nat
    BY FS_Subset
  <2>3. QED
    BY <2>2, SumFacts
<1>2. sum({}) = 0 /\ IsFiniteSet(A)
  BY FS_EmptySet, FS_Subset, SumFacts
<1> HIDE DEF sum
<1>3. M = {}
  <2>1. SUFFICES ASSUME M # {} PROVE FALSE
    OBVIOUS
  <2>2. PICK T \in M : \A x \in T : T \ {x} \notin M
    <3>1. M \in SUBSET (SUBSET A)
      OBVIOUS
    <3> HIDE DEF M
    <3> QED BY <1>2, <2>1, <3>1, SmallestSubset
  <2>3. T \in SUBSET A /\ sum(T \cup B) # sum(T) + sum(B)
    BY <2>2
  <2>4. {} \cup B = B /\ sum(B) \in Nat
    BY <1>1
  <2>5. T # {}
    <3>1. SUFFICES ASSUME T = {} PROVE FALSE
      OBVIOUS
    <3>2. T \cup B = B
      BY <3>1
    <3>3. QED
      BY <1>2, <2>3, <2>4, <3>1, <3>2
  <2>6. PICK x : x \in T
    BY <2>5
  <2>7. sum((T \ {x}) \cup B) = sum(T \ {x}) + sum(B)
    BY <2>2, <2>3, <2>6
  <2>8. (T \cup B) \ {x} = (T \ {x}) \cup B
    BY <2>3, <2>6
  <2>9. /\ sum(T \cup B) = f[x] + sum((T \ {x}) \cup B) /\ sum(T) = f[x] + sum(T \ {x})
        /\ f[x] \in Nat /\ sum(T \ {x}) \in Nat /\ sum(B) \in Nat
    <3>1. T \cup B \in SUBSET S /\ x \in T \cup B /\ T \in SUBSET S /\ x \in S /\ T \ {x} \in SUBSET S
      BY <2>3, <2>6
    <3>2. sum(T \cup B) = f[x] + sum((T \cup B) \ {x})
      BY <1>1, <3>1
    <3>3. sum(T) = f[x] + sum(T \ {x})
      BY <1>1, <2>6, <3>1
    <3>4. f[x] \in Nat /\ sum(T \ {x}) \in Nat /\ sum(B) \in Nat
      BY <1>1, <3>1
    <3>5. QED
      BY <2>8, <3>2, <3>3, <3>4
  <2>10. QED
    BY <2>3, <2>7, <2>9
<1>4. QED
  BY <1>3 DEF sum

-----------------------------------------------------------------------------
(* Greatest and least numbers. *)

\* A finite set of numbers is bounded, ...
LEMMA FiniteHasMax ==
    ASSUME NEW S \in SUBSET Nat, IsFiniteSet(S)
    PROVE  \E n \in Nat : \A d \in S : d <= n
<1> DEFINE M == {T \in SUBSET S : ~\E n \in Nat : \A d \in T : d <= n}
<1>1. M = {}
  <2>1. SUFFICES ASSUME M # {} PROVE FALSE
    OBVIOUS
  <2>2. PICK T \in M : \A x \in T : T \ {x} \notin M
    <3>1. M \in SUBSET (SUBSET S)
      OBVIOUS
    <3> HIDE DEF M
    <3> QED BY <2>1, <3>1, SmallestSubset
  <2>3. T # {}
    BY <2>2
  <2>4. PICK x \in T : TRUE
    BY <2>3
  <2>5. PICK n \in Nat : \A d \in T \ {x} : d <= n
    BY <2>2
  <2>6. x \in Nat
    BY <2>2
  <2>7. PICK m \in Nat : m >= n /\ m >= x
    BY <2>6
  <2>8. \A d \in T : d <= m
    BY <2>2, <2>5, <2>6, <2>7
  <2>9. QED
    BY <2>2, <2>8
<1>2. QED
  BY <1>1

\* ... a bounded one has a greatest member, ...
LEMMA MaxFacts ==
    ASSUME NEW S \in SUBSET Nat, S # {}, NEW n \in Nat, \A d \in S : d <= n
    PROVE  Max(S) \in S /\ \A d \in S : d <= Max(S)
<1> DEFINE R == {n - d : d \in S}
<1>1. R \in SUBSET Nat /\ R # {}
  <2>1. \A d \in S : n - d \in Nat
    OBVIOUS
  <2>2. QED
    BY <2>1
<1>2. PICK r \in R : \A q \in R : r <= q
  <2> HIDE DEF R
  <2> QED BY <1>1, LeastOf
<1>3. PICK x \in S : r = n - x
  BY <1>2
<1>4. \A d \in S : x >= d
  BY <1>2, <1>3
<1>5. \E y \in S : \A d \in S : y >= d
  BY <1>4
<1>6. Max(S) \in S /\ \A d \in S : Max(S) >= d
  BY <1>5 DEF Max
<1>7. QED
  BY <1>6

\* ... and any has a least one.
LEMMA MinFacts ==
    ASSUME NEW S \in SUBSET Nat, S # {}
    PROVE  Min(S) \in S /\ \A d \in S : Min(S) <= d
<1>1. \E x \in S : \A d \in S : x <= d
  BY LeastOf
<1>2. QED
  BY <1>1 DEF Min

LEMMA FiniteMax ==
    ASSUME NEW S \in SUBSET Nat, S # {}, IsFiniteSet(S)
    PROVE  Max(S) \in S /\ \A d \in S : d <= Max(S)
<1>1. PICK n \in Nat : \A d \in S : d <= n
  BY FiniteHasMax
<1>2. QED
  BY <1>1, MaxFacts

LEMMA UpToFinite == ASSUME NEW n \in Nat PROVE IsFiniteSet(1 .. n) /\ Cardinality(1 .. n) = n
<1>1. 1 \in Int /\ n \in Int
  OBVIOUS
<1>2. IsFiniteSet(1 .. n) /\ Cardinality(1 .. n) = IF 1 > n THEN 0 ELSE n - 1 + 1
  BY <1>1, FS_Interval, Zenon
<1>3. QED
  BY <1>2

-----------------------------------------------------------------------------
(* The query and its lists. *)

\* Of what type the query and its lists are.
LEMMA QueryFacts ==
    ASSUME query \in LexicalQueries
    PROVE  /\ BlockSize \in Nat \ {0} /\ Len(query.terms) \in Nat /\ Terms = 1 .. Len(query.terms)
           /\ IsFiniteSet(Terms) /\ Cardinality(Terms) = Len(query.terms) /\ Terms \in SUBSET Nat
           /\ query.k \in Nat /\ query.slack \in Nat
           /\ query.algorithm \in {"exhaustive", "daat", "maxscore", "wand", "bmw"}
           /\ End \in Nat
           /\ \A t \in Terms : /\ Docs(t) \in SUBSET Nat /\ Docs(t) # {} /\ IsFiniteSet(Docs(t))
                               /\ \A d \in Docs(t) : d < End /\ query.terms[t][d] \in Nat
<1> DEFINE All == UNION {UNION {DOMAIN c : c \in Range(q.terms)} : q \in LexicalQueries}
<1>1. /\ BlockSize \in Nat \ {0} /\ Len(query.terms) \in Nat /\ Terms = 1 .. Len(query.terms)
      /\ query.k \in Nat /\ query.slack \in Nat
      /\ query.algorithm \in {"exhaustive", "daat", "maxscore", "wand", "bmw"}
  BY LexicalAssumption DEF Terms
<1>2. IsFiniteSet(Terms) /\ Cardinality(Terms) = Len(query.terms) /\ Terms \in SUBSET Nat
  BY <1>1, UpToFinite
<1>3. All \in SUBSET Nat /\ IsFiniteSet(All)
  BY LexicalAssumption DEF Range
<1>4. \A t \in Terms : Docs(t) \in SUBSET All /\ Docs(t) # {} /\ \A d \in Docs(t) : query.terms[t][d] \in Nat
  <2>1. SUFFICES ASSUME NEW t \in Terms
                 PROVE  Docs(t) \in SUBSET All /\ Docs(t) # {} /\ \A d \in Docs(t) : query.terms[t][d] \in Nat
    OBVIOUS
  <2>2. query.terms[t] \in Range(query.terms)
    BY DEF Terms, Range
  <2>3. DOMAIN query.terms[t] \subseteq All
    BY <2>2
  <2>4. DOMAIN query.terms[t] # {} /\ \A d \in DOMAIN query.terms[t] : query.terms[t][d] \in Nat
    BY LexicalAssumption DEF Terms
  <2>5. QED
    BY <2>3, <2>4 DEF Docs
<1>5. {0} \cup All \in SUBSET Nat /\ IsFiniteSet({0} \cup All) /\ {0} \cup All # {}
  <2>1. IsFiniteSet({0})
    BY FS_Singleton
  <2> HIDE DEF All
  <2>2. IsFiniteSet({0} \cup All)
    BY <1>3, <2>1, FS_Union
  <2>3. QED
    BY <1>3, <2>2
<1>6. End = 1 + Max({0} \cup All)
  BY DEF End
<1> HIDE DEF All
<1>7. End \in Nat /\ \A d \in All : d < End
  <2>1. Max({0} \cup All) \in {0} \cup All /\ \A d \in {0} \cup All : d <= Max({0} \cup All)
    BY <1>5, FiniteMax
  <2>2. PICK m \in Nat : m = Max({0} \cup All)
    BY <1>5, <2>1
  <2>3. \A d \in All : d \in Nat /\ d <= m
    BY <1>3, <2>1, <2>2
  <2>4. End = 1 + m
    BY <1>6, <2>2
  <2>5. QED
    BY ONLY <2>3, <2>4, m \in Nat
<1>8. \A t \in Terms : IsFiniteSet(Docs(t))
  BY <1>3, <1>4, FS_Subset
<1>9. QED
  BY <1>1, <1>2, <1>3, <1>4, <1>7, <1>8

\* What a term adds is within its bound.
LEMMA AddsFacts ==
    ASSUME query \in LexicalQueries, NEW t \in Terms
    PROVE  /\ Bound(t) \in Nat
           /\ \A d : Adds(t, d) \in Nat /\ Adds(t, d) <= Bound(t) /\ (d \notin Docs(t) => Adds(t, d) = 0)
<1> DEFINE values == Range(query.terms[t])
<1>1. /\ Docs(t) \in SUBSET Nat /\ Docs(t) # {} /\ IsFiniteSet(Docs(t)) /\ query.slack \in Nat
      /\ \A d \in Docs(t) : query.terms[t][d] \in Nat
  BY QueryFacts
<1>2. values \in SUBSET Nat /\ values # {} /\ \A d \in Docs(t) : query.terms[t][d] \in values
  BY <1>1 DEF Docs, Range
<1>3. \E n \in Nat : \A v \in values : v <= n
  <2> DEFINE w == query.terms[t]
             M == {T \in SUBSET Docs(t) : ~\E n \in Nat : \A d \in T : w[d] <= n}
  <2>1. M = {}
    <3>1. SUFFICES ASSUME M # {} PROVE FALSE
      OBVIOUS
    <3>2. PICK T \in M : \A x \in T : T \ {x} \notin M
      <4>1. M \in SUBSET (SUBSET Docs(t))
        OBVIOUS
      <4> HIDE DEF M
      <4> QED BY <1>1, <3>1, <4>1, SmallestSubset
    <3>3. PICK x \in T : TRUE
      BY <3>2
    <3>4. PICK n \in Nat : \A d \in T \ {x} : w[d] <= n
      BY <3>2
    <3>5. PICK m \in Nat : m >= n /\ m >= w[x]
      BY <1>1, <3>2
    <3>6. \A d \in T : w[d] <= m
      BY <1>1, <3>2, <3>4, <3>5
    <3>7. QED
      BY <3>2, <3>6
  <2>2. PICK n \in Nat : \A d \in Docs(t) : w[d] <= n
    BY <2>1
  <2>3. QED
    BY <2>2 DEF Range, Docs
<1>4. Max(values) \in values /\ \A v \in values : v <= Max(values)
  <2> HIDE DEF values
  <2> QED BY <1>2, <1>3, MaxFacts
<1>5. Bound(t) = Max(values) + query.slack
  BY DEF Bound
<1> HIDE DEF values
<1>6. Bound(t) \in Nat /\ \A d \in Docs(t) : query.terms[t][d] <= Bound(t)
  BY <1>1, <1>2, <1>4, <1>5
<1>7. QED
  BY <1>1, <1>6 DEF Adds

-----------------------------------------------------------------------------
(* Sorting: by the number of those before. *)

\* The members before one, and its rank.
AheadIn(S, R, x) == {u \in S : <<u, x>> \in R}
RankIn(S, R, x) == Cardinality(AheadIn(S, R, x))
TotalOrder(S, R) ==
    /\ \A x \in S : <<x, x>> \notin R
    /\ \A x, y, z \in S : <<x, y>> \in R /\ <<y, z>> \in R => <<x, z>> \in R
    /\ \A x, y \in S : x # y => <<x, y>> \in R \/ <<y, x>> \in R

\* The ranks in a total order count from 0 and tell its members apart.
LEMMA Ranks ==
    ASSUME NEW S, IsFiniteSet(S), NEW R, TotalOrder(S, R)
    PROVE  /\ \A x \in S : RankIn(S, R, x) \in Nat /\ RankIn(S, R, x) < Cardinality(S)
           /\ \A x, y \in S : /\ <<x, y>> \in R <=> RankIn(S, R, x) < RankIn(S, R, y)
                              /\ RankIn(S, R, x) = RankIn(S, R, y) => x = y
           /\ \A i \in 0 .. Cardinality(S) - 1 : \E x \in S : RankIn(S, R, x) = i
<1> DEFINE r(x) == RankIn(S, R, x)
<1>1. Cardinality(S) \in Nat
  BY FS_CardinalityType
<1>2. ASSUME NEW x \in S PROVE IsFiniteSet(AheadIn(S, R, x)) /\ r(x) \in Nat /\ r(x) < Cardinality(S)
  <2>1. AheadIn(S, R, x) \in SUBSET S
    BY DEF AheadIn
  <2>2. IsFiniteSet(AheadIn(S, R, x)) /\ r(x) <= Cardinality(S) /\ (r(x) = Cardinality(S) => AheadIn(S, R, x) = S)
    BY <2>1, FS_Subset DEF RankIn
  <2>3. r(x) \in Nat
    BY <2>2, FS_CardinalityType DEF RankIn
  <2>4. x \notin AheadIn(S, R, x)
    BY DEF AheadIn, TotalOrder
  <2>5. QED
    BY <1>1, <2>2, <2>3, <2>4
<1>3. ASSUME NEW x \in S, NEW y \in S, <<x, y>> \in R PROVE r(x) < r(y)
  <2>1. AheadIn(S, R, x) \cup {x} \in SUBSET AheadIn(S, R, y)
    BY <1>3 DEF AheadIn, TotalOrder
  <2>2. x \notin AheadIn(S, R, x)
    BY DEF AheadIn, TotalOrder
  <2>3. Cardinality(AheadIn(S, R, x) \cup {x}) = r(x) + 1
    BY <1>2, <2>2, FS_AddElement DEF RankIn
  <2>4. Cardinality(AheadIn(S, R, x) \cup {x}) <= r(y)
    BY <1>2, <2>1, FS_Subset DEF RankIn
  <2>5. QED
    BY <1>2, <2>3, <2>4
<1>4. \A x, y \in S : (<<x, y>> \in R <=> r(x) < r(y)) /\ (r(x) = r(y) => x = y)
  <2> SUFFICES ASSUME NEW x \in S, NEW y \in S
               PROVE  (<<x, y>> \in R <=> r(x) < r(y)) /\ (r(x) = r(y) => x = y)
    OBVIOUS
  <2>1. x = y \/ <<x, y>> \in R \/ <<y, x>> \in R
    BY DEF TotalOrder
  <2>2. r(x) \in Nat /\ r(y) \in Nat
    BY <1>2
  <2>3. (<<x, y>> \in R => r(x) < r(y)) /\ (<<y, x>> \in R => r(y) < r(x))
    BY <1>3
  <2> HIDE DEF r
  <2>4. QED
    BY <2>1, <2>2, <2>3
<1>5. ASSUME NEW i \in 0 .. Cardinality(S) - 1 PROVE \E x \in S : r(x) = i
  <2> DEFINE T == 0 .. (Cardinality(S) - 1)
             f == [x \in S |-> r(x)]
  <2>1. IsFiniteSet(T) /\ Cardinality(T) = Cardinality(S)
    <3>1. PICK n \in Nat : n = Cardinality(S)
      BY <1>1
    <3>2. 0 \in Int /\ n - 1 \in Int
      OBVIOUS
    <3>3. IsFiniteSet(0 .. (n - 1)) /\ Cardinality(0 .. (n - 1)) = IF 0 > n - 1 THEN 0 ELSE n - 1 - 0 + 1
      BY <3>2, FS_Interval, Zenon
    <3>4. QED
      BY <3>1, <3>3
  <2>2. f \in Injection(S, T)
    <3>1. \A x \in S : r(x) \in T
      BY <1>1, <1>2
    <3>2. \A x, y \in S : r(x) = r(y) => x = y
      BY <1>4
    <3> HIDE DEF r, T
    <3>3. f \in [S -> T] /\ \A x, y \in S : f[x] = f[y] => x = y
      BY <3>1, <3>2
    <3> HIDE DEF f
    <3>4. QED
      BY <3>3 DEF Injection, IsInjective
  <2> HIDE DEF T, f
  <2>3. f \in Surjection(S, T)
    BY <2>1, <2>2, FS_Injection
  <2>4. \E x \in S : f[x] = i
    BY <2>3 DEF Surjection, T
  <2>5. QED
    BY <2>4 DEF f
<1>6. QED
  BY <1>2, <1>4, <1>5

\* A stable sort lists every term once, in order.
Listing(to, s) ==
    /\ DOMAIN s = 1 .. Len(query.terms) /\ Len(s) = Len(query.terms)
    /\ \A i \in DOMAIN s : s[i] \in Terms
    /\ \A t \in Terms : \E i \in DOMAIN s : s[i] = t
    /\ \A i, j \in DOMAIN s : /\ s[i] = s[j] => i = j
                              /\ i < j => to[s[i]] <= to[s[j]]

LEMMA LenDomain == ASSUME NEW s, NEW n \in Nat, DOMAIN s = 1 .. n PROVE Len(s) = n
OBVIOUS

\* Sorting by a total order lists every term once, in the order of the key.
LEMMA InOrderLists ==
    ASSUME query \in LexicalQueries, NEW before, TotalOrder(Terms, before), NEW to,
           \A t, u \in Terms : <<t, u>> \in before => to[t] <= to[u]
    PROVE  Listing(to, InOrder(before))
<1> DEFINE s == InOrder(before)
           n == Len(query.terms)
           r(t) == Cardinality({u \in Terms : <<u, t>> \in before})
<1>1. n \in Nat /\ Terms = 1 .. n /\ IsFiniteSet(Terms) /\ Cardinality(Terms) = n
  BY QueryFacts
<1>2. /\ \A t \in Terms : r(t) \in Nat /\ r(t) < n
      /\ \A t, u \in Terms : (<<t, u>> \in before <=> r(t) < r(u)) /\ (r(t) = r(u) => t = u)
      /\ \A i \in 0 .. (n - 1) : \E t \in Terms : r(t) = i
  <2>1. \A t : r(t) = RankIn(Terms, before, t)
    BY DEF AheadIn, RankIn
  <2> HIDE DEF r
  <2> DEFINE S == Terms
  <2>2. /\ \A x \in S : RankIn(S, before, x) \in Nat /\ RankIn(S, before, x) < Cardinality(S)
        /\ \A x, y \in S : /\ <<x, y>> \in before <=> RankIn(S, before, x) < RankIn(S, before, y)
                           /\ RankIn(S, before, x) = RankIn(S, before, y) => x = y
        /\ \A i \in 0 .. Cardinality(S) - 1 : \E x \in S : RankIn(S, before, x) = i
    <3>1. IsFiniteSet(S) /\ TotalOrder(S, before)
      BY <1>1
    <3> HIDE DEF S
    <3>2. QED
      BY ONLY <3>1, Ranks, Zenon
  <2>3. \A t \in Terms : r(t) \in Nat /\ r(t) < n
    BY <1>1, <2>1, <2>2
  <2>4. \A t, u \in Terms : (<<t, u>> \in before <=> r(t) < r(u)) /\ (r(t) = r(u) => t = u)
    BY <2>1, <2>2
  <2>5. \A i \in 0 .. (n - 1) : \E t \in Terms : r(t) = i
    BY <1>1, <2>1, <2>2
  <2>6. QED
    BY <2>3, <2>4, <2>5
<1>3. s = [i \in 1 .. n |-> CHOOSE t \in Terms : r(t) = i - 1]
  BY DEF InOrder
<1> HIDE DEF s, r
<1>4. ASSUME NEW i \in 1 .. n PROVE s[i] \in Terms /\ r(s[i]) = i - 1
  <2>1. i - 1 \in 0 .. (n - 1)
    BY <1>1
  <2>2. \E t \in Terms : r(t) = i - 1
    BY <1>2, <2>1
  <2>3. s[i] = CHOOSE t \in Terms : r(t) = i - 1
    BY <1>3
  <2>4. QED
    BY <2>2, <2>3
<1>5. DOMAIN s = 1 .. n /\ Len(s) = n
  <2>1. s \in [1 .. n -> Terms]
    BY <1>3, <1>4
  <2> HIDE DEF n
  <2>2. DOMAIN s = 1 .. n /\ n \in Nat
    BY <1>1, <2>1
  <2>3. QED
    BY <2>2, LenDomain
<1>6. ASSUME NEW t \in Terms PROVE \E i \in 1 .. n : s[i] = t
  <2>1. r(t) + 1 \in 1 .. n
    BY <1>1, <1>2
  <2>2. r(s[r(t) + 1]) = r(t) /\ s[r(t) + 1] \in Terms
    BY <1>2, <1>4, <2>1
  <2>3. s[r(t) + 1] = t
    BY <1>2, <2>2
  <2>4. QED
    BY <2>1, <2>3
<1>7. ASSUME NEW i \in 1 .. n, NEW j \in 1 .. n
      PROVE  (s[i] = s[j] => i = j) /\ (i < j => to[s[i]] <= to[s[j]])
  <2>1. r(s[i]) = i - 1 /\ r(s[j]) = j - 1 /\ s[i] \in Terms /\ s[j] \in Terms
    BY <1>4
  <2>2. s[i] = s[j] => i = j
    BY <1>1, <2>1
  <2>3. i < j => <<s[i], s[j]>> \in before
    <3>1. <<s[i], s[j]>> \in before <=> r(s[i]) < r(s[j])
      BY <1>2, <2>1
    <3>2. i < j => i - 1 < j - 1
      BY <1>1
    <3>3. QED
      BY <2>1, <3>1, <3>2
  <2>4. QED
    BY <2>1, <2>2, <2>3
<1>8. QED
  BY <1>4, <1>5, <1>6, <1>7 DEF Listing, s

-----------------------------------------------------------------------------
(* The heap. *)

Hits == [doc : Nat, score : Nat]
\* Hits as a total order.
Before(A) == {p \in A \X A : ranks_before(p[1], p[2])}
Ahead(A, h) == {i \in A : ranks_before(i, h)}

\* ranks_before is a total order of the hits.
LEMMA HitOrder ==
    /\ \A h \in Hits : h.doc \in Nat /\ h.score \in Nat /\ ~ranks_before(h, h)
    /\ \A h, i, j \in Hits : ranks_before(h, i) /\ ranks_before(i, j) => ranks_before(h, j)
    /\ \A h, i \in Hits : h # i => ranks_before(h, i) \/ ranks_before(i, h)
<1>1. \A h \in Hits : h.doc \in Nat /\ h.score \in Nat
  BY DEF Hits
<1>2. \A h, i \in Hits : h.doc = i.doc /\ h.score = i.score => h = i
  BY DEF Hits
<1>3. \A h \in Hits : ~ranks_before(h, h)
  BY <1>1 DEF ranks_before
<1>4. \A h, i, j \in Hits : ranks_before(h, i) /\ ranks_before(i, j) => ranks_before(h, j)
  <2>1. SUFFICES ASSUME NEW h \in Hits, NEW i \in Hits, NEW j \in Hits, ranks_before(h, i), ranks_before(i, j)
                 PROVE  ranks_before(h, j)
    OBVIOUS
  <2>2. /\ h.doc \in Nat /\ i.doc \in Nat /\ j.doc \in Nat
        /\ h.score \in Nat /\ i.score \in Nat /\ j.score \in Nat
    BY <1>1
  <2>3. /\ h.score > i.score \/ (h.score = i.score /\ h.doc < i.doc)
        /\ i.score > j.score \/ (i.score = j.score /\ i.doc < j.doc)
    BY <2>1 DEF ranks_before
  <2>4. h.score > j.score \/ (h.score = j.score /\ h.doc < j.doc)
    BY ONLY <2>2, <2>3
  <2>5. QED
    BY <2>4 DEF ranks_before
<1>5. \A h, i \in Hits : h # i => ranks_before(h, i) \/ ranks_before(i, h)
  BY <1>1, <1>2 DEF ranks_before
<1>6. QED
  BY <1>1, <1>3, <1>4, <1>5

\* So the hits of a set have their ranks.
LEMMA HitRanks ==
    ASSUME NEW A \in SUBSET Hits, IsFiniteSet(A)
    PROVE  /\ Cardinality(A) \in Nat
           /\ \A h \in A : Cardinality(Ahead(A, h)) \in Nat /\ Cardinality(Ahead(A, h)) < Cardinality(A)
           /\ \A h, i \in A : /\ ranks_before(h, i) <=> Cardinality(Ahead(A, h)) < Cardinality(Ahead(A, i))
                              /\ Cardinality(Ahead(A, h)) = Cardinality(Ahead(A, i)) => h = i
           /\ \A n \in 0 .. Cardinality(A) - 1 : \E h \in A : Cardinality(Ahead(A, h)) = n
<1> DEFINE R == Before(A)
<1>1. \A h, i \in A : <<h, i>> \in R <=> ranks_before(h, i)
  BY DEF Before
<1>2. TotalOrder(A, R)
  <2>1. \A h, i, j \in A : <<h, i>> \in R /\ <<i, j>> \in R => <<h, j>> \in R
    <3> HIDE DEF R
    <3> QED BY <1>1, HitOrder
  <2>2. \A h \in A : <<h, h>> \notin R
    <3> HIDE DEF R
    <3> QED BY <1>1, HitOrder
  <2>3. \A h, i \in A : h # i => <<h, i>> \in R \/ <<i, h>> \in R
    <3> HIDE DEF R
    <3> QED BY <1>1, HitOrder
  <2>4. QED
    BY <2>1, <2>2, <2>3 DEF TotalOrder
<1> HIDE DEF R
<1>3. \A h \in A : AheadIn(A, R, h) = Ahead(A, h)
  BY <1>1 DEF AheadIn, Ahead
<1>4. /\ \A x \in A : RankIn(A, R, x) \in Nat /\ RankIn(A, R, x) < Cardinality(A)
      /\ \A x, y \in A : /\ <<x, y>> \in R <=> RankIn(A, R, x) < RankIn(A, R, y)
                         /\ RankIn(A, R, x) = RankIn(A, R, y) => x = y
      /\ \A i \in 0 .. Cardinality(A) - 1 : \E x \in A : RankIn(A, R, x) = i
  BY ONLY <1>2, IsFiniteSet(A), Ranks, Zenon
<1>5. \A h \in A : RankIn(A, R, h) = Cardinality(Ahead(A, h))
  BY <1>3 DEF RankIn
<1>6. Cardinality(A) \in Nat
  BY FS_CardinalityType
<1> DEFINE n == Cardinality(A)
           c(h) == Cardinality(Ahead(A, h))
<1>7. /\ \A x \in A : c(x) \in Nat /\ c(x) < n
      /\ \A x, y \in A : /\ <<x, y>> \in R <=> c(x) < c(y)
                         /\ c(x) = c(y) => x = y
      /\ \A i \in 0 .. n - 1 : \E x \in A : c(x) = i
  BY ONLY <1>4, <1>5
<1> HIDE DEF c, n
<1>8. /\ \A x \in A : c(x) \in Nat /\ c(x) < n
      /\ \A x, y \in A : (ranks_before(x, y) <=> c(x) < c(y)) /\ (c(x) = c(y) => x = y)
      /\ \A i \in 0 .. n - 1 : \E x \in A : c(x) = i
  BY ONLY <1>1, <1>7
<1>9. QED
  BY ONLY <1>6, <1>8 DEF c, n

\* A set of k of A that rank before the rest of A is its best k, and so it is.
LEMMA BestIs ==
    ASSUME NEW A \in SUBSET Hits, IsFiniteSet(A), NEW k \in Nat, NEW B \in SUBSET A, Cardinality(B) = k,
           \A b \in B, a \in A \ B : ranks_before(b, a)
    PROVE  Best(k, A) = B
<1>1. IsFiniteSet(B)
  BY FS_Subset
<1>2. ASSUME NEW h \in B PROVE Cardinality(Ahead(A, h)) < k
  <2>1. Ahead(A, h) \in SUBSET (B \ {h})
    BY HitOrder DEF Ahead
  <2>2. IsFiniteSet(B \ {h}) /\ Cardinality(B \ {h}) = k - 1
    BY <1>1, FS_RemoveElement
  <2>3. Cardinality(Ahead(A, h)) <= k - 1 /\ IsFiniteSet(Ahead(A, h))
    BY <2>1, <2>2, FS_Subset
  <2>4. Cardinality(Ahead(A, h)) \in Nat
    BY <2>3, FS_CardinalityType
  <2>5. QED
    BY <2>3, <2>4
<1>3. ASSUME NEW h \in A \ B PROVE ~(Cardinality(Ahead(A, h)) < k)
  <2>1. B \in SUBSET Ahead(A, h)
    BY DEF Ahead
  <2>2. IsFiniteSet(Ahead(A, h))
    <3>1. Ahead(A, h) \in SUBSET A
      BY DEF Ahead
    <3>2. QED
      BY <3>1, FS_Subset
  <2>3. k <= Cardinality(Ahead(A, h)) /\ Cardinality(Ahead(A, h)) \in Nat
    BY <2>1, <2>2, FS_Subset, FS_CardinalityType
  <2>4. QED
    BY <2>3
<1>4. QED
  BY <1>2, <1>3 DEF Best, Ahead

\* Up to k hits are all among the best.
LEMMA BestOfFew ==
    ASSUME NEW A \in SUBSET Hits, IsFiniteSet(A), NEW k \in Nat, Cardinality(A) <= k
    PROVE  Best(k, A) = A
<1>1. \A h \in A : Cardinality(Ahead(A, h)) < k
  BY HitRanks
<1>2. QED
  BY <1>1 DEF Best, Ahead

\* The best k of a set are k, or all, and rank before the others.
LEMMA BestFacts ==
    ASSUME NEW A \in SUBSET Hits, IsFiniteSet(A), NEW k \in Nat
    PROVE  /\ Best(k, A) \in SUBSET A /\ IsFiniteSet(Best(k, A)) /\ Cardinality(Best(k, A)) \in Nat
           /\ Cardinality(A) < k => Cardinality(Best(k, A)) < k
           /\ Cardinality(A) >= k => Cardinality(Best(k, A)) = k
           /\ \A b \in Best(k, A), a \in A \ Best(k, A) : ranks_before(b, a)
<1> DEFINE B == Best(k, A)
           c(h) == Cardinality(Ahead(A, h))
<1>1. B = {h \in A : c(h) < k}
  BY DEF Best, Ahead
<1>2. /\ Cardinality(A) \in Nat
      /\ \A h \in A : c(h) \in Nat /\ c(h) < Cardinality(A)
      /\ \A h, i \in A : (ranks_before(h, i) <=> c(h) < c(i)) /\ (c(h) = c(i) => h = i)
      /\ \A n \in 0 .. Cardinality(A) - 1 : \E h \in A : c(h) = n
  BY HitRanks
<1> HIDE DEF B, c
<1>3. IsFiniteSet(B) /\ Cardinality(B) \in Nat
  BY <1>1, FS_Subset, FS_CardinalityType
<1>4. \A b \in B, a \in A \ B : ranks_before(b, a)
  BY <1>1, <1>2
<1>5. ASSUME Cardinality(A) >= k PROVE Cardinality(B) = k
  <2> DEFINE T == 0 .. (k - 1)
             f == [x \in B |-> c(x)]
  <2>1. IsFiniteSet(T) /\ Cardinality(T) = k
    <3>1. 0 \in Int /\ k - 1 \in Int
      OBVIOUS
    <3>2. IsFiniteSet(0 .. (k - 1)) /\ Cardinality(0 .. (k - 1)) = IF 0 > k - 1 THEN 0 ELSE k - 1 - 0 + 1
      BY <3>1, FS_Interval, Zenon
    <3>3. QED
      BY <3>2
  <2>2. f \in [B -> T] /\ \A x, y \in B : f[x] = f[y] => x = y
    <3>1. \A x \in B : c(x) \in T
      BY <1>1, <1>2
    <3>2. \A x, y \in B : c(x) = c(y) => x = y
      BY <1>1, <1>2
    <3>3. QED
      BY <3>1, <3>2
  <2>3. \A n \in T : \E x \in B : f[x] = n
    <3>1. SUFFICES ASSUME NEW n \in T PROVE \E x \in B : f[x] = n
      OBVIOUS
    <3>2. n \in 0 .. Cardinality(A) - 1 /\ n < k
      BY <1>2, <1>5
    <3>3. PICK x \in A : c(x) = n
      BY <1>2, <3>2
    <3>4. QED
      BY <1>1, <3>2, <3>3
  <2> HIDE DEF T, f
  <2>4. f \in Bijection(B, T)
    BY <2>2, <2>3 DEF Bijection, Injection, Surjection, IsInjective
  <2>5. Cardinality(B) = Cardinality(T)
    BY <1>3, <2>4, FS_Bijection DEF ExistsBijection
  <2>6. QED
    BY <2>1, <2>5
<1>6. ASSUME Cardinality(A) < k PROVE Cardinality(B) < k
  <2>1. B = A
    BY <1>6, <1>2, BestOfFew DEF B
  <2>2. QED
    BY <1>6, <2>1
<1>7. QED
  BY <1>1, <1>3, <1>4, <1>5, <1>6 DEF B

\* The root of the heap is the hit that all others of it rank before.
LEMMA WorstFacts ==
    ASSUME NEW B \in SUBSET Hits, IsFiniteSet(B), B # {}
    PROVE  Worst(B) \in B /\ \A i \in B \ {Worst(B)} : ranks_before(i, Worst(B))
<1>1. Cardinality(B) \in Nat /\ Cardinality(B) # 0
  BY FS_CardinalityType, FS_EmptySet
<1>2. PICK w \in B : Cardinality(Ahead(B, w)) = Cardinality(B) - 1
  <2>1. Cardinality(B) - 1 \in 0 .. Cardinality(B) - 1
    BY <1>1
  <2>2. QED
    BY <2>1, HitRanks
<1>3. \A i \in B \ {w} : ranks_before(i, w)
  <2>1. SUFFICES ASSUME NEW i \in B \ {w} PROVE ranks_before(i, w)
    OBVIOUS
  <2>2. ~ranks_before(w, i)
    BY <1>1, <1>2, HitRanks
  <2>3. QED
    BY <2>2, HitOrder
<1>4. QED
  BY <1>3 DEF Worst

\* cannot_beat: a sum that a full heap turns away.
Beaten(heap, sum) == Full(heap) /\ sum <= Worst(heap).score

\* What the heap takes in, and what it then turns away.
LEMMA PushIsBest ==
    ASSUME query.k \in Nat \ {0}, NEW A \in SUBSET Hits, IsFiniteSet(A), NEW h \in Hits, h \notin A
    PROVE  push(Best(query.k, A), h) = Best(query.k, A \cup {h})
<1> DEFINE k == query.k
           B == Best(k, A)
           w == Worst(B)
           A2 == A \cup {h}
<1>1. /\ B \in SUBSET A /\ IsFiniteSet(B) /\ Cardinality(B) \in Nat
      /\ Cardinality(A) < k => Cardinality(B) < k
      /\ Cardinality(A) >= k => Cardinality(B) = k
      /\ \A b \in B, a \in A \ B : ranks_before(b, a)
  BY BestFacts
<1>2. Cardinality(A) \in Nat /\ k \in Nat /\ k # 0
  BY FS_CardinalityType
<1>3. A2 \in SUBSET Hits /\ IsFiniteSet(A2) /\ Cardinality(A2) = Cardinality(A) + 1
  BY FS_AddElement
<1>4. CASE Cardinality(A) < k
  <2>1. B = A
    BY <1>2, <1>4, BestOfFew
  <2>2. ~Full(B)
    BY <1>1, <1>2, <1>4 DEF Full
  <2>3. Best(k, A2) = A2
    BY <1>2, <1>3, <1>4, BestOfFew
  <2>4. QED
    BY <2>1, <2>2, <2>3 DEF push
<1>5. CASE Cardinality(A) >= k
  <2>1. Cardinality(B) = k /\ Full(B)
    BY <1>1, <1>2, <1>5 DEF Full
  <2>2. B # {}
    BY <1>2, <2>1, FS_EmptySet
  <2>3. w \in B /\ \A i \in B \ {w} : ranks_before(i, w)
    BY <1>1, <2>2, WorstFacts
  <2> HIDE DEF B, w
  <2>4. CASE ranks_before(h, w)
    <3> DEFINE C == (B \ {w}) \cup {h}
    <3>1. C \in SUBSET A2
      BY <1>1
    <3>2. Cardinality(C) = k
      <4>1. IsFiniteSet(B \ {w}) /\ Cardinality(B \ {w}) = k - 1
        BY <1>1, <2>1, <2>3, FS_RemoveElement
      <4>2. h \notin B \ {w}
        BY <1>1
      <4>3. Cardinality(C) = k - 1 + 1
        BY <4>1, <4>2, FS_AddElement
      <4>4. QED
        BY <1>2, <4>3
    <3>3. \A b \in C, a \in A2 \ C : ranks_before(b, a)
      <4>1. SUFFICES ASSUME NEW b \in C, NEW a \in A2 \ C PROVE ranks_before(b, a)
        OBVIOUS
      <4>2. a \in A \ B \/ a = w
        OBVIOUS
      <4>3. ranks_before(b, w)
        BY <2>3, <2>4
      <4>4. a \in A \ B => ranks_before(w, a)
        BY <1>1, <2>3
      <4>5. b \in Hits /\ w \in Hits /\ a \in Hits
        BY <1>1, <1>3, <2>3
      <4>6. QED
        BY ONLY <4>2, <4>3, <4>4, <4>5, HitOrder
    <3>4. Best(k, A2) = C
      <4> HIDE DEF C, A2, k
      <4> QED BY <1>2, <1>3, <3>1, <3>2, <3>3, BestIs
    <3>5. QED
      BY <2>1, <2>4, <3>4 DEF push, B, w
  <2>5. CASE ~ranks_before(h, w)
    <3>1. ranks_before(w, h)
      <4>1. w # h /\ w \in Hits
        BY <1>1, <2>3
      <4>2. QED
        BY <2>5, <4>1, HitOrder
    <3>2. \A b \in B, a \in A2 \ B : ranks_before(b, a)
      <4>1. SUFFICES ASSUME NEW b \in B, NEW a \in A2 \ B PROVE ranks_before(b, a)
        OBVIOUS
      <4>2. a \in A \ B \/ a = h
        OBVIOUS
      <4>3. b = w \/ ranks_before(b, w)
        BY <2>3
      <4>4. b \in Hits /\ w \in Hits /\ h \in Hits
        BY <1>1, <2>3
      <4>5. ranks_before(b, h)
        BY ONLY <3>1, <4>3, <4>4, HitOrder
      <4>6. QED
        BY <1>1, <4>2, <4>5
    <3>3. B \in SUBSET A2
      BY <1>1
    <3>4. Best(k, A2) = B
      <4> HIDE DEF A2, k
      <4> QED BY <1>2, <1>3, <2>1, <3>2, <3>3, BestIs
    <3>5. QED
      BY <2>1, <2>5, <3>4 DEF push, B, w
  <2>6. QED
    BY <2>4, <2>5
<1>6. QED
  BY <1>2, <1>4, <1>5

\* What cannot beat the heap cannot beat it after a push either.
LEMMA PushRaises ==
    ASSUME query.k \in Nat \ {0}, NEW B \in SUBSET Hits, IsFiniteSet(B), NEW h \in Hits, h \notin B,
           NEW sum \in Nat, Beaten(B, sum)
    PROVE  Beaten(push(B, h), sum)
<1> DEFINE k == query.k
           w == Worst(B)
           C == (B \ {w}) \cup {h}
<1>1. Cardinality(B) \in Nat /\ Cardinality(B) >= k /\ sum <= w.score /\ Full(B) /\ k \in Nat /\ k # 0
  BY FS_CardinalityType DEF Beaten, Full
<1>2. B # {}
  BY <1>1, FS_EmptySet
<1>3. w \in B /\ \A i \in B \ {w} : ranks_before(i, w)
  BY <1>2, WorstFacts
<1> HIDE DEF w
<1>4. CASE ranks_before(h, w)
  <2>1. push(B, h) = C
    BY <1>1, <1>4 DEF push, w
  <2>2. IsFiniteSet(C) /\ Cardinality(C) = Cardinality(B)
    <3>1. IsFiniteSet(B \ {w}) /\ Cardinality(B \ {w}) = Cardinality(B) - 1
      BY <1>3, FS_RemoveElement
    <3>2. h \notin B \ {w}
      OBVIOUS
    <3>3. IsFiniteSet(C) /\ Cardinality(C) = Cardinality(B) - 1 + 1
      BY <3>1, <3>2, FS_AddElement
    <3>4. QED
      BY <1>1, <3>3
  <2>3. C \in SUBSET Hits /\ C # {} /\ \A i \in C : ranks_before(i, w)
    BY <1>3, <1>4
  <2> HIDE DEF C
  <2>4. Worst(C) \in C
    BY <2>2, <2>3, WorstFacts
  <2>5. PICK v : v = Worst(C)
    OBVIOUS
  <2>6. ranks_before(v, w) /\ v \in Hits /\ w \in Hits
    BY <1>3, <2>3, <2>4, <2>5
  <2>7. v.score >= w.score /\ v.score \in Nat /\ w.score \in Nat
    BY <2>6, HitOrder DEF ranks_before
  <2>8. sum <= v.score
    BY <1>1, <2>7
  <2>9. Full(C)
    BY <1>1, <2>2 DEF Full
  <2>10. QED
    BY <2>1, <2>5, <2>8, <2>9 DEF Beaten
<1>5. CASE ~ranks_before(h, w)
  BY <1>1, <1>5 DEF push, w
<1>6. QED
  BY <1>4, <1>5

\* Documents that come after the heap and cannot beat it change nothing.
LEMMA BestStays ==
    ASSUME query.k \in Nat \ {0}, NEW A \in SUBSET Hits, IsFiniteSet(A), NEW C \in SUBSET Hits, IsFiniteSet(C),
           \A c \in C : c \in A \/ (/\ Beaten(Best(query.k, A), c.score)
                                    /\ \A h \in Best(query.k, A) : h.doc < c.doc)
    PROVE  Best(query.k, A \cup C) = Best(query.k, A)
<1> DEFINE k == query.k
           B == Best(k, A)
           w == Worst(B)
           A2 == A \cup C
<1>1. /\ B \in SUBSET A /\ IsFiniteSet(B) /\ Cardinality(B) \in Nat
      /\ Cardinality(A) < k => Cardinality(B) < k
      /\ Cardinality(A) >= k => Cardinality(B) = k
      /\ \A b \in B, a \in A \ B : ranks_before(b, a)
  BY BestFacts
<1>2. Cardinality(A) \in Nat /\ k \in Nat /\ k # 0
  BY FS_CardinalityType
<1>3. CASE C \subseteq A
  <2>1. A2 = A
    BY <1>3
  <2>2. QED
    BY <2>1
<1>4. CASE ~(C \subseteq A)
  <2>1. Cardinality(B) = k
    <3>1. Full(B)
      BY <1>4 DEF Beaten
    <3>2. QED
      BY <1>1, <1>2, <3>1 DEF Full
  <2>2. B # {}
    BY <1>2, <2>1, FS_EmptySet
  <2>3. w \in B /\ \A i \in B \ {w} : ranks_before(i, w)
    BY <1>1, <2>2, WorstFacts
  <2>4. \A c \in C \ A : c.score <= w.score /\ w.doc < c.doc
    BY <2>3 DEF Beaten
  <2> HIDE DEF B, w
  <2>5. \A c \in C \ A : ranks_before(w, c)
    BY <1>1, <2>3, <2>4, HitOrder DEF ranks_before
  <2>6. \A b \in B, a \in A2 \ B : ranks_before(b, a)
    <3>1. SUFFICES ASSUME NEW b \in B, NEW a \in A2 \ B PROVE ranks_before(b, a)
      OBVIOUS
    <3>2. b = w \/ ranks_before(b, w)
      BY <2>3
    <3>3. b \in Hits /\ w \in Hits /\ a \in Hits
      BY <1>1, <2>3
    <3>4. a \in C \ A => ranks_before(b, a)
      BY <2>5, <3>2, <3>3, HitOrder
    <3>5. a \in A \ B \/ a \in C \ A
      OBVIOUS
    <3>6. QED
      BY <1>1, <3>4, <3>5
  <2>7. A2 \in SUBSET Hits /\ IsFiniteSet(A2) /\ B \in SUBSET A2
    BY <1>1, FS_Union
  <2>8. Best(k, A2) = B
    <3> HIDE DEF A2, k
    <3> QED BY <1>2, <2>1, <2>6, <2>7, BestIs
  <2>9. QED
    BY <2>8 DEF B
<1>5. QED
  BY <1>3, <1>4

-----------------------------------------------------------------------------
(* The inductive invariant. *)

\* The block of a document, and where cursors stand: on a document or at the end.
Blk(t, d) == Number(t, d) \div BlockSize
Stands(to) == to \in [Terms -> Nat] /\ \A t \in Terms : to[t] \in Docs(t) \cup {End}
\* The documents that some cursor has passed.
PassedBy(to) == {d \in Matching : \E t \in Terms : d \in Docs(t) /\ to[t] > d}
Exact(to, heap) == heap = Best(query.k, Scores(PassedBy(to)))

\* Document at a time: what one cursor has passed, all have.
DaatInvariant(to) == \A d \in PassedBy(to) : \A t \in Terms : d < to[t]

\* MaxScore: the lists before the partition cannot beat the heap together, the
\* others have passed the same documents, and block pointers trail the cursors.
MaxScoreInvariant(to, blk, o, e, heap) ==
    /\ Listing([t \in Terms |-> Bound(t)], o) /\ blk \in [Terms -> Nat]
    /\ e \in 1 .. Len(query.terms) + 1
    /\ e > 1 => Beaten(heap, SumFunctionOnSet([j \in DOMAIN o |-> Bound(o[j])], 1 .. e - 1))
    /\ \A i \in e .. Len(query.terms) : \A t \in Terms : \A d \in Docs(t) : d < to[t] => d < to[o[i]]
    /\ \A h \in heap : \A t \in Terms : h.doc <= to[t]
    /\ \A t \in Terms : blk[t] <= Blk(t, to[t])

\* A document that a block pointer is past is passed, or cannot get in.
Pointed(to, blk, heap) ==
    /\ blk \in [Terms -> Nat]
    /\ \A t \in Terms : \A d \in Docs(t) : Blk(t, d) < blk[t] => d < to[t] \/ Beaten(heap, Score(d))
\* A document that some list has passed and another has not cannot get in.
NoneMissed(to, heap) ==
    \A t \in Terms : \A d \in Docs(t) : d < to[t] => (\A u \in Terms : d < to[u]) \/ Beaten(heap, Score(d))
\* WAND: the lists are sorted by document; the heap's documents are passed by all.
WandInvariant(to, blk, o, heap) ==
    /\ Listing(to, o)
    /\ \A h \in heap : \A t \in Terms : h.doc < to[t]
    /\ NoneMissed(to, heap) /\ Pointed(to, blk, heap)

\* The heap holds the best k of what some cursor has passed (Exact).
LexicalInvariant ==
    /\ query \in LexicalQueries
    /\ query.algorithm = "exhaustive" => at \in [Terms -> Nat]
    /\ query.algorithm # "exhaustive" => Stands(at) /\ Exact(at, top)
    /\ ~searching /\ ~cut => top = Best(query.k, Scores(Matching))
    /\ searching =>
          /\ query.k > 0 /\ Terms # {}
          /\ query.algorithm = "daat" => DaatInvariant(at)
          /\ query.algorithm = "maxscore" => MaxScoreInvariant(at, block, order, essential, top)
          /\ query.algorithm \in {"wand", "bmw"} => WandInvariant(at, block, order, top)

-----------------------------------------------------------------------------
(* Scores. *)

\* A score is a number, and the terms that have the document come to all of it.
LEMMA ScoreFacts ==
    ASSUME query \in LexicalQueries, NEW d
    PROVE  /\ Score(d) \in Nat
           /\ \A S \in SUBSET Terms :
                 /\ Total(d, S) \in Nat /\ Total(d, S) <= Score(d)
                 /\ (\A t \in Terms \ S : d \notin Docs(t)) => Total(d, S) = Score(d)
<1> DEFINE f == [t \in Terms |-> Adds(t, d)]
<1>1. IsFiniteSet(Terms) /\ \A t \in Terms : f[t] \in Nat /\ (d \notin Docs(t) => f[t] = 0)
  BY QueryFacts, AddsFacts
<1>2. \A S : Total(d, S) = SumFunctionOnSet(f, S)
  BY DEF Total
<1>3. Score(d) = SumFunctionOnSet(f, Terms)
  BY <1>2 DEF Score
<1> HIDE DEF f
<1>4. Score(d) \in Nat
  BY <1>1, <1>3, SumFacts
<1>5. ASSUME NEW S \in SUBSET Terms
      PROVE  /\ Total(d, S) \in Nat /\ Total(d, S) <= Score(d)
             /\ (\A t \in Terms \ S : d \notin Docs(t)) => Total(d, S) = Score(d)
  <2>1. IsFiniteSet(S) /\ \A t \in S : f[t] \in Nat
    BY <1>1, FS_Subset
  <2>2. SumFunctionOnSet(f, S) \in Nat
    BY <2>1, SumFacts
  <2>3. SumFunctionOnSet(f, S) <= SumFunctionOnSet(f, Terms)
    BY <1>1, SumSubset
  <2>4. ASSUME \A t \in Terms \ S : d \notin Docs(t)
        PROVE  SumFunctionOnSet(f, Terms) <= SumFunctionOnSet(f, S)
    <3> DEFINE m == [t \in S |-> t]
    <3>1. \A t \in S : m[t] \in S /\ f[t] <= f[m[t]]
      BY <2>1
    <3>2. \A t, u \in S : m[t] = m[u] => t = u
      OBVIOUS
    <3>3. \A t \in Terms \ S : f[t] = 0
      BY <1>1, <2>4
    <3> HIDE DEF m
    <3>4. QED
      BY <1>1, <2>1, <3>1, <3>2, <3>3, SumInto
  <2>5. QED
    BY <1>2, <1>3, <1>4, <2>2, <2>3, <2>4
<1>6. QED
  BY <1>4, <1>5

\* The matching documents and their hits are finitely many.
LEMMA MatchingFacts ==
    ASSUME query \in LexicalQueries
    PROVE  /\ Matching \in SUBSET Nat /\ IsFiniteSet(Matching)
           /\ \A d \in Matching : d < End
           /\ \A D \in SUBSET Matching : Scores(D) \in SUBSET Hits /\ IsFiniteSet(Scores(D))
<1> DEFINE All == UNION {UNION {DOMAIN c : c \in Range(q.terms)} : q \in LexicalQueries}
<1>1. Matching \in SUBSET All
  <2>1. SUFFICES ASSUME NEW t \in Terms, NEW d \in Docs(t) PROVE d \in All
    BY DEF Matching
  <2>2. query.terms[t] \in Range(query.terms)
    BY DEF Terms, Range
  <2>3. QED
    BY <2>2 DEF Docs
<1>2. IsFiniteSet(All)
  BY LexicalAssumption
<1> HIDE DEF All
<1>3. IsFiniteSet(Matching)
  BY <1>1, <1>2, FS_Subset
<1>4. Matching \in SUBSET Nat /\ \A d \in Matching : d < End
  BY QueryFacts DEF Matching
<1>5. ASSUME NEW D \in SUBSET Matching PROVE Scores(D) \in SUBSET Hits /\ IsFiniteSet(Scores(D))
  <2>1. IsFiniteSet(D)
    BY <1>3, FS_Subset
  <2>2. Scores(D) \in SUBSET Hits
    BY <1>4, ScoreFacts DEF Scores, Hits
  <2> DEFINE g == [d \in D |-> [doc |-> d, score |-> Score(d)]]
  <2>3. Scores(D) = {g[d] : d \in D}
    BY DEF Scores
  <2>4. g \in Surjection(D, Scores(D))
    BY DEF Scores, Surjection
  <2>5. IsFiniteSet(Scores(D))
    <3> HIDE DEF g
    <3> QED BY <2>1, <2>4, FS_Surjection
  <2>6. QED
    BY <2>2, <2>5
<1>6. QED
  BY <1>3, <1>4, <1>5

LEMMA ScoresOfUnion ==
    /\ \A D, E : Scores(D \cup E) = Scores(D) \cup Scores(E)
    /\ \A d : Scores({d}) = {[doc |-> d, score |-> Score(d)]}
    /\ \A D : \A h \in Scores(D) : h.doc \in D /\ h.score = Score(h.doc)
BY DEF Scores

-----------------------------------------------------------------------------
(* Steps of the heap. *)

\* Documents of no interest are passed.
LEMMA PassWorthless ==
    ASSUME query \in LexicalQueries, query.k > 0, NEW P \in SUBSET Matching, NEW P2 \in SUBSET Matching,
           P \subseteq P2, NEW heap, heap = Best(query.k, Scores(P)),
           \A d \in P2 \ P : Beaten(heap, Score(d)) /\ \A h \in heap : h.doc < d
    PROVE  heap = Best(query.k, Scores(P2))
<1> DEFINE A == Scores(P)
           C == Scores(P2)
<1>1. A \in SUBSET Hits /\ IsFiniteSet(A) /\ C \in SUBSET Hits /\ IsFiniteSet(C)
  BY MatchingFacts
<1>2. query.k \in Nat \ {0}
  BY QueryFacts
<1>3. A \cup C = C
  BY DEF Scores
<1>4. \A c \in C : c \in A \/ (Beaten(heap, c.score) /\ \A h \in heap : h.doc < c.doc)
  BY DEF Scores
<1> HIDE DEF A, C
<1>5. Best(query.k, A \cup C) = Best(query.k, A)
  <2>1. heap = Best(query.k, A)
    BY DEF A
  <2>2. QED
    BY ONLY <1>1, <1>2, <1>4, <2>1, BestStays
<1>6. QED
  BY <1>3, <1>5 DEF A, C

\* And then one is scored.
LEMMA PassScored ==
    ASSUME query \in LexicalQueries, query.k > 0, NEW P \in SUBSET Matching, NEW P2 \in SUBSET Matching,
           NEW d \in Matching, d \notin P, P \cup {d} \subseteq P2, NEW heap, heap = Best(query.k, Scores(P)),
           \A e \in P2 \ (P \cup {d}) : Beaten(heap, Score(e)) /\ \A h \in heap : h.doc < e
    PROVE  push(heap, [doc |-> d, score |-> Score(d)]) = Best(query.k, Scores(P2))
<1> DEFINE Q == P2 \ {d}
           h == [doc |-> d, score |-> Score(d)]
<1>1. heap = Best(query.k, Scores(Q))
  <2>1. Q \in SUBSET Matching /\ P \subseteq Q /\ Q \ P = P2 \ (P \cup {d})
    OBVIOUS
  <2> HIDE DEF Q
  <2>2. QED
    BY <2>1, PassWorthless
<1>2. Scores(Q) \in SUBSET Hits /\ IsFiniteSet(Scores(Q)) /\ query.k \in Nat \ {0}
  BY MatchingFacts, QueryFacts
<1>3. h \in Hits /\ h \notin Scores(Q)
  <2>1. d \in Nat /\ Score(d) \in Nat
    BY MatchingFacts, ScoreFacts
  <2>2. \A i \in Scores(Q) : i.doc \in Q
    BY ScoresOfUnion
  <2>3. QED
    BY <2>1, <2>2 DEF Hits
<1>4. Scores(P2) = Scores(Q) \cup {h}
  <2>1. P2 = Q \cup {d}
    OBVIOUS
  <2>2. Scores({d}) = {h}
    BY ONLY ScoresOfUnion
  <2> HIDE DEF Q, h
  <2>3. Scores(Q \cup {d}) = Scores(Q) \cup Scores({d})
    BY ONLY ScoresOfUnion
  <2>4. QED
    BY ONLY <2>1, <2>2, <2>3
<1> HIDE DEF Q, h
<1>5. push(heap, h) = Best(query.k, Scores(Q) \cup {h})
  BY <1>1, <1>2, <1>3, PushIsBest
<1>6. QED
  BY <1>4, <1>5 DEF h

\* The heap is of scored documents, and only gets harder to beat.
LEMMA HeapFacts ==
    ASSUME query \in LexicalQueries, query.k > 0, NEW P \in SUBSET Matching, NEW heap, heap = Best(query.k, Scores(P))
    PROVE  /\ heap \in SUBSET Scores(P) /\ heap \in SUBSET Hits /\ IsFiniteSet(heap)
           /\ \A h \in heap : h.doc \in P
           /\ Full(heap) => heap # {} /\ Worst(heap) \in heap
           /\ \A d \in Nat \ P, n \in Nat, sum \in Nat :
                 Beaten(heap, sum) => Beaten(push(heap, [doc |-> d, score |-> n]), sum)
           /\ \A hit : push(heap, hit) \in SUBSET (heap \cup {hit})
           /\ \A a, b \in Nat : a <= b /\ Beaten(heap, b) => Beaten(heap, a)
<1>1. Scores(P) \in SUBSET Hits /\ IsFiniteSet(Scores(P)) /\ query.k \in Nat \ {0}
  BY MatchingFacts, QueryFacts
<1>2. heap \in SUBSET Scores(P) /\ heap \in SUBSET Hits /\ IsFiniteSet(heap) /\ Cardinality(heap) \in Nat
  BY <1>1, BestFacts
<1>3. \A h \in heap : h.doc \in P
  BY <1>2, ScoresOfUnion
<1>4. Full(heap) => heap # {} /\ Worst(heap) \in heap
  <2>1. SUFFICES ASSUME Full(heap) PROVE heap # {} /\ Worst(heap) \in heap
    OBVIOUS
  <2>2. Cardinality(heap) # 0
    BY <1>1, <1>2, <2>1 DEF Full
  <2>3. heap # {}
    BY <2>2, FS_EmptySet
  <2>4. QED
    BY <1>2, <2>3, WorstFacts
<1>5. ASSUME NEW d \in Nat \ P, NEW n \in Nat, NEW sum \in Nat, Beaten(heap, sum)
      PROVE  Beaten(push(heap, [doc |-> d, score |-> n]), sum)
  <2> DEFINE h == [doc |-> d, score |-> n]
  <2>1. h \in Hits /\ h \notin heap
    BY <1>3 DEF Hits
  <2> HIDE DEF h
  <2>2. Beaten(push(heap, h), sum)
    BY <1>1, <1>2, <1>5, <2>1, PushRaises
  <2>3. QED
    BY <2>2 DEF h
<1>6. \A hit : push(heap, hit) \in SUBSET (heap \cup {hit})
  BY DEF push
<1>7. ASSUME NEW a \in Nat, NEW b \in Nat, a <= b, Beaten(heap, b) PROVE Beaten(heap, a)
  <2>1. Worst(heap) \in heap /\ Full(heap) /\ b <= Worst(heap).score
    BY <1>4, <1>7 DEF Beaten
  <2>2. Worst(heap).score \in Nat
    BY <1>2, <2>1, HitOrder
  <2>3. QED
    BY <1>7, <2>1, <2>2 DEF Beaten
<1>8. QED
  BY <1>2, <1>3, <1>4, <1>5, <1>6, <1>7

\* While the query stays, the invariants only speak of the next state.
LEMMA QueryKept ==
    ASSUME query' = query
    PROVE  /\ Terms' = Terms /\ Matching' = Matching /\ Scores(Matching)' = Scores(Matching)
           /\ Stands(at)' = Stands(at') /\ Exact(at, top)' = Exact(at', top')
           /\ DaatInvariant(at)' = DaatInvariant(at')
           /\ MaxScoreInvariant(at, block, order, essential, top)' = MaxScoreInvariant(at', block', order', essential', top')
           /\ WandInvariant(at, block, order, top)' = WandInvariant(at', block', order', top')
BY DEF Terms, Matching, Scores, Score, Total, Adds, Docs, Stands, Exact, PassedBy, DaatInvariant, MaxScoreInvariant,
       WandInvariant, Listing, Bound, Beaten, Full, Worst, Number, Blk, NoneMissed, Pointed

-----------------------------------------------------------------------------
(* Blocks and cursors. *)

\* Division into blocks keeps the order.
LEMMA Quotients ==
    ASSUME NEW s \in Nat \ {0}, NEW a \in Nat, NEW b \in Nat
    PROVE  /\ a \div s \in Nat
           /\ a <= b => a \div s <= b \div s
           /\ b * s \in Nat /\ (b * s) \div s = b
           /\ b <= a \div s => b * s <= a
<1>1. a \div s \in Nat
  OBVIOUS
<1>2. a = s * (a \div s) + (a % s) /\ a % s \in 0 .. s - 1
  OBVIOUS
<1>3. a <= b => a \div s <= b \div s
  OBVIOUS
<1>4. b * s \in Nat /\ (b * s) \div s = b
  OBVIOUS
<1>5. b <= a \div s => b * s <= a
  OBVIOUS
<1>6. QED
  BY <1>1, <1>3, <1>4, <1>5

\* A later document has a later number and block, and a document's block has no gap before it.
LEMMA NumberFacts ==
    ASSUME query \in LexicalQueries, NEW t \in Terms
    PROVE  /\ \A d \in Nat : Number(t, d) \in Nat /\ Number(t, d) <= Cardinality(Docs(t)) /\ Blk(t, d) \in Nat
           /\ \A d, e \in Nat : d <= e => Number(t, d) <= Number(t, e) /\ Blk(t, d) <= Blk(t, e)
           /\ \A d \in Docs(t), b \in Nat : b <= Blk(t, d) => BlockDocs(t, b) # {}
<1> DEFINE S == Docs(t)
           R == {p \in S \X S : p[1] < p[2]}
           n == Cardinality(S)
<1>1. S \in SUBSET Nat /\ IsFiniteSet(S) /\ BlockSize \in Nat \ {0}
  BY QueryFacts
<1>2. n \in Nat
  BY <1>1, FS_CardinalityType
<1> DEFINE L(d) == {e \in S : e < d}
<1>3. \A d : L(d) \in SUBSET S /\ Number(t, d) = Cardinality(L(d))
  BY DEF Number
<1>4. \A d, e \in Nat : d <= e => L(d) \in SUBSET L(e)
  BY <1>1
<1> HIDE DEF L
<1>5. \A d : /\ IsFiniteSet(L(d)) /\ Number(t, d) \in Nat /\ Number(t, d) <= n
  <2>1. SUFFICES ASSUME NEW d PROVE IsFiniteSet(L(d)) /\ Number(t, d) \in Nat /\ Number(t, d) <= n
    OBVIOUS
  <2>2. L(d) \in SUBSET S
    BY <1>3
  <2> HIDE DEF S
  <2>3. QED
    BY <1>1, <1>3, <2>2, FS_Subset, FS_CardinalityType
<1>10. ASSUME NEW d \in Nat, NEW e \in Nat, d <= e PROVE Number(t, d) <= Number(t, e)
  BY <1>3, <1>4, <1>5, <1>10, FS_Subset
<1>6. \A d \in Nat : Blk(t, d) \in Nat
  BY <1>1, <1>5, Quotients DEF Blk
<1>7. \A d, e \in Nat : d <= e => Blk(t, d) <= Blk(t, e)
  BY <1>1, <1>5, <1>10, Quotients DEF Blk
<1>8. ASSUME NEW d \in S, NEW b \in Nat, b <= Blk(t, d) PROVE BlockDocs(t, b) # {}
  <2>1. \A x, y \in S : <<x, y>> \in R <=> x < y
    OBVIOUS
  <2>2. TotalOrder(S, R)
    <3> HIDE DEF R, S
    <3> QED BY <1>1, <2>1 DEF TotalOrder
  <2>3. \A x \in S : AheadIn(S, R, x) = L(x)
    <3> HIDE DEF R, S
    <3> QED BY <2>1 DEF AheadIn, L
  <2> HIDE DEF R, S, n
  <2>4. \A x \in S : RankIn(S, R, x) = Number(t, x)
    BY <1>3, <2>3 DEF RankIn
  <2>5. /\ \A x \in S : RankIn(S, R, x) \in Nat /\ RankIn(S, R, x) < Cardinality(S)
        /\ \A i \in 0 .. Cardinality(S) - 1 : \E x \in S : RankIn(S, R, x) = i
    BY ONLY <1>1, <2>2, Ranks, Zenon
  <2>6. Number(t, d) \in 0 .. n - 1
    BY <1>2, <1>5, <1>8, <2>4, <2>5 DEF n
  <2>7. b * BlockSize \in Nat /\ (b * BlockSize) \div BlockSize = b /\ b * BlockSize <= Number(t, d)
    BY <1>1, <1>5, <1>8, Quotients DEF Blk
  <2>8. PICK m \in Nat : m = b * BlockSize
    BY <2>7
  <2>9. m \in 0 .. n - 1
    BY <1>2, <2>6, <2>7, <2>8
  <2>10. PICK x \in S : RankIn(S, R, x) = m
    BY <2>5, <2>9 DEF n
  <2>11. Number(t, x) \div BlockSize = b
    BY <2>4, <2>7, <2>8, <2>10
  <2>12. QED
    BY <2>11 DEF BlockDocs, S
<1>9. QED
  BY <1>5, <1>6, <1>7, <1>8, <1>10

\* A block's bound is at least what its documents add.
LEMMA BlockFacts ==
    ASSUME query \in LexicalQueries, NEW t \in Terms, NEW b \in Nat
    PROVE  /\ BlockBound(t, b) \in Nat
           /\ \A d \in BlockDocs(t, b) : Adds(t, d) <= BlockBound(t, b)
           /\ BlockDocs(t, b) # {} => BlockLast(t, b) \in BlockDocs(t, b)
           /\ BlockLast(t, b) \in Int
<1> DEFINE S == BlockDocs(t, b)
           values == {query.terms[t][d] : d \in S}
<1>1. S \in SUBSET Docs(t)
  BY DEF BlockDocs
<1>2. /\ Docs(t) \in SUBSET Nat /\ IsFiniteSet(Docs(t)) /\ query.slack \in Nat /\ End \in Nat
      /\ \A d \in Docs(t) : query.terms[t][d] \in Nat
  BY QueryFacts
<1>3. IsFiniteSet(S)
  BY <1>1, <1>2, FS_Subset
<1>4. S # {} => BlockLast(t, b) \in S
  BY <1>1, <1>2, <1>3, FiniteMax DEF BlockLast
<1>5. BlockLast(t, b) \in Int
  BY <1>1, <1>2, <1>4 DEF BlockLast
<1>6. CASE S = {}
  BY <1>4, <1>5, <1>6 DEF BlockBound
<1>7. CASE S # {}
  <2>1. values \in SUBSET Nat /\ values # {}
    BY <1>1, <1>2, <1>7
  <2>2. IsFiniteSet(values)
    <3> DEFINE g == [d \in S |-> query.terms[t][d]]
    <3>1. g \in Surjection(S, values)
      BY DEF Surjection
    <3> HIDE DEF g, S, values
    <3>2. QED
      BY <1>3, <3>1, FS_Surjection
  <2>3. Max(values) \in values /\ \A v \in values : v <= Max(values)
    <3> HIDE DEF values
    <3> QED BY <2>1, <2>2, FiniteMax
  <2>4. BlockBound(t, b) = Max(values) + query.slack
    BY <1>7 DEF BlockBound
  <2>5. \A d \in S : query.terms[t][d] \in values /\ Adds(t, d) = query.terms[t][d]
    BY <1>1 DEF Adds
  <2> HIDE DEF values, S
  <2>6. PICK m \in Nat : m = Max(values)
    BY <2>1, <2>3
  <2>7. BlockBound(t, b) \in Nat
    BY <1>2, <2>4, <2>6
  <2>8. \A d \in S : Adds(t, d) <= BlockBound(t, b)
    <3>1. SUFFICES ASSUME NEW d \in S PROVE Adds(t, d) <= BlockBound(t, b)
      OBVIOUS
    <3>2. Adds(t, d) \in values
      BY <2>5
    <3>3. PICK v \in Nat : v = Adds(t, d)
      BY <2>1, <3>2
    <3>4. v <= m
      BY <2>3, <2>6, <3>2, <3>3
    <3>5. QED
      BY <1>2, <2>4, <2>6, <3>3, <3>4
  <2>9. QED
    BY <1>4, <1>5, <2>7, <2>8 DEF S
<1>8. QED
  BY <1>6, <1>7

\* A document that neither starts a later block than b, nor stands behind the
\* last one of block b, is in block b.
LEMMA InBlock ==
    ASSUME query \in LexicalQueries, NEW t \in Terms, NEW b \in Nat, NEW d \in Docs(t), b <= Blk(t, d),
           d < 1 + BlockLast(t, b) \/ Blk(t, d) <= b
    PROVE  Adds(t, d) <= BlockBound(t, b)
<1>1. BlockDocs(t, b) # {}
  BY NumberFacts
<1>2. BlockLast(t, b) \in BlockDocs(t, b)
  BY <1>1, BlockFacts
<1>3. PICK l \in Docs(t) : l = BlockLast(t, b) /\ Blk(t, l) = b
  BY <1>2 DEF BlockDocs, Blk
<1>4. d \in Nat /\ l \in Nat
  BY QueryFacts
<1>5. Blk(t, d) \in Nat
  BY <1>4, NumberFacts
<1>6. Blk(t, d) <= b
  <2>1. CASE Blk(t, d) <= b
    BY <2>1
  <2>2. CASE d < 1 + BlockLast(t, b)
    <3>1. d <= l
      BY <1>3, <1>4, <2>2
    <3>2. QED
      BY <1>3, <1>4, <3>1, NumberFacts
  <2>3. QED
    BY <2>1, <2>2
<1>7. Blk(t, d) = b
  BY <1>5, <1>6
<1>8. d \in BlockDocs(t, b)
  BY <1>7 DEF BlockDocs, Blk
<1>9. QED
  BY <1>8, BlockFacts

\* The search from a block on finds the next document, unless it lies before that block.
LEMMA GeqFacts ==
    ASSUME query \in LexicalQueries, NEW t \in Terms, NEW d \in Nat, NEW from \in Nat
    PROVE  LET g == Geq(t, d, from)
           IN  /\ g \in Docs(t) \cup {End} /\ g \in Nat
               /\ g # End => g >= d
               /\ d <= End => g >= d
               /\ \A e \in Docs(t) : d <= e /\ e < g => Blk(t, e) < from
<1> DEFINE S == {e \in Docs(t) : e >= d /\ Number(t, e) \div BlockSize >= from}
           g == Geq(t, d, from)
<1>1. Docs(t) \in SUBSET Nat /\ End \in Nat
  BY QueryFacts
<1>2. {End} \cup S \in SUBSET Nat /\ {End} \cup S # {}
  BY <1>1
<1>3. g = Min({End} \cup S)
  BY DEF Geq
<1>4. g \in {End} \cup S /\ \A e \in {End} \cup S : g <= e
  <2> HIDE DEF S, g
  <2> QED BY <1>2, <1>3, MinFacts
<1>5. ASSUME NEW e \in Docs(t), d <= e, e < g PROVE Blk(t, e) < from
  <2>1. e \notin S
    BY <1>1, <1>2, <1>4, <1>5
  <2>2. ~(Number(t, e) \div BlockSize >= from)
    BY <1>1, <1>5, <2>1
  <2>3. Blk(t, e) \in Nat
    BY <1>1, NumberFacts
  <2>4. QED
    BY <2>2, <2>3 DEF Blk
<1>6. QED
  BY <1>1, <1>2, <1>4, <1>5

-----------------------------------------------------------------------------
(* Bounds. *)

\* m takes the numbers f that are not zero to numbers g that are no smaller.
Embeds(S, f, J, g, W, m) ==
    /\ IsFiniteSet(S) /\ \A x \in S : f[x] \in Nat
    /\ IsFiniteSet(J) /\ \A j \in J : g[j] \in Nat
    /\ W \in SUBSET S /\ \A x \in S \ W : f[x] = 0
    /\ \A x \in W : m[x] \in J /\ f[x] <= g[m[x]]
    /\ \A x, y \in W : m[x] = m[y] => x = y

\* Such numbers come to no more (SumInto).
LEMMA SumEmbeds ==
    ASSUME NEW S, NEW f, NEW J, NEW g, NEW W, NEW m, Embeds(S, f, J, g, W, m)
    PROVE  SumFunctionOnSet(f, S) <= SumFunctionOnSet(g, J)
<1>1. /\ IsFiniteSet(S) /\ \A x \in S : f[x] \in Nat
      /\ IsFiniteSet(J) /\ \A j \in J : g[j] \in Nat
      /\ W \in SUBSET S /\ \A x \in S \ W : f[x] = 0
      /\ \A x \in W : m[x] \in J /\ f[x] <= g[m[x]]
      /\ \A x, y \in W : m[x] = m[y] => x = y
  BY DEF Embeds
<1>2. QED
  BY <1>1, SumInto, SMT

\* A list is in one place of the order.
LEMMA PlaceFacts ==
    ASSUME query \in LexicalQueries, NEW to, Listing(to, order)
    PROVE  /\ DOMAIN order = 1 .. Len(query.terms) /\ Len(order) = Len(query.terms)
           /\ \A t \in Terms : Place(t) \in 1 .. Len(query.terms) /\ order[Place(t)] = t
           /\ \A i \in 1 .. Len(query.terms) : order[i] \in Terms /\ Place(order[i]) = i
           /\ \A t, u \in Terms : Place(t) = Place(u) => t = u
           /\ \A i, j \in 1 .. Len(query.terms) : i <= j => to[order[i]] = to[order[j]] \/ to[order[i]] <= to[order[j]]
<1>1. \A t \in Terms : Place(t) \in DOMAIN order /\ order[Place(t)] = t
  BY DEF Listing, Place
<1>2. \A i \in DOMAIN order : order[i] \in Terms
  BY DEF Listing
<1>3. \A i \in DOMAIN order : Place(order[i]) = i
  BY <1>1, <1>2 DEF Listing
<1>4. \A i, j \in 1 .. Len(query.terms) : i <= j => i = j \/ i < j
  BY QueryFacts
<1>5. QED
  BY <1>1, <1>2, <1>3, <1>4 DEF Listing

\* The bounds of the first i lists bound the score of a document that is only in those.
LEMMA PrefixFacts ==
    ASSUME query \in LexicalQueries, NEW to, Listing(to, order), NEW i \in 0 .. Len(query.terms)
    PROVE  /\ Prefix(i) \in Nat
           /\ \A d : (\A t \in Terms : d \in Docs(t) => Place(t) <= i) => Score(d) <= Prefix(i)
<1> DEFINE g == [j \in DOMAIN order |-> Bound(order[j])]
<1>1. Prefix(i) = SumFunctionOnSet(g, 1 .. i)
  BY DEF Prefix
<1>2. /\ Len(query.terms) \in Nat /\ Terms = 1 .. Len(query.terms) /\ IsFiniteSet(Terms)
  BY QueryFacts
<1>3. /\ DOMAIN order = 1 .. Len(query.terms)
      /\ \A t \in Terms : Place(t) \in 1 .. Len(query.terms) /\ order[Place(t)] = t
      /\ \A j \in 1 .. Len(query.terms) : order[j] \in Terms /\ Place(order[j]) = j
      /\ \A t, u \in Terms : Place(t) = Place(u) => t = u
  BY PlaceFacts
<1> DEFINE J == 1 .. i
<1>4. IsFiniteSet(J) /\ J \in SUBSET (1 .. Len(query.terms))
  BY <1>2, UpToFinite
<1>5. \A j \in J : g[j] \in Nat
  BY <1>2, <1>3, AddsFacts
<1>6. \A t \in Terms : g[Place(t)] = Bound(t)
  BY <1>3
<1> HIDE DEF g
<1>7. Prefix(i) \in Nat
  BY <1>1, <1>4, <1>5, SumFacts
<1>8. ASSUME NEW d, \A t \in Terms : d \in Docs(t) => Place(t) <= i PROVE Score(d) <= Prefix(i)
  <2> DEFINE f == [t \in Terms |-> Adds(t, d)]
             W == {t \in Terms : d \in Docs(t)}
             m == [t \in Terms |-> Place(t)]
  <2>1. Score(d) = SumFunctionOnSet(f, Terms)
    BY DEF Score, Total
  <2>2. \A t \in Terms : f[t] \in Nat
    BY AddsFacts
  <2>3. W \in SUBSET Terms /\ \A t \in Terms \ W : f[t] = 0
    BY AddsFacts
  <2>4. \A t \in W : m[t] \in J /\ f[t] <= g[m[t]]
    <3>1. SUFFICES ASSUME NEW t \in W PROVE m[t] \in J /\ f[t] <= g[m[t]]
      OBVIOUS
    <3>2. Place(t) \in J
      BY <1>2, <1>3, <1>8
    <3>3. f[t] = Adds(t, d) /\ m[t] = Place(t) /\ t \in Terms
      OBVIOUS
    <3> HIDE DEF f, m, W
    <3>4. Adds(t, d) <= Bound(t)
      BY <3>3, AddsFacts
    <3>5. QED
      BY <1>6, <3>2, <3>3, <3>4
  <2>5. \A t, u \in W : m[t] = m[u] => t = u
    BY <1>3
  <2> HIDE DEF f, W, m
  <2>6. SumFunctionOnSet(f, Terms) <= SumFunctionOnSet(g, J)
    <3>1. IsFiniteSet(Terms) /\ IsFiniteSet(J)
      BY <1>2, <1>4
    <3>2. W \in SUBSET Terms
      BY <2>3
    <3> HIDE DEF J
    <3>3. Embeds(Terms, f, J, g, W, m)
      BY ONLY <1>5, <2>2, <2>3, <2>4, <2>5, <3>1, <3>2 DEF Embeds
    <3>4. QED
      BY ONLY <3>3, SumEmbeds
  <2>7. QED
    BY <1>1, <2>1, <2>6
<1>9. QED
  BY <1>7, <1>8

\* The bounds of their blocks do, for a document that lies in these.
LEMMA BlockSumFacts ==
    ASSUME query \in LexicalQueries, NEW at1, Listing(at1, order), NEW p \in 1 .. Len(query.terms),
           NEW to \in [Terms -> Nat]
    PROVE  /\ BlockSum(p, to) \in Nat
           /\ \A d : (\A t \in Terms : d \in Docs(t) => Place(t) <= p /\ Adds(t, d) <= BlockBound(t, to[t]))
                     => Score(d) <= BlockSum(p, to)
<1> DEFINE g == [j \in DOMAIN order |-> BlockBound(order[j], to[order[j]])]
<1>1. BlockSum(p, to) = SumFunctionOnSet(g, 1 .. p)
  BY DEF BlockSum
<1>2. /\ Len(query.terms) \in Nat /\ Terms = 1 .. Len(query.terms) /\ IsFiniteSet(Terms)
  BY QueryFacts
<1>3. /\ DOMAIN order = 1 .. Len(query.terms)
      /\ \A t \in Terms : Place(t) \in 1 .. Len(query.terms) /\ order[Place(t)] = t
      /\ \A j \in 1 .. Len(query.terms) : order[j] \in Terms /\ Place(order[j]) = j
      /\ \A t, u \in Terms : Place(t) = Place(u) => t = u
  BY PlaceFacts
<1> DEFINE J == 1 .. p
<1>4. IsFiniteSet(J) /\ J \in SUBSET (1 .. Len(query.terms))
  BY <1>2, UpToFinite
<1>5. \A j \in J : g[j] \in Nat
  <2>1. SUFFICES ASSUME NEW j \in J PROVE g[j] \in Nat
    OBVIOUS
  <2>2. j \in 1 .. Len(query.terms)
    BY <1>4
  <2>3. order[j] \in Terms
    BY <1>3, <2>2
  <2>4. to[order[j]] \in Nat
    BY <2>3
  <2>5. BlockBound(order[j], to[order[j]]) \in Nat
    BY <2>3, <2>4, BlockFacts
  <2>6. QED
    BY <1>3, <2>2, <2>5
<1>6. \A t \in Terms : g[Place(t)] = BlockBound(t, to[t])
  BY <1>3
<1> HIDE DEF g
<1>7. BlockSum(p, to) \in Nat
  BY <1>1, <1>4, <1>5, SumFacts
<1>8. ASSUME NEW d, \A t \in Terms : d \in Docs(t) => Place(t) <= p /\ Adds(t, d) <= BlockBound(t, to[t])
      PROVE  Score(d) <= BlockSum(p, to)
  <2> DEFINE f == [t \in Terms |-> Adds(t, d)]
             W == {t \in Terms : d \in Docs(t)}
             m == [t \in Terms |-> Place(t)]
  <2>1. Score(d) = SumFunctionOnSet(f, Terms)
    BY DEF Score, Total
  <2>2. \A t \in Terms : f[t] \in Nat
    BY AddsFacts
  <2>3. W \in SUBSET Terms /\ \A t \in Terms \ W : f[t] = 0
    BY AddsFacts
  <2>4. \A t \in W : m[t] \in J /\ f[t] <= g[m[t]]
    <3>1. SUFFICES ASSUME NEW t \in W PROVE m[t] \in J /\ f[t] <= g[m[t]]
      OBVIOUS
    <3>2. Place(t) \in J
      BY <1>2, <1>3, <1>8
    <3>3. f[t] = Adds(t, d) /\ m[t] = Place(t) /\ t \in Terms
      OBVIOUS
    <3> HIDE DEF f, m, W
    <3>4. Adds(t, d) <= BlockBound(t, to[t])
      <4>1. d \notin Docs(t) => Adds(t, d) = 0 /\ BlockBound(t, to[t]) \in Nat
        BY <3>3, AddsFacts, BlockFacts
      <4>2. QED
        BY <1>8, <3>3, <4>1
    <3>5. QED
      BY <1>6, <3>2, <3>3, <3>4
  <2>5. \A t, u \in W : m[t] = m[u] => t = u
    BY <1>3
  <2> HIDE DEF f, W, m
  <2>6. SumFunctionOnSet(f, Terms) <= SumFunctionOnSet(g, J)
    <3>1. IsFiniteSet(Terms) /\ IsFiniteSet(J)
      BY <1>2, <1>4
    <3>2. W \in SUBSET Terms
      BY <2>3
    <3> HIDE DEF J
    <3>3. Embeds(Terms, f, J, g, W, m)
      BY ONLY <1>5, <2>2, <2>3, <2>4, <2>5, <3>1, <3>2 DEF Embeds
    <3>4. QED
      BY ONLY <3>3, SumEmbeds
  <2>7. QED
    BY <1>1, <2>1, <2>6
<1>9. QED
  BY <1>7, <1>8

\* Where next_geq finds a document in every list that has it.
LEMMA AboveFacts ==
    ASSUME query \in LexicalQueries, NEW to, Listing(to, order), NEW d \in Nat,
           \A t \in Terms : d \in Docs(t) => next_geq(t, d) = d
    PROVE  /\ Above(0, d) = Score(d)
           /\ \A i \in 1 .. Len(query.terms) : Above(i, d) \in Nat /\ Score(d) <= Above(i, d) + Prefix(i)
<1> DEFINE n == Len(query.terms)
           f == [j \in DOMAIN order |-> IF next_geq(order[j], d) = d THEN Adds(order[j], d) ELSE 0]
           g == [j \in DOMAIN order |-> Bound(order[j])]
           s == [t \in Terms |-> Adds(t, d)]
<1>1. n \in Nat /\ Terms = 1 .. n /\ IsFiniteSet(Terms)
  BY QueryFacts
<1>2. /\ DOMAIN order = 1 .. n /\ Len(order) = n
      /\ \A t \in Terms : Place(t) \in 1 .. n /\ order[Place(t)] = t
      /\ \A j \in 1 .. n : order[j] \in Terms /\ Place(order[j]) = j
      /\ \A t, u \in Terms : Place(t) = Place(u) => t = u
  BY PlaceFacts
<1>3. \A i : Above(i, d) = SumFunctionOnSet(f, i + 1 .. n)
  BY <1>2 DEF Above
<1>4. \A j \in 1 .. n : /\ f[j] = Adds(order[j], d) /\ f[j] \in Nat
                        /\ g[j] = Bound(order[j]) /\ g[j] \in Nat /\ f[j] <= g[j]
  <2>1. SUFFICES ASSUME NEW j \in 1 .. n
                 PROVE  /\ f[j] = Adds(order[j], d) /\ f[j] \in Nat
                        /\ g[j] = Bound(order[j]) /\ g[j] \in Nat /\ f[j] <= g[j]
    OBVIOUS
  <2>2. PICK t \in Terms : t = order[j]
    BY <1>2
  <2>3. f[j] = (IF next_geq(t, d) = d THEN Adds(t, d) ELSE 0) /\ g[j] = Bound(t)
    BY <1>2, <2>2
  <2>4. /\ Bound(t) \in Nat /\ Adds(t, d) \in Nat /\ Adds(t, d) <= Bound(t)
        /\ d \notin Docs(t) => Adds(t, d) = 0
    BY AddsFacts
  <2> HIDE DEF f, g
  <2>5. f[j] = Adds(t, d)
    BY <2>3, <2>4
  <2>6. QED
    BY <2>2, <2>3, <2>4, <2>5
<1>5. Score(d) = SumFunctionOnSet(s, Terms)
  BY DEF Score, Total
<1>6. \A t \in Terms : s[t] = Adds(t, d) /\ s[t] \in Nat
  BY AddsFacts
<1>7. \A i : Prefix(i) = SumFunctionOnSet(g, 1 .. i)
  BY DEF Prefix
<1> HIDE DEF f, g, s, n
<1> DEFINE K == 1 .. n
<1>8. IsFiniteSet(K)
  BY <1>1
<1>9. SumFunctionOnSet(s, Terms) <= SumFunctionOnSet(f, K)
  <2> DEFINE m == [t \in Terms |-> Place(t)]
  <2>1. \A t \in Terms : m[t] \in K /\ s[t] <= f[m[t]]
    <3>1. SUFFICES ASSUME NEW t \in Terms PROVE m[t] \in K /\ s[t] <= f[m[t]]
      OBVIOUS
    <3>2. m[t] = Place(t) /\ Place(t) \in 1 .. n /\ order[Place(t)] = t
      BY <1>2
    <3>3. f[Place(t)] = Adds(t, d) /\ s[t] = Adds(t, d) /\ Adds(t, d) \in Nat
      BY <1>4, <1>6, <3>2
    <3>4. QED
      BY <3>2, <3>3
  <2>2. \A t, u \in Terms : m[t] = m[u] => t = u
    BY <1>2
  <2>3. \A j \in K : f[j] \in Nat
    BY <1>4
  <2>4. Terms \in SUBSET Terms /\ (\A t \in Terms \ Terms : s[t] = 0) /\ IsFiniteSet(Terms)
    BY <1>1
  <2> HIDE DEF m, K
  <2>5. Embeds(Terms, s, K, f, Terms, m)
    BY ONLY <1>6, <1>8, <2>1, <2>2, <2>3, <2>4 DEF Embeds
  <2>6. QED
    BY ONLY <2>5, SumEmbeds
<1>10. SumFunctionOnSet(f, K) <= SumFunctionOnSet(s, Terms)
  <2> DEFINE m == [j \in K |-> order[j]]
  <2>1. \A j \in K : m[j] \in Terms /\ f[j] <= s[m[j]]
    <3>1. SUFFICES ASSUME NEW j \in 1 .. n PROVE m[j] \in Terms /\ f[j] <= s[m[j]]
      OBVIOUS
    <3>2. m[j] = order[j] /\ order[j] \in Terms
      BY <1>2
    <3>3. f[j] = Adds(order[j], d) /\ s[order[j]] = Adds(order[j], d) /\ Adds(order[j], d) \in Nat
      BY <1>4, <1>6, <3>2
    <3>4. QED
      BY <3>2, <3>3
  <2>2. \A j, l \in K : m[j] = m[l] => j = l
    BY <1>2
  <2>3. \A j \in K : f[j] \in Nat
    BY <1>4
  <2>4. K \in SUBSET K /\ (\A j \in K \ K : f[j] = 0) /\ IsFiniteSet(Terms)
    BY <1>1
  <2> HIDE DEF m, K
  <2>5. Embeds(K, f, Terms, s, K, m)
    BY ONLY <1>6, <1>8, <2>1, <2>2, <2>3, <2>4 DEF Embeds
  <2>6. QED
    BY ONLY <2>5, SumEmbeds
<1>11. SumFunctionOnSet(s, Terms) \in Nat /\ SumFunctionOnSet(f, K) \in Nat
  <2>1. \A j \in K : f[j] \in Nat
    BY <1>4
  <2> HIDE DEF K
  <2>2. QED
    BY <1>1, <1>6, <1>8, <2>1, SumFacts
<1>12. Above(0, d) = Score(d)
  <2>1. Above(0, d) = SumFunctionOnSet(f, K)
    BY <1>3
  <2>2. QED
    BY <1>5, <1>9, <1>10, <1>11, <2>1
<1>13. ASSUME NEW i \in 1 .. n PROVE Above(i, d) \in Nat /\ Score(d) <= Above(i, d) + Prefix(i)
  <2> DEFINE I == 1 .. i
             J == i + 1 .. n
  <2>1. I \in SUBSET K /\ J \in SUBSET K /\ I \cap J = {} /\ I \cup J = K
    BY <1>1
  <2>2. \A j \in K : f[j] \in Nat /\ g[j] \in Nat /\ f[j] <= g[j]
    BY <1>4
  <2>3. Above(i, d) = SumFunctionOnSet(f, J) /\ Prefix(i) = SumFunctionOnSet(g, I)
    BY <1>3, <1>7
  <2> HIDE DEF I, J, K
  <2>4. SumFunctionOnSet(f, K) = SumFunctionOnSet(f, I) + SumFunctionOnSet(f, J)
    <3>1. SumFunctionOnSet(f, I \cup J) = SumFunctionOnSet(f, I) + SumFunctionOnSet(f, J)
      BY ONLY <1>8, <2>1, <2>2, SumOfUnion
    <3>2. QED
      BY <2>1, <3>1
  <2>5. IsFiniteSet(I) /\ IsFiniteSet(J)
    BY <1>8, <2>1, FS_Subset
  <2>6. \A j \in I : f[j] \in Nat /\ g[j] \in Nat /\ f[j] <= g[j]
    BY <2>1, <2>2
  <2>7. SumFunctionOnSet(f, I) <= SumFunctionOnSet(g, I)
    <3> DEFINE m == [j \in I |-> j]
    <3>1. \A j \in I : m[j] \in I /\ f[j] <= g[m[j]]
      BY <2>6
    <3>2. \A j, l \in I : m[j] = m[l] => j = l
      OBVIOUS
    <3> HIDE DEF m
    <3>3. QED
      BY ONLY <2>5, <2>6, <3>1, <3>2, SumInto
  <2>8. SumFunctionOnSet(f, I) \in Nat /\ SumFunctionOnSet(g, I) \in Nat
    BY <2>5, <2>6, SumFacts
  <2>9. SumFunctionOnSet(f, J) \in Nat
    <3>1. \A j \in J : f[j] \in Nat
      BY <2>1, <2>2
    <3>2. QED
      BY <2>5, <3>1, SumFacts
  <2>10. QED
    BY <1>5, <1>9, <1>11, <2>3, <2>4, <2>7, <2>8, <2>9
<1>14. QED
  BY <1>12, <1>13 DEF n

-----------------------------------------------------------------------------
(* Orders of the lists. *)

LEMMA AscendingLists ==
    ASSUME query \in LexicalQueries, NEW key \in [Terms -> Nat]
    PROVE  Listing(key, Ascending(key))
<1> DEFINE R == {p \in Terms \X Terms : \/ key[p[1]] < key[p[2]]
                                        \/ key[p[1]] = key[p[2]] /\ p[1] < p[2]}
<1>1. Terms \in SUBSET Nat
  BY QueryFacts
<1>2. \A t, u \in Terms : <<t, u>> \in R <=> key[t] < key[u] \/ (key[t] = key[u] /\ t < u)
  OBVIOUS
<1>3. \A t \in Terms : t \in Nat /\ key[t] \in Nat
  BY <1>1
<1>4. Ascending(key) = InOrder(R)
  BY DEF Ascending
<1> HIDE DEF R
<1>5. TotalOrder(Terms, R)
  BY <1>2, <1>3 DEF TotalOrder
<1>6. \A t, u \in Terms : <<t, u>> \in R => key[t] <= key[u]
  BY <1>2, <1>3
<1>7. QED
  BY <1>4, <1>5, <1>6, InOrderLists

\* The insertion sort that WAND keeps its lists in order with is one.
LEMMA ByDocLists ==
    ASSUME query \in LexicalQueries, NEW old, Listing(old, order), NEW to \in [Terms -> Nat]
    PROVE  Listing(to, ByDoc(to))
<1> DEFINE R == {p \in Terms \X Terms : \/ to[p[1]] < to[p[2]]
                                        \/ to[p[1]] = to[p[2]] /\ Place(p[1]) < Place(p[2])}
<1>1. \A t \in Terms : Place(t) \in Nat /\ to[t] \in Nat
  BY PlaceFacts, QueryFacts
<1>2. \A t, u \in Terms : <<t, u>> \in R <=> to[t] < to[u] \/ (to[t] = to[u] /\ Place(t) < Place(u))
  OBVIOUS
<1>3. \A t, u \in Terms : Place(t) = Place(u) => t = u
  BY PlaceFacts
<1>4. ByDoc(to) = InOrder(R)
  BY DEF ByDoc
<1> HIDE DEF R
<1>5. TotalOrder(Terms, R)
  BY <1>1, <1>2, <1>3 DEF TotalOrder
<1>6. \A t, u \in Terms : <<t, u>> \in R => to[t] <= to[u]
  BY <1>1, <1>2
<1>7. QED
  BY <1>4, <1>5, <1>6, InOrderLists

-----------------------------------------------------------------------------
(* The invariant holds at first. *)

LEMMA NoBest ==
    ASSUME query \in LexicalQueries, NEW D \in SUBSET Matching, query.k = 0 \/ D = {}
    PROVE  Best(query.k, Scores(D)) = {}
<1>1. Scores(D) \in SUBSET Hits /\ IsFiniteSet(Scores(D)) /\ query.k \in Nat
  BY MatchingFacts, QueryFacts
<1>2. /\ Best(query.k, Scores(D)) \in SUBSET Scores(D) /\ IsFiniteSet(Best(query.k, Scores(D)))
      /\ Cardinality(Scores(D)) >= query.k => Cardinality(Best(query.k, Scores(D))) = query.k
  BY <1>1, BestFacts
<1>3. CASE D = {}
  <2>1. Scores(D) = {}
    BY <1>3 DEF Scores
  <2>2. QED
    BY <1>2, <2>1
<1>4. CASE query.k = 0
  <2>1. Cardinality(Scores(D)) \in Nat
    BY <1>1, FS_CardinalityType
  <2>2. Cardinality(Best(query.k, Scores(D))) = 0
    BY <1>2, <1>4, <2>1
  <2>3. QED
    BY <1>2, <2>2, FS_EmptySet
<1>5. QED
  BY <1>3, <1>4

\* Cursors at the first documents have passed none.
LEMMA FirstFacts ==
    ASSUME query \in LexicalQueries
    PROVE  /\ Stands(FirstDocs) /\ FirstDocs \in [Terms -> Nat] /\ PassedBy(FirstDocs) = {}
           /\ \A t \in Terms : \A d \in Docs(t) : ~(d < FirstDocs[t])
<1>1. \A t \in Terms : Docs(t) \in SUBSET Nat /\ Docs(t) # {}
  BY QueryFacts
<1>2. \A t \in Terms : FirstDocs[t] \in Docs(t) /\ FirstDocs[t] \in Nat /\ \A d \in Docs(t) : FirstDocs[t] <= d /\ d \in Nat
  <2>1. SUFFICES ASSUME NEW t \in Terms
                 PROVE  FirstDocs[t] \in Docs(t) /\ FirstDocs[t] \in Nat /\ \A d \in Docs(t) : FirstDocs[t] <= d /\ d \in Nat
    OBVIOUS
  <2>2. FirstDocs[t] = Min(Docs(t))
    BY DEF FirstDocs
  <2>3. Min(Docs(t)) \in Docs(t) /\ \A d \in Docs(t) : Min(Docs(t)) <= d
    BY <1>1, MinFacts
  <2>4. QED
    BY <1>1, <2>2, <2>3
<1>3. FirstDocs = [t \in Terms |-> FirstDocs[t]]
  BY DEF FirstDocs
<1>4. FirstDocs \in [Terms -> Nat]
  BY <1>2, <1>3
<1>5. \A t \in Terms : \A d \in Docs(t) : ~(d < FirstDocs[t])
  BY <1>2
<1>6. Stands(FirstDocs)
  BY <1>2, <1>4 DEF Stands
<1>7. PassedBy(FirstDocs) = {}
  BY <1>2 DEF PassedBy
<1>8. QED
  BY <1>4, <1>5, <1>6, <1>7

LEMMA LexicalInitially == ASSUME LexicalInit PROVE LexicalInvariant
<1>1. query \in LexicalQueries /\ top = {} /\ cut = FALSE /\ searching = (Terms # {} /\ query.k > 0)
      /\ essential = 1 /\ block = [t \in Terms |-> 0]
  BY DEF LexicalInit
<1>2. /\ Stands(FirstDocs) /\ FirstDocs \in [Terms -> Nat] /\ PassedBy(FirstDocs) = {}
      /\ \A t \in Terms : \A d \in Docs(t) : ~(d < FirstDocs[t])
  BY <1>1, FirstFacts
<1>3. query.algorithm = "exhaustive" => at \in [Terms -> Nat]
  BY DEF LexicalInit
<1>4. query.algorithm # "exhaustive" => at = FirstDocs
  BY DEF LexicalInit
<1>5. query.algorithm # "exhaustive" => Stands(at) /\ Exact(at, top)
  <2>1. Best(query.k, Scores({})) = {}
    BY <1>1, NoBest
  <2>2. QED
    BY <1>1, <1>2, <1>4, <2>1 DEF Exact
<1>6. ASSUME ~searching PROVE top = Best(query.k, Scores(Matching))
  <2>1. query.k = 0 \/ Matching = {}
    <3>1. Terms = {} => Matching = {}
      BY DEF Matching
    <3>2. query.k \in Nat
      BY <1>1, QueryFacts
    <3>3. Terms = {} \/ ~(query.k > 0)
      BY <1>1, <1>6
    <3>4. QED
      BY <3>1, <3>2, <3>3
  <2>2. QED
    BY <1>1, <2>1, NoBest
<1>7. ASSUME searching PROVE query.k > 0 /\ Terms # {}
  BY <1>1, <1>7
<1>8. ASSUME query.algorithm = "daat" PROVE DaatInvariant(at)
  BY <1>2, <1>4, <1>8 DEF DaatInvariant
<1>9. ASSUME query.algorithm = "maxscore" PROVE MaxScoreInvariant(at, block, order, essential, top)
  <2> DEFINE key == [t \in Terms |-> Bound(t)]
  <2>1. key \in [Terms -> Nat]
    BY <1>1, AddsFacts
  <2>2. order = Ascending(key)
    BY <1>9 DEF LexicalInit
  <2>3. Listing(key, order)
    <3> HIDE DEF key
    <3> QED BY <1>1, <2>1, <2>2, AscendingLists
  <2>4. block \in [Terms -> Nat] /\ essential \in 1 .. Len(query.terms) + 1
    BY <1>1, QueryFacts
  <2>5. \A t \in Terms : block[t] <= Blk(t, at[t])
    BY <1>1, <1>2, <1>4, <1>9, NumberFacts
  <2>6. at = FirstDocs
    BY <1>4, <1>9
  <2>7. QED
    BY <1>1, <1>2, <2>3, <2>4, <2>5, <2>6 DEF MaxScoreInvariant
<1>10. ASSUME query.algorithm \in {"wand", "bmw"} PROVE WandInvariant(at, block, order, top)
  <2>1. at = FirstDocs
    BY <1>4, <1>10
  <2>2. order = Ascending(FirstDocs)
    BY <1>10 DEF LexicalInit
  <2>3. Listing(at, order)
    BY <1>1, <1>2, <2>1, <2>2, AscendingLists
  <2>4. NoneMissed(at, top)
    BY <1>2, <2>1 DEF NoneMissed
  <2>5. Pointed(at, block, top)
    <3>1. \A t \in Terms : \A d \in Docs(t) : ~(Blk(t, d) < block[t])
      <4>1. SUFFICES ASSUME NEW t \in Terms, NEW d \in Docs(t) PROVE ~(Blk(t, d) < block[t])
        OBVIOUS
      <4>2. Blk(t, d) \in Nat
        BY <1>1, QueryFacts, NumberFacts
      <4>3. QED
        BY <1>1, <4>2
    <3>2. block \in [Terms -> Nat]
      BY <1>1
    <3>3. QED
      BY <3>1, <3>2 DEF Pointed
  <2>6. QED
    BY <1>1, <2>3, <2>4, <2>5 DEF WandInvariant
<1>11. QED
  BY <1>1, <1>3, <1>5, <1>6, <1>7, <1>8, <1>9, <1>10 DEF LexicalInvariant

-----------------------------------------------------------------------------
(* Every step keeps it. *)

\* What a step has to show.
LEMMA InvariantKept ==
    ASSUME query \in LexicalQueries, query' = query,
           query.algorithm = "exhaustive" => at' \in [Terms -> Nat],
           query.algorithm # "exhaustive" => Stands(at') /\ Exact(at', top'),
           ~searching' /\ ~cut' => top' = Best(query.k, Scores(Matching)),
           searching' => /\ query.k > 0 /\ Terms # {}
                         /\ query.algorithm = "daat" => DaatInvariant(at')
                         /\ query.algorithm = "maxscore" => MaxScoreInvariant(at', block', order', essential', top')
                         /\ query.algorithm \in {"wand", "bmw"} => WandInvariant(at', block', order', top')
    PROVE  LexicalInvariant'
<1>1. /\ Terms' = Terms /\ Scores(Matching)' = Scores(Matching)
      /\ Stands(at)' = Stands(at') /\ Exact(at, top)' = Exact(at', top')
      /\ DaatInvariant(at)' = DaatInvariant(at')
      /\ MaxScoreInvariant(at, block, order, essential, top)' = MaxScoreInvariant(at', block', order', essential', top')
      /\ WandInvariant(at, block, order, top)' = WandInvariant(at', block', order', top')
  BY QueryKept
<1>2. (query \in LexicalQueries)'
  OBVIOUS
<1>3. (query.algorithm = "exhaustive" => at \in [Terms -> Nat])'
  BY <1>1
<1>4. (query.algorithm # "exhaustive" => Stands(at) /\ Exact(at, top))'
  BY <1>1
<1>5. (~searching /\ ~cut => top = Best(query.k, Scores(Matching)))'
  BY <1>1
<1>6. (searching =>
          /\ query.k > 0 /\ Terms # {}
          /\ query.algorithm = "daat" => DaatInvariant(at)
          /\ query.algorithm = "maxscore" => MaxScoreInvariant(at, block, order, essential, top)
          /\ query.algorithm \in {"wand", "bmw"} => WandInvariant(at, block, order, top))'
  BY <1>1
<1>7. QED
  BY <1>2, <1>3, <1>4, <1>5, <1>6 DEF LexicalInvariant

\* A document is numbered among those of its list.
LEMMA NumberOfMember ==
    ASSUME query \in LexicalQueries, NEW t \in Terms, NEW d \in Docs(t)
    PROVE  Number(t, d) \in Nat /\ Number(t, d) < Cardinality(Docs(t)) /\ Cardinality(Docs(t)) \in Nat
<1> DEFINE S == Docs(t)
           L == {e \in S : e < d}
<1>1. IsFiniteSet(S) /\ S \in SUBSET Nat
  BY QueryFacts
<1>2. L \in SUBSET S /\ L # S
  BY <1>1
<1>3. Number(t, d) = Cardinality(L)
  BY DEF Number
<1> HIDE DEF L, S
<1>4. /\ IsFiniteSet(L) /\ Cardinality(L) <= Cardinality(S) /\ (Cardinality(L) = Cardinality(S) => L = S)
  BY <1>1, <1>2, FS_Subset
<1>5. Cardinality(L) \in Nat /\ Cardinality(S) \in Nat
  BY <1>1, <1>4, FS_CardinalityType
<1>6. QED
  BY <1>2, <1>3, <1>4, <1>5 DEF S

\* The exhaustive search reads list after list and offers all that they touched.
LEMMA ExhaustiveKeeps == ASSUME LexicalInvariant, ExhaustiveStep PROVE LexicalInvariant'
<1>1. /\ query \in LexicalQueries /\ query' = query /\ query.algorithm = "exhaustive" /\ searching
      /\ at \in [Terms -> Nat] /\ query.k > 0 /\ Terms # {}
  BY DEF LexicalInvariant, ExhaustiveStep
<1>2. CASE Left # {} /\ at' = [at EXCEPT ![Min(Left)] = Min({@ + BlockSize, Cardinality(Docs(Min(Left)))})] /\ GoesOn
  <2>1. Left \in SUBSET Terms /\ Left \in SUBSET Nat
    BY <1>1, QueryFacts DEF Left
  <2>2. PICK t \in Terms : t = Min(Left)
    BY <1>2, <2>1, MinFacts
  <2>3. Cardinality(Docs(t)) \in Nat /\ at[t] + BlockSize \in Nat
    BY <1>1, QueryFacts, FS_CardinalityType
  <2>4. PICK m \in Nat : m = Min({at[t] + BlockSize, Cardinality(Docs(t))})
    <3> DEFINE S == {at[t] + BlockSize, Cardinality(Docs(t))}
    <3>1. S \in SUBSET Nat /\ S # {}
      BY <2>3
    <3> HIDE DEF S
    <3>2. Min(S) \in Nat
      BY <3>1, MinFacts
    <3>3. QED
      BY <3>2 DEF S
  <2>5. at' \in [Terms -> Nat]
    BY <1>1, <1>2, <2>2, <2>4
  <2>6. searching' /\ searching' = searching
    BY <1>1, <1>2 DEF GoesOn
  <2>7. QED
    BY <1>1, <2>5, <2>6, InvariantKept
<1>3. CASE Left # {} /\ Cut /\ at' = at
  BY <1>1, <1>3, InvariantKept DEF Cut
<1>4. CASE Left = {} /\ Finish /\ top' = Best(query.k, Sums) /\ at' = at
  <2>1. \A t \in Terms : ~(at[t] < Cardinality(Docs(t)))
    BY <1>4 DEF Left
  <2>2. \A t \in Terms : \A d \in Docs(t) : Number(t, d) < at[t]
    <3>1. SUFFICES ASSUME NEW t \in Terms, NEW d \in Docs(t) PROVE Number(t, d) < at[t]
      OBVIOUS
    <3>2. Number(t, d) \in Nat /\ Number(t, d) < Cardinality(Docs(t)) /\ Cardinality(Docs(t)) \in Nat
      BY <1>1, NumberOfMember
    <3>3. at[t] \in Nat
      BY <1>1
    <3>4. QED
      BY <2>1, <3>2, <3>3
  <2>3. Touched = Matching
    BY <2>2 DEF Touched, Matching
  <2> DEFINE sum(d) == SumFunction([t \in Terms |-> Added(d, t)])
  <2>4. \A d : sum(d) = Score(d)
    <3>1. SUFFICES ASSUME NEW d PROVE sum(d) = Score(d)
      OBVIOUS
    <3> DEFINE f == [t \in Terms |-> Added(d, t)]
               g == [t \in Terms |-> Adds(t, d)]
    <3>2. \A t \in Terms : Added(d, t) = Adds(t, d)
      BY <2>2 DEF Added, Adds
    <3>3. f = g
      BY <3>2
    <3>4. DOMAIN f = Terms
      OBVIOUS
    <3> HIDE DEF f, g
    <3>5. SumFunction(f) = SumFunctionOnSet(g, Terms)
      BY <3>3, <3>4 DEF SumFunction
    <3>6. QED
      BY <3>5 DEF f, g, Score, Total
  <2>5. Sums = Scores(Matching)
    <3>1. Sums = {[doc |-> d, score |-> sum(d)] : d \in Touched}
      BY DEF Sums
    <3> HIDE DEF sum
    <3>2. QED
      BY <2>3, <2>4, <3>1 DEF Scores
  <2>6. ~searching'
    BY <1>4 DEF Finish
  <2>7. QED
    BY <1>1, <1>4, <2>5, <2>6, InvariantKept
<1>5. QED
  BY <1>2, <1>3, <1>4 DEF ExhaustiveStep

-----------------------------------------------------------------------------
(* Moving cursors. *)

\* Where cursors may stand, and what they have passed.
LEMMA StandsFacts ==
    ASSUME query \in LexicalQueries, NEW to, Stands(to)
    PROVE  /\ to \in [Terms -> Nat]
           /\ \A t \in Terms : to[t] \in Nat /\ to[t] <= End /\ (to[t] # End => to[t] \in Docs(t))
           /\ PassedBy(to) \in SUBSET Matching
           /\ \A t \in Terms : \A d \in Docs(t) : d \in Matching /\ d \in Nat /\ (d < to[t] => d \in PassedBy(to))
<1>1. End \in Nat /\ \A t \in Terms : Docs(t) \in SUBSET Nat /\ \A d \in Docs(t) : d < End
  BY QueryFacts
<1>2. to \in [Terms -> Nat] /\ \A t \in Terms : to[t] \in Docs(t) \cup {End}
  BY DEF Stands
<1>3. \A t \in Terms : to[t] \in Nat /\ to[t] <= End /\ (to[t] # End => to[t] \in Docs(t))
  <2>1. SUFFICES ASSUME NEW t \in Terms
                 PROVE  to[t] \in Nat /\ to[t] <= End /\ (to[t] # End => to[t] \in Docs(t))
    OBVIOUS
  <2>2. to[t] \in Nat /\ to[t] \in Docs(t) \cup {End}
    BY <1>2
  <2>3. QED
    BY <1>1, <2>2
<1>4. PassedBy(to) \in SUBSET Matching
  BY DEF PassedBy
<1>5. \A t \in Terms : \A d \in Docs(t) : d \in Matching /\ d \in Nat /\ (d < to[t] => d \in PassedBy(to))
  BY <1>1, <1>2 DEF PassedBy, Matching
<1>6. QED
  BY <1>2, <1>3, <1>4, <1>5

\* next() goes to the document right after.
LEMMA NextDocFacts ==
    ASSUME query \in LexicalQueries, Stands(at), NEW t \in Terms, at[t] # End
    PROVE  /\ NextDoc(t) \in Docs(t) \cup {End} /\ NextDoc(t) \in Nat /\ at[t] < NextDoc(t)
           /\ \A d \in Docs(t) : d < NextDoc(t) => d <= at[t]
<1>1. at[t] \in Nat /\ at[t] <= End /\ End \in Nat /\ at[t] + 1 \in Nat /\ at[t] + 1 <= End
  BY StandsFacts, QueryFacts
<1>2. PICK g \in Nat : g = NextDoc(t)
  BY <1>1, GeqFacts DEF NextDoc
<1>3. /\ g \in Docs(t) \cup {End} /\ g >= at[t] + 1
      /\ \A e \in Docs(t) : at[t] + 1 <= e /\ e < g => Blk(t, e) < 0
  BY <1>1, <1>2, GeqFacts DEF NextDoc
<1>4. \A d \in Docs(t) : d \in Nat /\ Blk(t, d) \in Nat
  BY QueryFacts, NumberFacts
<1>5. \A d \in Docs(t) : d < g => d <= at[t]
  BY <1>1, <1>3, <1>4
<1>6. QED
  BY <1>1, <1>2, <1>3, <1>5

LEMMA LeastOfAll ==
    ASSUME query \in LexicalQueries, Stands(at), Terms # {}
    PROVE  /\ Min(Range(at)) \in Nat /\ \A t \in Terms : Min(Range(at)) <= at[t]
           /\ \E t \in Terms : at[t] = Min(Range(at))
<1>1. at \in [Terms -> Nat]
  BY StandsFacts
<1>2. Range(at) = {at[t] : t \in Terms}
  BY <1>1 DEF Range
<1>3. Range(at) \in SUBSET Nat /\ Range(at) # {}
  BY <1>1, <1>2
<1>4. Min(Range(at)) \in Range(at) /\ \A d \in Range(at) : Min(Range(at)) <= d
  BY <1>3, MinFacts
<1>5. QED
  BY <1>2, <1>3, <1>4

\* A document at a time: the least one is scored, and every list on it moves on.
LEMMA DaatKeeps == ASSUME LexicalInvariant, DaatStep PROVE LexicalInvariant'
<1> DEFINE d0 == Min(Range(at))
           hits == {t \in Terms : at[t] = d0}
<1>1. /\ query \in LexicalQueries /\ query' = query /\ query.algorithm = "daat" /\ searching
      /\ Stands(at) /\ Exact(at, top) /\ DaatInvariant(at) /\ query.k > 0 /\ Terms # {}
  BY DEF LexicalInvariant, DaatStep
<1>2. d0 \in Nat /\ (\A t \in Terms : d0 <= at[t]) /\ \E t \in Terms : at[t] = d0
  BY <1>1, LeastOfAll
<1>3. /\ at \in [Terms -> Nat] /\ PassedBy(at) \in SUBSET Matching
      /\ \A t \in Terms : at[t] \in Nat /\ at[t] <= End /\ (at[t] # End => at[t] \in Docs(t))
      /\ \A t \in Terms : \A d \in Docs(t) : d \in Matching /\ d \in Nat /\ (d < at[t] => d \in PassedBy(at))
  BY <1>1, StandsFacts
<1>4. CASE d0 = End /\ Finish /\ UNCHANGED <<at, block, top>>
  <2>1. \A t \in Terms : at[t] = End
    BY <1>2, <1>3, <1>4
  <2>2. PassedBy(at) = Matching
    <3>1. \A t \in Terms : \A d \in Docs(t) : d < End
      BY <1>1, QueryFacts
    <3>2. QED
      BY <1>3, <2>1, <3>1 DEF Matching
  <2>3. top = Best(query.k, Scores(Matching))
    BY <1>1, <2>2 DEF Exact
  <2>4. at' = at /\ top' = top /\ ~searching'
    BY <1>4 DEF Finish
  <2>5. QED
    BY <1>1, <2>3, <2>4, InvariantKept
<1>5. CASE d0 # End /\ Cut /\ UNCHANGED <<at, block, top>>
  <2>1. at' = at /\ top' = top /\ ~searching' /\ cut'
    BY <1>5 DEF Cut
  <2>2. QED
    BY <1>1, <2>1, InvariantKept
<1>6. CASE /\ d0 # End /\ GoesOn
           /\ top' = push(top, [doc |-> d0, score |-> Total(d0, hits)])
           /\ MoveTo([t \in Terms |-> IF t \in hits THEN NextDoc(t) ELSE at[t]])
  <2>1. searching' = searching /\ cut' = cut
    BY <1>6 DEF GoesOn
  <2>2. at' = [t \in Terms |-> IF t \in hits THEN NextDoc(t) ELSE at[t]]
    BY <1>6 DEF MoveTo
  <2>3. PICK t0 \in Terms : at[t0] = d0
    BY <1>2
  <2>4. d0 \in Docs(t0) /\ d0 \in Matching
    BY <1>3, <1>6, <2>3
  <2>5. d0 \notin PassedBy(at)
    BY <1>1, <1>2, <2>3 DEF DaatInvariant
  <2>6. Total(d0, hits) = Score(d0)
    <3>1. \A t \in Terms \ hits : d0 \notin Docs(t)
      BY <1>2, <1>3, <2>5
    <3>2. hits \in SUBSET Terms
      OBVIOUS
    <3> HIDE DEF hits
    <3>3. QED
      BY <1>1, <3>1, <3>2, ScoreFacts
  <2>7. \A t \in Terms : /\ at'[t] \in Docs(t) \cup {End} /\ at'[t] \in Nat /\ at[t] <= at'[t] /\ d0 < at'[t]
                         /\ \A d \in Docs(t) : d < at'[t] => d < at[t] \/ d = d0
    <3>1. SUFFICES ASSUME NEW t \in Terms
                   PROVE  /\ at'[t] \in Docs(t) \cup {End} /\ at'[t] \in Nat /\ at[t] <= at'[t] /\ d0 < at'[t]
                          /\ \A d \in Docs(t) : d < at'[t] => d < at[t] \/ d = d0
      OBVIOUS
    <3>2. CASE at[t] = d0
      <4>1. at'[t] = NextDoc(t) /\ at[t] # End
        BY <1>6, <2>2, <3>2
      <4>2. /\ NextDoc(t) \in Docs(t) \cup {End} /\ NextDoc(t) \in Nat /\ at[t] < NextDoc(t)
            /\ \A d \in Docs(t) : d < NextDoc(t) => d <= at[t]
        BY <1>1, <4>1, NextDocFacts
      <4> HIDE DEF d0
      <4>3. QED
        BY <1>2, <1>3, <3>2, <4>1, <4>2
    <3>3. CASE at[t] # d0
      <4>1. at'[t] = at[t]
        BY <2>2, <3>3
      <4> HIDE DEF d0
      <4>2. QED
        BY <1>1, <1>2, <1>3, <3>3, <4>1
    <3>4. QED
      BY <3>2, <3>3
  <2>8. Stands(at')
    <3>1. at' \in [Terms -> Nat]
      BY <2>2, <2>7
    <3>2. QED
      BY <2>7, <3>1 DEF Stands
  <2> HIDE DEF d0, hits
  <2>9. PassedBy(at') = PassedBy(at) \cup {d0}
    <3>1. PassedBy(at') \subseteq PassedBy(at) \cup {d0}
      <4>1. SUFFICES ASSUME NEW t \in Terms, NEW d \in Docs(t), d < at'[t] PROVE d \in PassedBy(at) \cup {d0}
        BY <2>7, QueryFacts DEF PassedBy
      <4>2. QED
        BY <1>3, <2>7, <4>1
    <3>2. PassedBy(at) \subseteq PassedBy(at')
      BY <1>3, <2>7 DEF PassedBy
    <3>3. d0 \in PassedBy(at')
      BY <2>4, <2>7 DEF PassedBy
    <3>4. QED
      BY <3>1, <3>2, <3>3
  <2>10. Exact(at', top')
    <3>1. PassedBy(at') \in SUBSET Matching
      BY <1>3, <2>4, <2>9
    <3>2. PassedBy(at) \cup {d0} \subseteq PassedBy(at') /\ PassedBy(at') \ (PassedBy(at) \cup {d0}) = {}
      BY <2>9
    <3>3. top = Best(query.k, Scores(PassedBy(at)))
      BY <1>1 DEF Exact
    <3>4. push(top, [doc |-> d0, score |-> Score(d0)]) = Best(query.k, Scores(PassedBy(at')))
      BY <1>1, <1>3, <2>4, <2>5, <3>1, <3>2, <3>3, PassScored
    <3>5. QED
      BY <1>6, <2>6, <3>4 DEF Exact
  <2>11. DaatInvariant(at')
    <3>1. SUFFICES ASSUME NEW d \in PassedBy(at'), NEW t \in Terms PROVE d < at'[t]
      BY DEF DaatInvariant
    <3>2. CASE d = d0
      BY <2>7, <3>2
    <3>3. CASE d \in PassedBy(at)
      <4>1. d < at[t]
        BY <1>1, <3>3 DEF DaatInvariant
      <4>2. d \in Nat
        BY <1>1, <1>3, <3>3, MatchingFacts
      <4>3. QED
        BY <1>3, <2>7, <4>1, <4>2
    <3>4. QED
      BY <2>9, <3>2, <3>3
  <2>12. QED
    BY <1>1, <2>1, <2>8, <2>10, <2>11, InvariantKept
<1>7. QED
  BY <1>4, <1>5, <1>6 DEF DaatStep

\* What MaxScore's invariant says of its lists and bounds.
LEMMA MaxScoreFacts ==
    ASSUME query \in LexicalQueries, Stands(at), MaxScoreInvariant(at, block, order, essential, top)
    PROVE  /\ Listing([t \in Terms |-> Bound(t)], order)
           /\ DOMAIN order = 1 .. Len(query.terms) /\ Len(order) = Len(query.terms) /\ Len(query.terms) \in Nat
           /\ \A t \in Terms : Place(t) \in 1 .. Len(query.terms) /\ order[Place(t)] = t
           /\ \A i \in 1 .. Len(query.terms) : order[i] \in Terms /\ Place(order[i]) = i
           /\ essential \in 1 .. Len(query.terms) + 1
           /\ essential > 1 => Beaten(top, Prefix(essential - 1))
           /\ NextEssential \in Nat
           /\ \A t \in Terms : Place(t) >= essential => NextEssential <= at[t]
           /\ NextEssential = End \/ \E t \in Terms : Place(t) >= essential /\ at[t] = NextEssential
           /\ NextEssential <= End
           /\ \A t \in Terms : \A d \in Docs(t) : d < at[t] => \A u \in Terms : Place(u) >= essential => d < at[u]
<1> DEFINE n == Len(query.terms)
           S == {at[order[i]] : i \in essential .. n}
<1>1. /\ Listing([t \in Terms |-> Bound(t)], order) /\ essential \in 1 .. n + 1
      /\ essential > 1 => Beaten(top, Prefix(essential - 1))
      /\ \A i \in essential .. n : \A t \in Terms : \A d \in Docs(t) : d < at[t] => d < at[order[i]]
  BY DEF MaxScoreInvariant, Prefix
<1>2. /\ DOMAIN order = 1 .. n /\ Len(order) = n
      /\ \A t \in Terms : Place(t) \in 1 .. n /\ order[Place(t)] = t
      /\ \A i \in 1 .. n : order[i] \in Terms /\ Place(order[i]) = i
  BY <1>1, PlaceFacts
<1>3. n \in Nat /\ End \in Nat /\ \A t \in Terms : at[t] \in Nat /\ at[t] <= End
  BY QueryFacts, StandsFacts
<1> HIDE DEF n
<1>4. \A i \in essential .. n : order[i] \in Terms /\ Place(order[i]) = i
  BY <1>1, <1>2, <1>3
<1>5. \A t \in Terms : Place(t) >= essential => Place(t) \in essential .. n /\ order[Place(t)] = t
  BY <1>1, <1>2, <1>3
<1>6. NextEssential = Min({End} \cup S)
  BY <1>2 DEF NextEssential, n
<1>7. {End} \cup S \in SUBSET Nat /\ {End} \cup S # {}
  BY <1>3, <1>4
<1>8. NextEssential \in {End} \cup S /\ \A d \in {End} \cup S : NextEssential <= d
  <2> HIDE DEF S
  <2> QED BY <1>6, <1>7, MinFacts
<1>9. \A t \in Terms : Place(t) >= essential => NextEssential <= at[t]
  <2>1. SUFFICES ASSUME NEW t \in Terms, Place(t) >= essential PROVE NextEssential <= at[t]
    OBVIOUS
  <2>2. at[t] \in S
    BY <1>5, <2>1
  <2>3. QED
    BY <1>8, <2>2
<1>10. NextEssential = End \/ \E t \in Terms : Place(t) >= essential /\ at[t] = NextEssential
  <2>1. SUFFICES ASSUME NextEssential # End
                 PROVE  \E t \in Terms : Place(t) >= essential /\ at[t] = NextEssential
    OBVIOUS
  <2>2. PICK i \in essential .. n : NextEssential = at[order[i]]
    BY <1>8, <2>1
  <2>3. order[i] \in Terms /\ Place(order[i]) >= essential
    BY <1>1, <1>4, <2>2
  <2>4. QED
    BY <2>2, <2>3
<1>11. \A t \in Terms : \A d \in Docs(t) : d < at[t] => \A u \in Terms : Place(u) >= essential => d < at[u]
  BY <1>1, <1>5 DEF n
<1>12. NextEssential \in Nat /\ NextEssential <= End
  BY <1>7, <1>8
<1>13. QED
  BY <1>1, <1>2, <1>3, <1>9, <1>10, <1>11, <1>12 DEF n

\* A document that only lists below the partition have left cannot get in.
LEMMA NonEssential ==
    ASSUME query \in LexicalQueries, query.k > 0, Stands(at), Exact(at, top),
           MaxScoreInvariant(at, block, order, essential, top),
           NEW t \in Terms, NEW d \in Docs(t), d \notin PassedBy(at), d < NextEssential
    PROVE  Beaten(top, Score(d)) /\ \A h \in top : h.doc < d
<1>1. /\ Listing([u \in Terms |-> Bound(u)], order) /\ Len(query.terms) \in Nat
      /\ \A u \in Terms : Place(u) \in 1 .. Len(query.terms)
      /\ essential \in 1 .. Len(query.terms) + 1
      /\ essential > 1 => Beaten(top, Prefix(essential - 1))
      /\ NextEssential \in Nat
      /\ \A u \in Terms : Place(u) >= essential => NextEssential <= at[u]
  BY MaxScoreFacts
<1>2. /\ \A u \in Terms : at[u] \in Nat /\ PassedBy(at) \in SUBSET Matching
      /\ \A u \in Terms : \A e \in Docs(u) : e \in Nat /\ (e < at[u] => e \in PassedBy(at))
  BY StandsFacts
<1>3. \A u \in Terms : d \in Docs(u) => at[u] <= d /\ ~(Place(u) >= essential)
  BY <1>1, <1>2
<1>4. \A u \in Terms : d \in Docs(u) => Place(u) <= essential - 1
  BY <1>1, <1>3
<1>5. essential > 1 /\ essential - 1 \in 0 .. Len(query.terms)
  BY <1>1, <1>4
<1>6. Prefix(essential - 1) \in Nat /\ Score(d) <= Prefix(essential - 1) /\ Score(d) \in Nat
  BY <1>1, <1>4, <1>5, PrefixFacts, ScoreFacts
<1>7. PICK b \in Nat : b = Prefix(essential - 1)
  BY <1>6
<1>8. top = Best(query.k, Scores(PassedBy(at))) /\ PassedBy(at) \in SUBSET Matching
  BY <1>2 DEF Exact
<1>9. Beaten(top, Score(d))
  BY <1>1, <1>5, <1>6, <1>7, <1>8, HeapFacts
<1>10. ASSUME NEW h \in top PROVE h.doc < d
  <2>1. h.doc \in PassedBy(at) /\ h.doc # d
    BY <1>8, HeapFacts
  <2>2. h.doc \in Nat
    BY <1>8, <2>1, MatchingFacts
  <2>3. h.doc <= at[t]
    BY DEF MaxScoreInvariant
  <2>4. QED
    BY <1>2, <1>3, <2>1, <2>2, <2>3
<1>11. QED
  BY <1>9, <1>10

\* No list that matters is left: nothing that remains can get in.
LEMMA MaxScoreEnds ==
    ASSUME LexicalInvariant, MaxScoreStep, NextEssential = End, Finish, at' = at, top' = top
    PROVE  LexicalInvariant'
<1>1. /\ query \in LexicalQueries /\ query' = query /\ query.algorithm = "maxscore" /\ searching
      /\ Stands(at) /\ Exact(at, top) /\ query.k > 0 /\ Terms # {}
      /\ MaxScoreInvariant(at, block, order, essential, top)
  BY DEF LexicalInvariant, MaxScoreStep
<1>2. ASSUME NEW d \in Matching \ PassedBy(at) PROVE Beaten(top, Score(d)) /\ \A h \in top : h.doc < d
  <2>1. PICK t \in Terms : d \in Docs(t)
    BY DEF Matching
  <2>2. d < NextEssential
    BY <1>1, <2>1, QueryFacts
  <2>3. QED
    BY <1>1, <1>2, <2>1, <2>2, NonEssential
<1>3. PassedBy(at) \in SUBSET Matching /\ top = Best(query.k, Scores(PassedBy(at)))
  BY <1>1, StandsFacts DEF Exact
<1>4. top = Best(query.k, Scores(Matching))
  BY <1>1, <1>2, <1>3, PassWorthless
<1>5. ~searching'
  BY DEF Finish
<1>6. QED
  BY <1>1, <1>4, <1>5, InvariantKept

\* next_geq from a block pointer that is not ahead of its cursor.
LEMMA NextGeqFacts ==
    ASSUME query \in LexicalQueries, Stands(at), NEW t \in Terms, NEW d \in Nat, d <= End,
           block \in [Terms -> Nat], block[t] <= Blk(t, at[t])
    PROVE  /\ next_geq(t, d) \in Docs(t) \cup {End} /\ next_geq(t, d) \in Nat
           /\ at[t] <= next_geq(t, d) /\ d <= next_geq(t, d)
           /\ \A e \in Docs(t) : e < next_geq(t, d) => e < at[t] \/ e < d
           /\ d \in Docs(t) /\ at[t] <= d => next_geq(t, d) = d
<1>1. at[t] \in Nat /\ at[t] \in Docs(t) \cup {End} /\ block[t] \in Nat
  BY StandsFacts
<1>2. \A e \in Docs(t) : e \in Nat /\ Blk(t, e) \in Nat /\ (at[t] <= e => Blk(t, at[t]) <= Blk(t, e))
  BY <1>1, QueryFacts, NumberFacts
<1>3. Blk(t, at[t]) \in Nat
  BY <1>1, NumberFacts
<1>4. CASE at[t] >= d
  BY <1>1, <1>2, <1>4 DEF next_geq
<1>5. CASE ~(at[t] >= d)
  <2>1. PICK g \in Nat : g = Geq(t, d, block[t])
    BY <1>1, GeqFacts
  <2>2. /\ g \in Docs(t) \cup {End} /\ g >= d
        /\ \A e \in Docs(t) : d <= e /\ e < g => Blk(t, e) < block[t]
    BY <1>1, <2>1, GeqFacts
  <2>3. next_geq(t, d) = g
    BY <1>5, <2>1 DEF next_geq
  <2>4. \A e \in Docs(t) : e < g => e < at[t] \/ e < d
    BY <1>1, <1>2, <1>3, <2>2
  <2>5. d \in Docs(t) /\ at[t] <= d => g = d
    BY <1>1, <1>2, <1>3, <2>2
  <2>6. QED
    BY <1>1, <1>5, <2>2, <2>3, <2>4, <2>5
<1>6. QED
  BY <1>4, <1>5

\* Where the lists are after a document of MaxScore.
LEMMA MaxScoreMoves ==
    ASSUME query \in LexicalQueries, Stands(at), MaxScoreInvariant(at, block, order, essential, top),
           NextEssential # End, NEW given \in Nat, given < essential, MaxScoreDoc(NextEssential, given)
    PROVE  /\ Stands(at') /\ block' \in [Terms -> Nat]
           /\ \A t \in Terms : /\ at[t] <= at'[t] /\ block'[t] <= Blk(t, at'[t])
                               /\ \A e \in Docs(t) : e < at'[t] =>
                                     e < at[t] \/ e < NextEssential \/ (e = NextEssential /\ Place(t) >= essential)
                               /\ Place(t) >= essential => NextEssential < at'[t]
                               /\ given = 0 => NextEssential <= at'[t]
<1> DEFINE d0 == NextEssential
<1>1. /\ d0 \in Nat /\ d0 <= End
      /\ \A t \in Terms : Place(t) >= essential => d0 <= at[t]
      /\ Len(query.terms) \in Nat /\ essential \in 1 .. Len(query.terms) + 1
      /\ \A t \in Terms : Place(t) \in 1 .. Len(query.terms)
  BY MaxScoreFacts
<1>2. block \in [Terms -> Nat] /\ \A t \in Terms : block[t] <= Blk(t, at[t])
  BY DEF MaxScoreInvariant
<1>3. /\ at' = [t \in Terms |-> IF Place(t) >= essential THEN IF at[t] = d0 THEN NextDoc(t) ELSE at[t]
                                ELSE IF Place(t) > given THEN next_geq(t, d0) ELSE at[t]]
      /\ block' = [t \in Terms |-> Pointer(t, block[t], at'[t])]
  BY DEF MaxScoreDoc, MoveTo
<1> HIDE DEF d0
<1>4. ASSUME NEW t \in Terms
      PROVE  /\ at'[t] \in Docs(t) \cup {End} /\ at'[t] \in Nat /\ at[t] <= at'[t]
             /\ \A e \in Docs(t) : e < at'[t] => e < at[t] \/ e < d0 \/ (e = d0 /\ Place(t) >= essential)
             /\ Place(t) >= essential => d0 < at'[t]
             /\ given = 0 => d0 <= at'[t]
  <2>1. at[t] \in Nat /\ at[t] \in Docs(t) \cup {End} /\ \A e \in Docs(t) : e \in Nat
    BY QueryFacts, StandsFacts
  <2>2. CASE Place(t) >= essential /\ at[t] = d0
    <3>1. at'[t] = NextDoc(t) /\ at[t] # End
      BY <1>3, <2>2 DEF d0
    <3>2. /\ NextDoc(t) \in Docs(t) \cup {End} /\ NextDoc(t) \in Nat /\ at[t] < NextDoc(t)
          /\ \A d \in Docs(t) : d < NextDoc(t) => d <= at[t]
      BY <3>1, NextDocFacts
    <3>3. QED
      BY <1>1, <2>1, <2>2, <3>1, <3>2
  <2>3. CASE Place(t) >= essential /\ at[t] # d0
    <3>1. at'[t] = at[t]
      BY <1>3, <2>3
    <3>2. QED
      BY <1>1, <2>1, <2>3, <3>1
  <2>4. CASE ~(Place(t) >= essential) /\ Place(t) > given
    <3>1. at'[t] = next_geq(t, d0)
      BY <1>3, <2>4
    <3>2. /\ next_geq(t, d0) \in Docs(t) \cup {End} /\ next_geq(t, d0) \in Nat
          /\ at[t] <= next_geq(t, d0) /\ d0 <= next_geq(t, d0)
          /\ \A e \in Docs(t) : e < next_geq(t, d0) => e < at[t] \/ e < d0
      BY <1>1, <1>2, NextGeqFacts
    <3>3. QED
      BY <1>1, <2>1, <2>4, <3>1, <3>2
  <2>5. CASE ~(Place(t) >= essential) /\ ~(Place(t) > given)
    <3>1. at'[t] = at[t]
      BY <1>3, <2>5
    <3>2. given # 0
      BY <1>1, <2>5
    <3>3. QED
      BY <1>1, <2>1, <2>5, <3>1, <3>2
  <2>6. QED
    BY <2>2, <2>3, <2>4, <2>5
<1>5. ASSUME NEW t \in Terms PROVE block'[t] \in Nat /\ block'[t] <= Blk(t, at'[t])
  <2>1. at[t] \in Nat /\ block[t] \in Nat /\ block[t] <= Blk(t, at[t]) /\ at'[t] \in Nat /\ at[t] <= at'[t]
    BY <1>2, <1>4, StandsFacts
  <2>2. Blk(t, at'[t]) \in Nat /\ Blk(t, at[t]) \in Nat /\ Blk(t, at[t]) <= Blk(t, at'[t])
    BY <2>1, NumberFacts
  <2>3. block'[t] = Pointer(t, block[t], at'[t])
    BY <1>3
  <2>4. block'[t] = block[t] \/ block'[t] = Blk(t, at'[t])
    BY <2>3 DEF Pointer, Blk
  <2>5. QED
    BY <2>1, <2>2, <2>4
<1>6. at' \in [Terms -> Nat] /\ block' \in [Terms -> Nat]
  BY <1>3, <1>4, <1>5
<1>7. Stands(at')
  BY <1>4, <1>6 DEF Stands
<1>8. QED
  BY <1>4, <1>5, <1>6, <1>7 DEF d0

\* One document of MaxScore: scored in full, or given up when its bound says so.
LEMMA MaxScoreDocKeeps ==
    ASSUME LexicalInvariant, MaxScoreStep, NextEssential # End,
           MaxScoreDoc(NextEssential, PrunedAt(NextEssential)), Repartition
    PROVE  LexicalInvariant'
<1> DEFINE d0 == NextEssential
           given == PrunedAt(d0)
           n == Len(query.terms)
<1>1. /\ query \in LexicalQueries /\ query' = query /\ order' = order /\ query.algorithm = "maxscore" /\ searching
      /\ Stands(at) /\ Exact(at, top) /\ query.k > 0 /\ Terms # {}
      /\ MaxScoreInvariant(at, block, order, essential, top)
  BY DEF LexicalInvariant, MaxScoreStep
<1>2. /\ Listing([t \in Terms |-> Bound(t)], order) /\ n \in Nat
      /\ \A t \in Terms : Place(t) \in 1 .. n /\ order[Place(t)] = t
      /\ \A i \in 1 .. n : order[i] \in Terms /\ Place(order[i]) = i
      /\ Len(order) = n
      /\ essential \in 1 .. n + 1
      /\ essential > 1 => Beaten(top, Prefix(essential - 1))
      /\ d0 \in Nat /\ d0 <= End
      /\ \A t \in Terms : Place(t) >= essential => d0 <= at[t]
      /\ \E t \in Terms : Place(t) >= essential /\ at[t] = d0
      /\ \A t \in Terms : \A d \in Docs(t) : d < at[t] => \A u \in Terms : Place(u) >= essential => d < at[u]
  BY <1>1, MaxScoreFacts
<1>3. /\ PassedBy(at) \in SUBSET Matching
      /\ \A t \in Terms : at[t] \in Nat /\ at[t] <= End /\ (at[t] # End => at[t] \in Docs(t))
      /\ \A t \in Terms : \A d \in Docs(t) : d \in Matching /\ d \in Nat /\ (d < at[t] => d \in PassedBy(at))
  BY <1>1, StandsFacts
<1>4. block \in [Terms -> Nat] /\ (\A t \in Terms : block[t] <= Blk(t, at[t])) /\ \A h \in top : \A t \in Terms : h.doc <= at[t]
  BY <1>1 DEF MaxScoreInvariant
<1>5. given \in Nat /\ given < essential /\ (given > 0 => Beaten(top, Above(given, d0) + Prefix(given)))
  <2> DEFINE S == {i \in 1 .. essential - 1 : cannot_beat(Above(i, d0) + Prefix(i))}
  <2>1. given = Max({0} \cup S)
    BY DEF PrunedAt
  <2>2. {0} \cup S \in SUBSET Nat /\ {0} \cup S # {} /\ essential - 1 \in Nat /\ \A i \in {0} \cup S : i <= essential - 1
    BY <1>2
  <2>3. given \in {0} \cup S
    <3> HIDE DEF S, given
    <3> QED BY <2>1, <2>2, MaxFacts
  <2> HIDE DEF given
  <2>4. given \in Nat /\ given < essential
    BY <1>2, <2>2, <2>3
  <2>5. given > 0 => cannot_beat(Above(given, d0) + Prefix(given))
    BY <2>3
  <2>6. QED
    BY <2>4, <2>5 DEF cannot_beat, Beaten
<1> HIDE DEF d0, given
<1>6. /\ Stands(at') /\ block' \in [Terms -> Nat]
      /\ \A t \in Terms : /\ at[t] <= at'[t] /\ block'[t] <= Blk(t, at'[t])
                          /\ \A e \in Docs(t) : e < at'[t] =>
                                e < at[t] \/ e < d0 \/ (e = d0 /\ Place(t) >= essential)
                          /\ Place(t) >= essential => d0 < at'[t]
                          /\ given = 0 => d0 <= at'[t]
  BY <1>1, <1>5, MaxScoreMoves DEF d0, given
<1>7. /\ at' \in [Terms -> Nat] /\ PassedBy(at') \in SUBSET Matching
      /\ \A t \in Terms : at'[t] \in Nat
  BY <1>1, <1>6, StandsFacts
<1>8. PICK t0 \in Terms : Place(t0) >= essential /\ at[t0] = d0
  BY <1>2
<1>9. d0 \in Docs(t0) /\ d0 \in Matching /\ d0 \notin PassedBy(at)
  <2>1. d0 \in Docs(t0)
    BY <1>3, <1>8 DEF d0
  <2>2. d0 \notin PassedBy(at)
    BY <1>2, <1>8 DEF PassedBy
  <2>3. QED
    BY <1>3, <2>1, <2>2
<1>10. \A t \in Terms : d0 \in Docs(t) => at[t] <= d0 /\ next_geq(t, d0) = d0
  <2>1. SUFFICES ASSUME NEW t \in Terms, d0 \in Docs(t) PROVE at[t] <= d0 /\ next_geq(t, d0) = d0
    OBVIOUS
  <2>2. at[t] <= d0
    BY <1>2, <1>3, <1>9, <2>1
  <2>3. QED
    BY <1>1, <1>2, <1>4, <2>1, <2>2, NextGeqFacts
<1>11. /\ Above(0, d0) = Score(d0)
       /\ \A i \in 1 .. n : Above(i, d0) \in Nat /\ Score(d0) <= Above(i, d0) + Prefix(i)
  BY <1>1, <1>2, <1>10, AboveFacts
<1>12. top = Best(query.k, Scores(PassedBy(at)))
  BY <1>1 DEF Exact
<1>13. /\ \A h \in top : h.doc \in PassedBy(at)
       /\ \A d \in Nat \ PassedBy(at), m \in Nat, sum \in Nat :
             Beaten(top, sum) => Beaten(push(top, [doc |-> d, score |-> m]), sum)
       /\ \A hit : push(top, hit) \in SUBSET (top \cup {hit})
       /\ \A a, b \in Nat : a <= b /\ Beaten(top, b) => Beaten(top, a)
  BY <1>1, <1>3, <1>12, HeapFacts
<1>14. Score(d0) \in Nat /\ \A i \in 0 .. n : Prefix(i) \in Nat
  BY <1>1, <1>2, ScoreFacts, PrefixFacts
<1>15. PassedBy(at) \subseteq PassedBy(at') /\ d0 \in PassedBy(at')
  <2>1. PassedBy(at) \subseteq PassedBy(at')
    BY <1>3, <1>6, <1>7 DEF PassedBy
  <2>2. QED
    BY <1>6, <1>8, <1>9, <2>1 DEF PassedBy
<1>16. ASSUME NEW d \in PassedBy(at') \ PassedBy(at), d # d0
       PROVE  Beaten(top, Score(d)) /\ \A h \in top : h.doc < d
  <2>1. PICK t \in Terms : d \in Docs(t) /\ d < at'[t]
    <3>1. PICK t \in Terms : d \in Docs(t) /\ at'[t] > d
      BY DEF PassedBy
    <3>2. d \in Nat /\ at'[t] \in Nat
      BY <1>3, <1>7, <3>1
    <3>3. QED
      BY <3>1, <3>2
  <2>2. d < d0
    BY <1>3, <1>6, <1>16, <2>1
  <2>3. QED
    BY <1>1, <1>16, <2>1, <2>2, NonEssential DEF d0
<1>17. top' = IF given > 0 THEN top ELSE push(top, [doc |-> d0, score |-> Above(0, d0)])
  BY DEF MaxScoreDoc, d0, given
<1>18. Exact(at', top')
  <2>1. CASE given > 0
    <3>1. Beaten(top, Score(d0))
      <4>1. given \in 1 .. n
        BY <1>2, <1>5, <2>1
      <4>2. PICK a \in Nat : a = Above(given, d0)
        BY <1>11, <4>1
      <4>3. PICK b \in Nat : b = Prefix(given)
        BY <1>14, <4>1
      <4>4. Score(d0) <= a + b /\ Beaten(top, a + b)
        BY <1>5, <1>11, <2>1, <4>1, <4>2, <4>3
      <4>5. a + b \in Nat
        OBVIOUS
      <4>6. QED
        BY <1>13, <1>14, <4>4, <4>5
    <3>2. \A h \in top : h.doc < d0
      <4>1. SUFFICES ASSUME NEW h \in top PROVE h.doc < d0
        OBVIOUS
      <4>2. h.doc \in PassedBy(at) /\ h.doc # d0
        BY <1>9, <1>13
      <4>3. h.doc \in Nat
        BY <1>1, <1>3, <4>2, MatchingFacts
      <4>4. h.doc <= d0
        BY <1>4, <1>8
      <4>5. QED
        BY <1>2, <4>2, <4>3, <4>4
    <3>3. \A d \in PassedBy(at') \ PassedBy(at) : Beaten(top, Score(d)) /\ \A h \in top : h.doc < d
      BY <1>16, <3>1, <3>2
    <3>4. top = Best(query.k, Scores(PassedBy(at')))
      BY <1>1, <1>3, <1>7, <1>12, <1>15, <3>3, PassWorthless
    <3>5. QED
      BY <1>17, <2>1, <3>4 DEF Exact
  <2>2. CASE ~(given > 0)
    <3>1. PassedBy(at) \cup {d0} \subseteq PassedBy(at')
      BY <1>15
    <3>2. \A d \in PassedBy(at') \ (PassedBy(at) \cup {d0}) : Beaten(top, Score(d)) /\ \A h \in top : h.doc < d
      BY <1>16
    <3>3. push(top, [doc |-> d0, score |-> Score(d0)]) = Best(query.k, Scores(PassedBy(at')))
      BY <1>1, <1>3, <1>7, <1>9, <1>12, <3>1, <3>2, PassScored
    <3>4. QED
      BY <1>11, <1>17, <2>2, <3>3 DEF Exact
  <2>3. QED
    BY <2>1, <2>2
<1>19. \A sum \in Nat : Beaten(top, sum) => Beaten(top', sum)
  <2>1. CASE given > 0
    BY <1>17, <2>1
  <2>2. CASE ~(given > 0)
    BY <1>2, <1>9, <1>11, <1>13, <1>14, <1>17, <2>2
  <2>3. QED
    BY <2>1, <2>2
<1>20. /\ essential' \in 1 .. n + 1 /\ essential' >= essential
       /\ essential' > 1 => Beaten(top', Prefix(essential' - 1))
  <2>1. ASSUME essential' = essential
        PROVE  /\ essential' \in 1 .. n + 1 /\ essential' >= essential
               /\ essential' > 1 => Beaten(top', Prefix(essential' - 1))
    <3>1. essential > 1 => essential - 1 \in 0 .. n
      BY <1>2
    <3>2. QED
      BY <1>2, <1>14, <1>19, <2>1, <3>1
  <2>2. CASE top' = top \/ ~Full(top')
    <3>1. essential' = essential
      BY <2>2 DEF Repartition
    <3>2. QED
      BY <2>1, <3>1
  <2>3. CASE ~(top' = top \/ ~Full(top'))
    <3> DEFINE J == {j \in 1 .. n : Prefix(j) <= Worst(top').score}
               S == {essential} \cup {i + 1 : i \in J}
    <3>1. essential' = Max(S)
      BY <1>2, <2>3 DEF Repartition
    <3>2. S \in SUBSET Nat /\ S # {} /\ n + 1 \in Nat /\ \A i \in S : i <= n + 1 /\ i \in 1 .. n + 1
      BY <1>2
    <3>3. essential' \in S /\ \A i \in S : i <= essential'
      <4> HIDE DEF S
      <4> QED BY <3>1, <3>2, MaxFacts
    <3>4. essential' \in 1 .. n + 1 /\ essential' >= essential
      BY <1>2, <3>2, <3>3
    <3>5. CASE essential' = essential
      BY <2>1, <3>5
    <3>6. CASE essential' # essential
      <4>1. PICK i \in J : essential' = i + 1
        BY <3>3, <3>6
      <4>2. essential' - 1 = i
        BY <1>2, <4>1
      <4>3. Full(top') /\ Prefix(i) <= Worst(top').score
        BY <2>3, <4>1
      <4>4. QED
        BY <3>4, <4>2, <4>3 DEF Beaten
    <3>7. QED
      BY <3>5, <3>6
  <2>4. QED
    BY <2>2, <2>3
<1>21. \A i \in essential' .. n : \A t \in Terms : \A d \in Docs(t) : d < at'[t] => d < at'[order[i]]
  <2>1. SUFFICES ASSUME NEW i \in essential' .. n, NEW t \in Terms, NEW d \in Docs(t), d < at'[t]
                 PROVE  d < at'[order[i]]
    OBVIOUS
  <2>2. i \in 1 .. n /\ i >= essential
    BY <1>2, <1>20
  <2>3. PICK u \in Terms : u = order[i] /\ Place(u) >= essential
    BY <1>2, <2>2
  <2>4. d0 < at'[u] /\ at[u] <= at'[u] /\ d \in Nat /\ at[u] \in Nat /\ at'[u] \in Nat
    BY <1>3, <1>6, <1>7, <2>3
  <2>5. d < at[t] \/ d <= d0
    <3>1. d < at[t] \/ d < d0 \/ d = d0
      BY <1>6, <2>1
    <3>2. d0 \in Nat
      BY <1>2
    <3>3. QED
      BY <2>4, <3>1, <3>2
  <2>6. d < at[t] => d < at[u]
    BY <1>2, <2>3
  <2>7. QED
    BY <1>2, <2>3, <2>4, <2>5, <2>6
<1>22. \A h \in top' : \A t \in Terms : h.doc <= at'[t]
  <2>1. SUFFICES ASSUME NEW h \in top', NEW t \in Terms PROVE h.doc <= at'[t]
    OBVIOUS
  <2>2. CASE h \in top
    <3>1. h.doc <= at[t] /\ at[t] <= at'[t] /\ at[t] \in Nat /\ at'[t] \in Nat
      BY <1>3, <1>4, <1>6, <1>7, <2>2
    <3>2. h.doc \in Nat
      BY <1>1, <1>3, <1>13, <2>2, MatchingFacts
    <3>3. QED
      BY <3>1, <3>2
  <2>3. CASE h \notin top
    <3>1. ~(given > 0) /\ h = [doc |-> d0, score |-> Above(0, d0)]
      BY <1>13, <1>17, <2>1, <2>3
    <3>2. given = 0 /\ h.doc = d0
      BY <1>5, <3>1
    <3>3. QED
      BY <1>6, <3>2
  <2>4. QED
    BY <2>2, <2>3
<1>23. MaxScoreInvariant(at', block', order', essential', top')
  <2>1. essential' > 1 => Beaten(top', SumFunctionOnSet([j \in DOMAIN order |-> Bound(order[j])], 1 .. essential' - 1))
    BY <1>20 DEF Prefix
  <2>2. QED
    BY <1>1, <1>2, <1>6, <1>20, <1>21, <1>22, <2>1 DEF MaxScoreInvariant
<1>24. searching' = searching /\ cut' = cut
  BY DEF MaxScoreDoc, GoesOn
<1>25. QED
  BY <1>1, <1>6, <1>18, <1>23, <1>24, InvariantKept

\* MaxScore keeps the invariant.
LEMMA MaxScoreKeeps == ASSUME LexicalInvariant, MaxScoreStep PROVE LexicalInvariant'
<1>1. /\ query \in LexicalQueries /\ query' = query /\ query.algorithm = "maxscore" /\ searching
      /\ Stands(at) /\ Exact(at, top) /\ query.k > 0 /\ Terms # {}
  BY DEF LexicalInvariant, MaxScoreStep
<1>2. CASE NextEssential = End /\ Finish /\ UNCHANGED <<at, block, essential, top>>
  BY <1>2, MaxScoreEnds
<1>3. CASE NextEssential # End /\ Cut /\ UNCHANGED <<at, block, essential, top>>
  <2>1. at' = at /\ top' = top /\ ~searching' /\ cut'
    BY <1>3 DEF Cut
  <2>2. QED
    BY <1>1, <2>1, InvariantKept
<1>4. CASE /\ NextEssential # End /\ MaxScoreDoc(NextEssential, PrunedAt(NextEssential)) /\ Repartition
  BY <1>4, MaxScoreDocKeeps
<1>5. QED
  BY <1>2, <1>3, <1>4 DEF MaxScoreStep

-----------------------------------------------------------------------------
(* WAND. *)

\* What its invariant says of the lists and the pivot.
LEMMA WandFacts ==
    ASSUME query \in LexicalQueries, query.k > 0, Stands(at), Exact(at, top), WandInvariant(at, block, order, top)
    PROVE  /\ Listing(at, order) /\ Len(query.terms) \in Nat /\ DOMAIN order = 1 .. Len(query.terms)
           /\ \A t \in Terms : Place(t) \in 1 .. Len(query.terms) /\ order[Place(t)] = t
           /\ \A i \in 1 .. Len(query.terms) : order[i] \in Terms /\ Place(order[i]) = i /\ at[order[i]] \in Nat
           /\ \A i, j \in 1 .. Len(query.terms) : i <= j => at[order[i]] <= at[order[j]]
           /\ top = Best(query.k, Scores(PassedBy(at))) /\ PassedBy(at) \in SUBSET Matching
           /\ \A t \in Terms : at[t] \in Nat /\ at[t] <= End /\ (at[t] # End => at[t] \in Docs(t))
           /\ \A t \in Terms : \A d \in Docs(t) : /\ d \in Nat /\ d < End /\ d \in Matching
                                                  /\ (d < at[t] => d \in PassedBy(at))
                                                  /\ d < at[t] => (\A u \in Terms : d < at[u]) \/ Beaten(top, Score(d))
           /\ \A h \in top : \A t \in Terms : h.doc < at[t]
           /\ \A a, b \in Nat : a <= b /\ Beaten(top, b) => Beaten(top, a)
<1>1. /\ Listing(at, order) /\ NoneMissed(at, top) /\ \A h \in top : \A t \in Terms : h.doc < at[t]
  BY DEF WandInvariant
<1>2. /\ at \in [Terms -> Nat]
      /\ \A t \in Terms : at[t] \in Nat /\ at[t] <= End /\ (at[t] # End => at[t] \in Docs(t))
      /\ PassedBy(at) \in SUBSET Matching
      /\ \A t \in Terms : \A d \in Docs(t) : d \in Matching /\ d \in Nat /\ (d < at[t] => d \in PassedBy(at))
  BY StandsFacts
<1>3. /\ DOMAIN order = 1 .. Len(query.terms) /\ Len(query.terms) \in Nat
      /\ \A t \in Terms : Place(t) \in 1 .. Len(query.terms) /\ order[Place(t)] = t
      /\ \A i \in 1 .. Len(query.terms) : order[i] \in Terms /\ Place(order[i]) = i
      /\ \A i, j \in 1 .. Len(query.terms) : i <= j => at[order[i]] = at[order[j]] \/ at[order[i]] <= at[order[j]]
  BY <1>1, PlaceFacts, QueryFacts
<1>4. \A i \in 1 .. Len(query.terms) : at[order[i]] \in Nat
  BY <1>2, <1>3
<1>5. \A i, j \in 1 .. Len(query.terms) : i <= j => at[order[i]] <= at[order[j]]
  BY <1>3, <1>4
<1>6. top = Best(query.k, Scores(PassedBy(at)))
  BY DEF Exact
<1>7. \A a, b \in Nat : a <= b /\ Beaten(top, b) => Beaten(top, a)
  BY <1>2, <1>6, HeapFacts
<1>8. \A t \in Terms : \A d \in Docs(t) : d < End
  BY QueryFacts
<1>9. QED
  BY <1>1, <1>2, <1>3, <1>4, <1>5, <1>6, <1>7, <1>8 DEF NoneMissed

\* A document before all lists that could reach the heap cannot get in.
LEMMA Hopeless ==
    ASSUME query \in LexicalQueries, query.k > 0, Stands(at), Exact(at, top), WandInvariant(at, block, order, top),
           NEW t \in Terms, NEW d \in Docs(t), at[t] <= d, \A i \in Could : d < at[order[i]]
    PROVE  Beaten(top, Score(d))
<1> DEFINE n == Len(query.terms)
           I == {Place(u) : u \in {v \in Terms : d \in Docs(v)}}
<1>1. /\ Listing(at, order) /\ n \in Nat /\ DOMAIN order = 1 .. n
      /\ \A u \in Terms : Place(u) \in 1 .. n /\ order[Place(u)] = u
      /\ \A u \in Terms : at[u] \in Nat
      /\ \A u \in Terms : \A e \in Docs(u) : /\ e \in Nat /\ e < End
                                             /\ e < at[u] => (\A v \in Terms : e < at[v]) \/ Beaten(top, Score(e))
      /\ \A a, b \in Nat : a <= b /\ Beaten(top, b) => Beaten(top, a)
  BY WandFacts
<1>2. SUFFICES ASSUME ~Beaten(top, Score(d)) PROVE FALSE
  OBVIOUS
<1>3. \A u \in Terms : d \in Docs(u) => at[u] <= d
  <2>1. SUFFICES ASSUME NEW u \in Terms, d \in Docs(u), ~(at[u] <= d) PROVE FALSE
    OBVIOUS
  <2>2. d \in Nat /\ d < at[u] /\ at[t] \in Nat
    BY <1>1, <2>1
  <2>3. d < at[t]
    BY <1>1, <1>2, <2>1, <2>2
  <2>4. QED
    BY <2>2, <2>3
<1> HIDE DEF n
<1>4. I \in SUBSET Nat /\ I # {} /\ \A i \in I : i <= n
  BY <1>1
<1>5. PICK i \in I : \A j \in I : j <= i
  <2> HIDE DEF I
  <2>1. Max(I) \in I /\ \A j \in I : j <= Max(I)
    BY <1>1, <1>4, MaxFacts
  <2>2. QED
    BY <2>1
<1>6. PICK u \in Terms : d \in Docs(u) /\ i = Place(u)
  BY <1>5
<1>7. i \in 1 .. n /\ order[i] = u
  BY <1>1, <1>6
<1>8. at[order[i]] <= d /\ at[order[i]] # End
  BY <1>1, <1>3, <1>6, <1>7
<1>9. i \notin Could
  BY <1>1, <1>7, <1>8
<1>10. Beaten(top, Prefix(i))
  BY <1>1, <1>7, <1>8, <1>9 DEF Could, cannot_beat, Beaten
<1>11. Prefix(i) \in Nat /\ Score(d) <= Prefix(i) /\ Score(d) \in Nat
  <2>1. \A v \in Terms : d \in Docs(v) => Place(v) <= i
    BY <1>5
  <2>2. i \in 0 .. Len(query.terms)
    BY <1>1, <1>7 DEF n
  <2>3. QED
    BY <1>1, <2>1, <2>2, PrefixFacts, ScoreFacts
<1>12. QED
  BY <1>1, <1>2, <1>10, <1>11

\* No pivot: nothing that remains can get in.
LEMMA WandEnds ==
    ASSUME LexicalInvariant, WandStep, Could = {}, Finish, at' = at, top' = top
    PROVE  LexicalInvariant'
<1>1. /\ query \in LexicalQueries /\ query' = query /\ query.algorithm \in {"wand", "bmw"} /\ searching
      /\ Stands(at) /\ Exact(at, top) /\ query.k > 0 /\ Terms # {} /\ WandInvariant(at, block, order, top)
  BY DEF LexicalInvariant, WandStep
<1>2. ASSUME NEW d \in Matching \ PassedBy(at) PROVE Beaten(top, Score(d)) /\ \A h \in top : h.doc < d
  <2>1. PICK t \in Terms : d \in Docs(t)
    BY DEF Matching
  <2>2. /\ at[t] \in Nat /\ d \in Nat /\ (d < at[t] => d \in PassedBy(at)) /\ \A h \in top : h.doc < at[t]
        /\ \A h \in top : h.doc \in PassedBy(at)
    BY <1>1, <2>1, WandFacts, HeapFacts
  <2>3. at[t] <= d
    BY <1>2, <2>2
  <2>4. Beaten(top, Score(d))
    BY <1>1, <2>1, <2>3, Hopeless
  <2>5. \A h \in top : h.doc \in Nat
    BY <1>1, <2>2, WandFacts, MatchingFacts
  <2>6. QED
    BY <2>2, <2>3, <2>4, <2>5
<1>3. PassedBy(at) \in SUBSET Matching /\ top = Best(query.k, Scores(PassedBy(at)))
  BY <1>1, WandFacts
<1>4. top = Best(query.k, Scores(Matching))
  BY <1>1, <1>2, <1>3, PassWorthless
<1>5. ~searching'
  BY DEF Finish
<1>6. QED
  BY <1>1, <1>4, <1>5, InvariantKept

\* The pivot.
LEMMA PivotFacts ==
    ASSUME query \in LexicalQueries, query.k > 0, Stands(at), Exact(at, top), WandInvariant(at, block, order, top),
           Could # {}
    PROVE  /\ PivotDoc \in Nat /\ PivotDoc # End /\ PivotDoc < End
           /\ Pivot \in 1 .. Len(query.terms) /\ at[order[Pivot]] = PivotDoc /\ PivotDoc \in Docs(order[Pivot])
           /\ \A t \in Terms : (Place(t) <= Pivot => at[t] <= PivotDoc) /\ (Place(t) > Pivot => PivotDoc < at[t])
           /\ \A i \in Could : PivotDoc <= at[order[i]]
<1> DEFINE n == Len(query.terms)
           S == {i \in DOMAIN order : at[order[i]] = PivotDoc}
<1>1. /\ n \in Nat /\ DOMAIN order = 1 .. n
      /\ \A u \in Terms : Place(u) \in 1 .. n /\ order[Place(u)] = u
      /\ \A i \in 1 .. n : order[i] \in Terms /\ at[order[i]] \in Nat
      /\ \A i, j \in 1 .. n : i <= j => at[order[i]] <= at[order[j]]
      /\ \A t \in Terms : at[t] <= End /\ (at[t] # End => at[t] \in Docs(t))
  BY WandFacts
<1>2. End \in Nat
  BY QueryFacts
<1>3. Could \in SUBSET (1 .. n) /\ \A i \in Could : at[order[i]] # End
  BY <1>1 DEF Could
<1> HIDE DEF n
<1>4. Min(Could) \in Could /\ \A i \in Could : Min(Could) <= i
  <2>1. Could \in SUBSET Nat
    BY <1>3
  <2>2. QED
    BY <2>1, MinFacts
<1>5. PICK m \in 1 .. n : m = Min(Could)
  BY <1>3, <1>4
<1>6. PivotDoc = at[order[m]]
  BY <1>5 DEF PivotDoc
<1>7. PivotDoc \in Nat /\ PivotDoc # End /\ PivotDoc < End
  BY <1>1, <1>2, <1>3, <1>4, <1>5, <1>6
<1>8. \A i \in Could : PivotDoc <= at[order[i]]
  BY <1>1, <1>3, <1>4, <1>5, <1>6
<1>9. S \in SUBSET Nat /\ m \in S /\ \A i \in S : i <= n
  BY <1>1, <1>6
<1>10. Pivot \in S /\ \A i \in S : i <= Pivot
  <2>1. Pivot = Max(S)
    BY DEF Pivot
  <2> HIDE DEF S
  <2>2. QED
    BY <1>1, <1>9, <2>1, MaxFacts
<1>11. PICK p \in 1 .. n : p = Pivot /\ at[order[p]] = PivotDoc
  BY <1>1, <1>10
<1>12. \A t \in Terms : (Place(t) <= p => at[t] <= PivotDoc) /\ (Place(t) > p => PivotDoc < at[t])
  <2>1. SUFFICES ASSUME NEW t \in Terms
                 PROVE  (Place(t) <= p => at[t] <= PivotDoc) /\ (Place(t) > p => PivotDoc < at[t])
    OBVIOUS
  <2>2. PICK i \in 1 .. n : i = Place(t) /\ order[i] = t
    BY <1>1
  <2>3. i <= p => at[t] <= PivotDoc
    BY <1>1, <1>11, <2>2
  <2>4. i > p => PivotDoc < at[t]
    <3>1. SUFFICES ASSUME i > p PROVE PivotDoc < at[t]
      OBVIOUS
    <3>2. at[order[p]] <= at[order[i]]
      BY <1>1, <3>1
    <3>3. i \notin S
      <4> HIDE DEF S
      <4>1. \A j \in S : j <= p
        BY <1>10, <1>11
      <4>2. ~(i <= p)
        BY <1>1, <3>1
      <4>3. QED
        BY <4>1, <4>2
    <3>4. at[order[i]] # PivotDoc
      BY <1>1, <3>3
    <3>5. QED
      BY <1>1, <1>7, <1>11, <2>2, <3>2, <3>4
  <2>5. QED
    BY <2>2, <2>3, <2>4
<1>13. PivotDoc \in Docs(order[p])
  BY <1>1, <1>7, <1>11
<1>14. QED
  BY <1>7, <1>8, <1>11, <1>12, <1>13 DEF n

\* Where the block pointers are.
LEMMA ShallowFacts ==
    ASSUME query \in LexicalQueries, query.k > 0, Stands(at), Exact(at, top), WandInvariant(at, block, order, top),
           Could # {}
    PROVE  /\ Pointed(at, Shallow(Pivot), top)
           /\ \A t \in Terms : Place(t) <= Pivot /\ PivotDoc \in Docs(t) => Blk(t, PivotDoc) <= Shallow(Pivot)[t]
<1> DEFINE x == PivotDoc
           to == Shallow(Pivot)
<1>1. /\ x \in Nat /\ x < End /\ \A i \in Could : x <= at[order[i]]
  BY PivotFacts
<1>2. /\ \A t \in Terms : at[t] \in Nat
      /\ \A t \in Terms : \A d \in Docs(t) : d \in Nat /\ d < End
  BY WandFacts
<1>3. block \in [Terms -> Nat] /\ \A t \in Terms : \A d \in Docs(t) : Blk(t, d) < block[t] => d < at[t] \/ Beaten(top, Score(d))
  BY DEF WandInvariant, Pointed
<1>4. BlockSize \in Nat \ {0} /\ End \in Nat
  BY QueryFacts
<1>5. to = [t \in Terms |-> IF Place(t) <= Pivot THEN find_block(t, block[t], x) ELSE block[t]]
  BY DEF Shallow
<1> HIDE DEF x, to
<1>6. ASSUME NEW t \in Terms
      PROVE  /\ find_block(t, block[t], x) \in Nat
             /\ \A d \in Docs(t) : Blk(t, d) < find_block(t, block[t], x) => Blk(t, d) < block[t] \/ d < x
             /\ x \in Docs(t) => Blk(t, x) <= find_block(t, block[t], x)
  <2>1. PICK g \in Nat : g = Geq(t, x, 0)
    BY <1>1, GeqFacts
  <2>2. g \in Docs(t) \cup {End} /\ g >= x /\ \A e \in Docs(t) : x <= e /\ e < g => Blk(t, e) < 0
    <3>1. x \in Nat /\ x <= End /\ 0 \in Nat
      BY <1>1, <1>4
    <3>2. LET h == Geq(t, x, 0)
          IN  /\ h \in Docs(t) \cup {End} /\ h \in Nat
              /\ h # End => h >= x
              /\ x <= End => h >= x
              /\ \A e \in Docs(t) : x <= e /\ e < h => Blk(t, e) < 0
      BY ONLY query \in LexicalQueries, t \in Terms, <3>1, GeqFacts
    <3>3. QED
      BY <2>1, <3>1, <3>2
  <2>3. \A e \in Docs(t) : Blk(t, e) \in Nat
    BY <1>2, NumberFacts
  <2>4. \A e \in Docs(t) : e < g => e < x
    BY <1>1, <1>2, <2>2, <2>3
  <2>5. CASE g = End
    <3>1. find_block(t, block[t], x) = (Cardinality(Docs(t)) + BlockSize - 1) \div BlockSize
      BY <2>1, <2>5 DEF find_block
    <3>2. IsFiniteSet(Docs(t))
      BY QueryFacts
    <3>3. PICK c \in Nat : c = Cardinality(Docs(t)) + BlockSize - 1
      BY <1>4, <3>2, FS_CardinalityType
    <3>4. c \div BlockSize \in Nat
      BY <1>4, Quotients
    <3>5. x \notin Docs(t)
      BY <1>1, <1>2, <2>4, <2>5
    <3>6. \A d \in Docs(t) : d < x
      BY <1>2, <2>4, <2>5
    <3>7. QED
      BY <3>1, <3>3, <3>4, <3>5, <3>6
  <2>6. CASE g # End
    <3> DEFINE S == {block[t], Blk(t, g)}
    <3>1. find_block(t, block[t], x) = Max(S)
      BY <2>1, <2>6 DEF find_block, Blk
    <3>2. g \in Docs(t) /\ Blk(t, g) \in Nat /\ block[t] \in Nat
      BY <1>3, <2>2, <2>3, <2>6
    <3>3. S \in SUBSET Nat /\ S # {}
      BY <3>2
    <3>4. \E m \in Nat : \A d \in S : d <= m
      BY <3>2
    <3>5. Max(S) \in S /\ \A d \in S : d <= Max(S)
      <4> HIDE DEF S
      <4> QED BY <3>3, <3>4, MaxFacts
    <3>6. PICK b \in Nat : b = find_block(t, block[t], x) /\ (b = block[t] \/ b = Blk(t, g)) /\ Blk(t, g) <= b
      BY <3>1, <3>2, <3>5
    <3>7. \A d \in Docs(t) : Blk(t, d) < Blk(t, g) => d < x
      <4>1. SUFFICES ASSUME NEW d \in Docs(t), Blk(t, d) < Blk(t, g) PROVE d < x
        OBVIOUS
      <4>2. d \in Nat /\ Blk(t, d) \in Nat /\ Blk(t, g) \in Nat /\ (g <= d => Blk(t, g) <= Blk(t, d))
        BY <1>2, <2>3, <3>2, NumberFacts
      <4>3. d < g
        BY <4>1, <4>2
      <4>4. QED
        BY <2>4, <4>3
    <3>8. x \in Docs(t) => g = x
      BY <1>1, <2>2, <2>4
    <3>9. QED
      BY <3>6, <3>7, <3>8
  <2>7. QED
    BY <2>5, <2>6
<1>7. to \in [Terms -> Nat]
  BY <1>3, <1>5, <1>6
<1>8. ASSUME NEW t \in Terms, NEW d \in Docs(t), Blk(t, d) < to[t] PROVE d < at[t] \/ Beaten(top, Score(d))
  <2>1. Blk(t, d) < block[t] \/ d < x
    BY <1>5, <1>6, <1>8
  <2>2. CASE Blk(t, d) < block[t]
    BY <1>3, <2>2
  <2>3. CASE d < x
    <3>1. SUFFICES ASSUME ~(d < at[t]) PROVE Beaten(top, Score(d))
      OBVIOUS
    <3>2. at[t] <= d
      BY <1>2, <3>1
    <3>3. \A i \in Could : at[order[i]] \in Nat
      BY WandFacts DEF Could
    <3>4. \A i \in Could : d < at[order[i]]
      BY <1>1, <1>2, <2>3, <3>3
    <3>5. QED
      BY <3>2, <3>4, Hopeless
  <2>4. QED
    BY <2>1, <2>2, <2>3
<1>9. Pointed(at, to, top)
  BY <1>7, <1>8 DEF Pointed
<1>10. \A t \in Terms : Place(t) <= Pivot /\ x \in Docs(t) => Blk(t, x) <= to[t]
  BY <1>5, <1>6
<1>11. QED
  BY <1>9, <1>10 DEF x, to

\* A list moves on past documents that cannot get in.
LEMMA AdvanceKeeps ==
    ASSUME query \in LexicalQueries, query.k > 0, Stands(at), Exact(at, top), WandInvariant(at, block, order, top),
           NEW to, Pointed(at, to, top), NEW t \in Terms, NEW d \in Nat, at[t] <= d,
           \A e \in Docs(t) : at[t] <= e /\ e < d => Beaten(top, Score(e)), Advance(t, d, to)
    PROVE  Stands(at') /\ Exact(at', top') /\ WandInvariant(at', block', order', top')
<1>1. /\ Listing(at, order) /\ PassedBy(at) \in SUBSET Matching /\ top = Best(query.k, Scores(PassedBy(at)))
      /\ \A u \in Terms : at[u] \in Nat /\ at[u] <= End
      /\ \A u \in Terms : \A e \in Docs(u) : /\ e \in Nat /\ e < End /\ e \in Matching
                                             /\ e < at[u] => (\A v \in Terms : e < at[v]) \/ Beaten(top, Score(e))
      /\ \A h \in top : \A u \in Terms : h.doc < at[u]
  BY WandFacts
<1>2. /\ to \in [Terms -> Nat]
      /\ \A u \in Terms : \A e \in Docs(u) : Blk(u, e) < to[u] => e < at[u] \/ Beaten(top, Score(e))
  BY DEF Pointed
<1>3. at \in [Terms -> Nat] /\ \A u \in Terms : at[u] \in Docs(u) \cup {End}
  BY DEF Stands
<1>4. PICK g \in Nat : g = Geq(t, d, to[t])
  BY <1>2, GeqFacts
<1>5. /\ g \in Docs(t) \cup {End} /\ (g # End => g >= d)
      /\ \A e \in Docs(t) : d <= e /\ e < g => Blk(t, e) < to[t]
  BY <1>2, <1>4, GeqFacts
<1>6. /\ at' = [at EXCEPT ![t] = g]
      /\ block' = [to EXCEPT ![t] = IF g = End THEN to[t] ELSE Blk(t, g)]
      /\ order' = ByDoc(at') /\ top' = top
  BY <1>2, <1>4 DEF Advance, Blk
<1>7. at[t] <= g
  BY <1>1, <1>5
<1>8. \A u \in Terms : at'[u] = IF u = t THEN g ELSE at[u]
  BY <1>3, <1>6
<1>9. \A e \in Docs(t) : e < g => e < at[t] \/ Beaten(top, Score(e))
  <2>1. SUFFICES ASSUME NEW e \in Docs(t), e < g, ~(e < at[t]) PROVE Beaten(top, Score(e))
    OBVIOUS
  <2>2. e \in Nat /\ at[t] \in Nat
    BY <1>1
  <2>3. CASE e < d
    BY <2>1, <2>2, <2>3
  <2>4. CASE ~(e < d)
    BY <1>2, <1>5, <2>1, <2>2, <2>4
  <2>5. QED
    BY <2>3, <2>4
<1>10. \A u \in Terms : /\ at'[u] \in Nat /\ at'[u] \in Docs(u) \cup {End} /\ at[u] <= at'[u]
                        /\ \A e \in Docs(u) : e < at'[u] => e < at[u] \/ (u = t /\ Beaten(top, Score(e)))
  BY <1>1, <1>3, <1>5, <1>7, <1>8, <1>9
<1>11. at' \in [Terms -> Nat]
  BY <1>3, <1>6
<1>12. Stands(at')
  BY <1>10, <1>11 DEF Stands
<1>13. Exact(at', top')
  <2>1. PassedBy(at') \in SUBSET Matching
    BY <1>1 DEF PassedBy
  <2>2. PassedBy(at) \subseteq PassedBy(at')
    <3>1. SUFFICES ASSUME NEW e \in Matching, NEW u \in Terms, e \in Docs(u), at[u] > e PROVE at'[u] > e
      BY DEF PassedBy
    <3>2. e \in Nat /\ at[u] \in Nat /\ at'[u] \in Nat /\ at[u] <= at'[u]
      BY <1>1, <1>10, <3>1
    <3>3. QED
      BY <3>1, <3>2
  <2>3. ASSUME NEW e \in PassedBy(at') \ PassedBy(at) PROVE Beaten(top, Score(e)) /\ \A h \in top : h.doc < e
    <3>1. PICK u \in Terms : e \in Docs(u) /\ at'[u] > e
      BY DEF PassedBy
    <3>2. e \in Nat /\ at[u] \in Nat /\ at'[u] \in Nat /\ e \in Matching
      BY <1>1, <1>10, <3>1
    <3>3. ~(e < at[u])
      BY <2>3, <3>1, <3>2 DEF PassedBy
    <3>4. Beaten(top, Score(e))
      BY <1>10, <3>1, <3>2, <3>3
    <3>5. ASSUME NEW h \in top PROVE h.doc < e
      <4>1. h.doc < at[u] /\ h.doc \in PassedBy(at)
        BY <1>1, HeapFacts
      <4>2. h.doc \in Nat
        BY <1>1, <4>1, MatchingFacts
      <4>3. QED
        BY <3>2, <3>3, <4>1, <4>2
    <3>6. QED
      BY <3>4, <3>5
  <2>4. top = Best(query.k, Scores(PassedBy(at')))
    BY <1>1, <2>1, <2>2, <2>3, PassWorthless
  <2>5. QED
    BY <1>6, <2>4 DEF Exact
<1>14. Listing(at', order')
  BY <1>1, <1>6, <1>11, ByDocLists
<1>15. \A h \in top' : \A u \in Terms : h.doc < at'[u]
  <2>1. SUFFICES ASSUME NEW h \in top, NEW u \in Terms PROVE h.doc < at'[u]
    BY <1>6
  <2>2. h.doc < at[u] /\ h.doc \in PassedBy(at)
    BY <1>1, HeapFacts
  <2>3. h.doc \in Nat
    BY <1>1, <2>2, MatchingFacts
  <2>4. QED
    BY <1>1, <1>10, <2>2, <2>3
<1>16. NoneMissed(at', top')
  <2>1. SUFFICES ASSUME NEW u \in Terms, NEW e \in Docs(u), e < at'[u], ~Beaten(top, Score(e)), NEW v \in Terms
                 PROVE  e < at'[v]
    BY <1>6 DEF NoneMissed
  <2>2. e < at[u]
    BY <1>10, <2>1
  <2>3. e < at[v]
    BY <1>1, <2>1, <2>2
  <2>4. QED
    BY <1>1, <1>10, <2>3
<1>17. Pointed(at', block', top')
  <2>1. Blk(t, g) \in Nat
    BY NumberFacts
  <2>2. block' \in [Terms -> Nat]
    BY <1>2, <1>6, <2>1
  <2>3. SUFFICES ASSUME NEW u \in Terms, NEW e \in Docs(u), Blk(u, e) < block'[u], ~Beaten(top, Score(e))
                 PROVE  e < at'[u]
    BY <1>6, <2>2 DEF Pointed
  <2>4. e \in Nat /\ e < End /\ at[u] \in Nat /\ at'[u] \in Nat /\ at[u] <= at'[u]
    BY <1>1, <1>10
  <2>5. CASE u # t
    <3>1. block'[u] = to[u]
      BY <1>2, <1>6, <2>5
    <3>2. QED
      BY <1>2, <2>3, <2>4, <3>1
  <2>6. CASE u = t /\ g = End
    BY <1>8, <2>4, <2>6
  <2>7. CASE u = t /\ g # End
    <3>1. block'[t] = Blk(t, g)
      BY <1>2, <1>6, <2>7
    <3>2. Blk(t, e) \in Nat /\ (g <= e => Blk(t, g) <= Blk(t, e))
      BY <2>4, <2>7, NumberFacts
    <3>3. e < g
      BY <2>1, <2>3, <2>4, <2>7, <3>1, <3>2
    <3>4. QED
      BY <1>8, <2>7, <3>3
  <2>8. QED
    BY <2>5, <2>6, <2>7
<1>18. QED
  BY <1>12, <1>13, <1>14, <1>15, <1>16, <1>17 DEF WandInvariant

LEMMA AdvancedFacts ==
    ASSUME query \in LexicalQueries, NEW to, Listing(to, order), NEW p \in 1 .. Len(query.terms)
    PROVE  Advanced(p) \in 1 .. p
<1> DEFINE larger == {i \in 1 .. p : Bound(order[i]) > Bound(order[p])}
           largest == {i \in larger : \A j \in larger : Bound(order[j]) <= Bound(order[i])}
           f == [i \in larger |-> Bound(order[i])]
           values == {f[i] : i \in larger}
<1>1. Advanced(p) = IF larger = {} THEN p ELSE Min(largest)
  BY DEF Advanced
<1>2. \A i \in 1 .. p : Bound(order[i]) \in Nat
  <2>1. \A i \in 1 .. p : i \in 1 .. Len(query.terms)
    BY QueryFacts
  <2>2. QED
    BY <2>1, PlaceFacts, AddsFacts
<1>3. CASE larger = {}
  BY <1>1, <1>3
<1>4. CASE larger # {}
  <2>1. IsFiniteSet(larger)
    <3>1. larger \in SUBSET (1 .. p) /\ IsFiniteSet(1 .. p)
      BY UpToFinite
    <3>2. QED
      BY <3>1, FS_Subset
  <2>2. values \in SUBSET Nat /\ values # {} /\ f \in Surjection(larger, values)
    BY <1>2, <1>4 DEF Surjection
  <2>3. \A i \in larger : f[i] = Bound(order[i]) /\ i \in 1 .. p /\ i \in Nat
    OBVIOUS
  <2>4. \E i \in larger : \A j \in larger : f[j] <= f[i]
    <3>1. \A i \in larger : f[i] \in values
      OBVIOUS
    <3>2. \A v \in values : \E i \in larger : v = f[i]
      OBVIOUS
    <3> HIDE DEF values, f, larger
    <3>3. IsFiniteSet(values)
      BY <2>1, <2>2, FS_Surjection
    <3>4. Max(values) \in values /\ \A v \in values : v <= Max(values)
      BY <2>2, <3>3, FiniteMax
    <3>5. QED
      BY <3>1, <3>2, <3>4
  <2> HIDE DEF f, values
  <2>5. largest # {} /\ largest \in SUBSET Nat /\ largest \in SUBSET (1 .. p)
    BY <2>3, <2>4
  <2>6. Min(largest) \in largest
    <3> HIDE DEF largest
    <3> QED BY <2>5, MinFacts
  <2>7. QED
    BY <1>1, <1>4, <2>5, <2>6
<1>5. QED
  BY <1>3, <1>4

\* Where block-max WAND skips to, no later than the end of a block or the next list.
LEMMA SkipFacts ==
    ASSUME query \in LexicalQueries, query.k > 0, Stands(at), Exact(at, top), WandInvariant(at, block, order, top),
           Could # {}, NEW to \in [Terms -> Nat]
    PROVE  /\ SkipTo(Pivot, to) \in Nat /\ PivotDoc < SkipTo(Pivot, to)
           /\ \A d \in Nat : d < SkipTo(Pivot, to) /\ PivotDoc < d =>
                 \A t \in Terms : /\ Place(t) <= Pivot => d < 1 + BlockLast(t, to[t])
                                  /\ Place(t) > Pivot => d < at[t]
<1> DEFINE n == Len(query.terms)
           x == PivotDoc
           p == Pivot
           blocks == {1 + BlockLast(order[j], to[order[j]]) : j \in 1 .. p}
           lists == {at[order[j]] : j \in {i \in DOMAIN order : i = p + 1}}
           next == blocks \cup lists
           s == SkipTo(p, to)
<1>1. /\ n \in Nat /\ DOMAIN order = 1 .. n
      /\ \A t \in Terms : Place(t) \in 1 .. n /\ order[Place(t)] = t
      /\ \A i \in 1 .. n : order[i] \in Terms /\ at[order[i]] \in Nat
      /\ \A i, j \in 1 .. n : i <= j => at[order[i]] <= at[order[j]]
      /\ \A t \in Terms : at[t] \in Nat
  BY WandFacts
<1>2. x \in Nat /\ p \in 1 .. n
  BY PivotFacts
<1>3. \A t \in Terms : 1 + BlockLast(t, to[t]) \in Nat
  <2>1. SUFFICES ASSUME NEW t \in Terms PROVE 1 + BlockLast(t, to[t]) \in Nat
    OBVIOUS
  <2>2. Docs(t) \in SUBSET Nat /\ End \in Nat
    BY QueryFacts
  <2>3. BlockDocs(t, to[t]) # {} => BlockLast(t, to[t]) \in Nat
    BY <2>2, BlockFacts DEF BlockDocs
  <2>4. BlockDocs(t, to[t]) = {} => BlockLast(t, to[t]) = End - 1
    BY DEF BlockLast
  <2>5. QED
    BY <2>2, <2>3, <2>4
<1>4. s = Max({x + 1, Min(next)})
  BY DEF SkipTo
<1> HIDE DEF n, x, p
<1>5. blocks \in SUBSET Nat /\ lists \in SUBSET Nat /\ blocks # {}
  <2>1. \A j \in 1 .. p : j \in 1 .. n
    BY <1>1, <1>2
  <2>2. blocks \in SUBSET Nat
    BY <1>1, <1>3, <2>1
  <2>3. lists \in SUBSET Nat
    BY <1>1
  <2>4. 1 + BlockLast(order[p], to[order[p]]) \in blocks
    BY <1>2
  <2>5. QED
    BY <2>2, <2>3, <2>4
<1>6. \A t \in Terms : Place(t) <= p => 1 + BlockLast(t, to[t]) \in blocks
  BY <1>1, <1>2
<1>7. \A t \in Terms : Place(t) > p => \E b \in lists : b <= at[t]
  <2>1. SUFFICES ASSUME NEW t \in Terms, Place(t) > p PROVE \E b \in lists : b <= at[t]
    OBVIOUS
  <2>2. p + 1 \in 1 .. n /\ p + 1 <= Place(t)
    BY <1>1, <1>2, <2>1
  <2>3. at[order[p + 1]] \in lists
    BY <1>1, <2>2
  <2>4. at[order[p + 1]] <= at[order[Place(t)]]
    BY <1>1, <2>2
  <2>5. QED
    BY <1>1, <2>3, <2>4
<1> HIDE DEF blocks, lists, s
<1>8. next \in SUBSET Nat /\ next # {}
  BY <1>5
<1>9. Min(next) \in Nat /\ \A b \in next : Min(next) <= b
  <2> HIDE DEF next
  <2> QED BY <1>8, MinFacts
<1>10. PICK m \in Nat : m = Min(next)
  BY <1>9
<1>11. s \in Nat /\ x + 1 <= s /\ (s = x + 1 \/ s = m)
  <2> DEFINE S == {x + 1, m}
  <2>1. S \in SUBSET Nat /\ S # {} /\ \E b \in Nat : \A d \in S : d <= b
    BY <1>2
  <2>2. Max(S) \in S /\ \A d \in S : d <= Max(S)
    <3> HIDE DEF S
    <3> QED BY <2>1, MaxFacts
  <2>3. s = Max(S)
    BY <1>4, <1>10
  <2>4. QED
    BY <1>2, <2>1, <2>2, <2>3
<1>12. ASSUME NEW d \in Nat, d < s, x < d, NEW t \in Terms
       PROVE  (Place(t) <= p => d < 1 + BlockLast(t, to[t])) /\ (Place(t) > p => d < at[t])
  <2>1. s = m
    BY <1>2, <1>11, <1>12
  <2>2. \A b \in next : b \in Nat /\ d < b
    BY <1>8, <1>9, <1>10, <1>12, <2>1
  <2>3. Place(t) <= p => d < 1 + BlockLast(t, to[t])
    BY <1>6, <2>2
  <2>4. Place(t) > p => d < at[t]
    <3>1. SUFFICES ASSUME Place(t) > p PROVE d < at[t]
      OBVIOUS
    <3>2. PICK b \in lists : b <= at[t]
      BY <1>7, <3>1
    <3>3. b \in Nat /\ d < b /\ at[t] \in Nat
      BY <1>1, <2>2, <3>2
    <3>4. QED
      BY <3>2, <3>3
  <2>5. QED
    BY <2>3, <2>4
<1>13. QED
  BY <1>2, <1>11, <1>12 DEF x, p, s

\* Block-max WAND: the pivot's blocks cannot beat the heap, up to where it skips.
LEMMA WandSkipKeeps ==
    ASSUME query \in LexicalQueries, query.k > 0, Stands(at), Exact(at, top), WandInvariant(at, block, order, top),
           Could # {}, WandSkip(Pivot, Shallow(Pivot))
    PROVE  Stands(at') /\ Exact(at', top') /\ WandInvariant(at', block', order', top')
<1> DEFINE n == Len(query.terms)
           x == PivotDoc
           p == Pivot
           to == Shallow(p)
           a == Advanced(p)
           s == SkipTo(p, to)
<1>1. /\ Listing(at, order) /\ n \in Nat
      /\ \A t \in Terms : Place(t) \in 1 .. n
      /\ \A i \in 1 .. n : order[i] \in Terms /\ Place(order[i]) = i
      /\ \A t \in Terms : at[t] \in Nat
      /\ \A t \in Terms : \A d \in Docs(t) : /\ d \in Nat
                                             /\ d < at[t] => (\A u \in Terms : d < at[u]) \/ Beaten(top, Score(d))
      /\ \A b, c \in Nat : b <= c /\ Beaten(top, c) => Beaten(top, b)
  BY WandFacts
<1>2. /\ x \in Nat /\ p \in 1 .. n /\ at[order[p]] = x
      /\ \A t \in Terms : (Place(t) <= p => at[t] <= x) /\ (Place(t) > p => x < at[t])
      /\ \A i \in Could : x <= at[order[i]]
  BY PivotFacts
<1>3. Pointed(at, to, top) /\ \A t \in Terms : Place(t) <= p /\ x \in Docs(t) => Blk(t, x) <= to[t]
  BY ShallowFacts
<1>4. to \in [Terms -> Nat] /\ \A t \in Terms : \A d \in Docs(t) : Blk(t, d) < to[t] => d < at[t] \/ Beaten(top, Score(d))
  BY <1>3 DEF Pointed
<1> HIDE DEF to
<1>5. /\ s \in Nat /\ x < s
      /\ \A d \in Nat : d < s /\ x < d =>
            \A t \in Terms : (Place(t) <= p => d < 1 + BlockLast(t, to[t])) /\ (Place(t) > p => d < at[t])
  BY <1>4, SkipFacts
<1>6. a \in 1 .. p
  BY <1>1, <1>2, AdvancedFacts
<1>7. Advance(order[a], s, to) /\ Beaten(top, BlockSum(p, to))
  BY DEF WandSkip, Skips, cannot_beat, Beaten, to
<1> HIDE DEF n, x, p, a, s
<1>8. PICK t \in Terms : t = order[a] /\ Place(t) <= p
  BY <1>1, <1>2, <1>6
<1>9. at[t] <= s
  BY <1>1, <1>2, <1>5, <1>8
<1>10. ASSUME NEW d \in Docs(t), at[t] <= d, d < s PROVE Beaten(top, Score(d))
  <2>1. d \in Nat
    BY <1>1
  <2>2. CASE d < x
    <3>1. \A i \in Could : at[order[i]] \in Nat
      BY WandFacts DEF Could
    <3>2. \A i \in Could : d < at[order[i]]
      BY <1>2, <2>1, <2>2, <3>1
    <3>3. QED
      BY <1>10, <3>2, Hopeless
  <2>3. CASE ~(d < x)
    <3>1. SUFFICES ASSUME ~Beaten(top, Score(d)) PROVE FALSE
      OBVIOUS
    <3>2. ASSUME NEW u \in Terms, d \in Docs(u) PROVE Place(u) <= p /\ Adds(u, d) <= BlockBound(u, to[u])
      <4>1. ~(d < at[u])
        <5>1. ~(d < at[order[p]]) /\ order[p] \in Terms
          BY <1>1, <1>2, <2>3
        <5>2. QED
          BY <1>1, <3>1, <3>2, <5>1
      <4>2. at[u] \in Nat /\ Blk(u, d) \in Nat /\ to[u] \in Nat /\ Place(u) \in Nat /\ p \in Nat
        BY <1>1, <1>2, <1>4, <2>1, NumberFacts
      <4>3. Place(u) <= p
        BY <1>2, <1>5, <1>10, <2>1, <2>3, <4>1, <4>2
      <4>4. to[u] <= Blk(u, d)
        BY <1>4, <3>1, <3>2, <4>1, <4>2
      <4>5. d < 1 + BlockLast(u, to[u]) \/ Blk(u, d) <= to[u]
        BY <1>2, <1>3, <1>5, <1>10, <2>1, <2>3, <3>2, <4>3
      <4>6. QED
        BY <3>2, <4>2, <4>3, <4>4, <4>5, InBlock
    <3>3. BlockSum(p, to) \in Nat /\ Score(d) <= BlockSum(p, to) /\ Score(d) \in Nat
      BY <1>1, <1>2, <1>4, <3>2, BlockSumFacts, ScoreFacts DEF n
    <3>4. QED
      BY <1>1, <1>7, <3>1, <3>3
  <2>4. QED
    BY <2>2, <2>3
<1>11. QED
  BY <1>3, <1>5, <1>7, <1>8, <1>9, <1>10, AdvanceKeeps

\* A list before the pivot moves up to it.
LEMMA WandAdvanceKeeps ==
    ASSUME query \in LexicalQueries, query.k > 0, Stands(at), Exact(at, top), WandInvariant(at, block, order, top),
           Could # {}, NEW to, Pointed(at, to, top), WandAdvance(Pivot, to)
    PROVE  Stands(at') /\ Exact(at', top') /\ WandInvariant(at', block', order', top')
<1> DEFINE n == Len(query.terms)
           x == PivotDoc
           p == Pivot
           behind == {i \in 1 .. p : at[order[i]] # x}
<1>1. /\ n \in Nat /\ \A i \in 1 .. n : order[i] \in Terms /\ Place(order[i]) = i
  BY WandFacts
<1>2. /\ x \in Nat /\ p \in 1 .. n
      /\ \A t \in Terms : Place(t) <= p => at[t] <= x
      /\ \A i \in Could : x <= at[order[i]]
  BY PivotFacts
<1>3. at[order[1]] # x /\ Advance(order[Max(behind)], x, to)
  BY DEF WandAdvance
<1> HIDE DEF n, x, p
<1>4. behind \in SUBSET Nat /\ behind # {} /\ \A i \in behind : i <= p
  BY <1>1, <1>2, <1>3
<1>5. Max(behind) \in behind
  <2>1. p \in Nat
    BY <1>2
  <2> HIDE DEF behind
  <2>2. QED
    BY <1>4, <2>1, MaxFacts
<1>6. PICK t \in Terms : t = order[Max(behind)] /\ Place(t) <= p
  <2>1. PICK i \in 1 .. p : i = Max(behind)
    BY <1>5
  <2>2. QED
    BY <1>1, <1>2, <2>1
<1>7. ASSUME NEW d \in Docs(t), at[t] <= d, d < x PROVE Beaten(top, Score(d))
  <2>1. \A i \in Could : at[order[i]] \in Nat
    BY WandFacts DEF Could
  <2>2. d \in Nat
    BY WandFacts
  <2>3. \A i \in Could : d < at[order[i]]
    BY <1>2, <1>7, <2>1, <2>2
  <2>4. QED
    BY <1>7, <2>3, Hopeless
<1>8. QED
  BY <1>2, <1>3, <1>6, <1>7, AdvanceKeeps

\* All lists up to the pivot's stand on its document, which is scored.
LEMMA WandScoreKeeps ==
    ASSUME query \in LexicalQueries, query.k > 0, Stands(at), Exact(at, top), WandInvariant(at, block, order, top),
           Could # {}, NEW to, Pointed(at, to, top), WandScore(Pivot, to)
    PROVE  Stands(at') /\ Exact(at', top') /\ WandInvariant(at', block', order', top')
<1> DEFINE n == Len(query.terms)
           x == PivotDoc
           p == Pivot
           hits == {order[i] : i \in 1 .. p}
           hit == [doc |-> x, score |-> Total(x, hits)]
<1>1. /\ Listing(at, order) /\ n \in Nat
      /\ \A t \in Terms : Place(t) \in 1 .. n /\ order[Place(t)] = t
      /\ \A i \in 1 .. n : order[i] \in Terms /\ Place(order[i]) = i
      /\ \A i, j \in 1 .. n : i <= j => at[order[i]] <= at[order[j]]
      /\ top = Best(query.k, Scores(PassedBy(at))) /\ PassedBy(at) \in SUBSET Matching
      /\ \A t \in Terms : at[t] \in Nat /\ at[t] <= End
      /\ \A t \in Terms : \A d \in Docs(t) : /\ d \in Nat /\ d < End /\ d \in Matching
                                             /\ (d < at[t] => d \in PassedBy(at))
                                             /\ d < at[t] => (\A u \in Terms : d < at[u]) \/ Beaten(top, Score(d))
      /\ \A h \in top : \A t \in Terms : h.doc < at[t]
  BY WandFacts
<1>2. /\ x \in Nat /\ x # End /\ p \in 1 .. n /\ at[order[p]] = x /\ x \in Docs(order[p])
      /\ \A t \in Terms : (Place(t) <= p => at[t] <= x) /\ (Place(t) > p => x < at[t])
  BY PivotFacts
<1>3. /\ to \in [Terms -> Nat]
      /\ \A t \in Terms : \A d \in Docs(t) : Blk(t, d) < to[t] => d < at[t] \/ Beaten(top, Score(d))
  BY DEF Pointed
<1>4. at \in [Terms -> Nat] /\ \A t \in Terms : at[t] \in Docs(t) \cup {End}
  BY DEF Stands
<1>5. /\ at[order[1]] = x /\ top' = push(top, hit)
      /\ at' = [t \in Terms |-> IF t \in hits THEN NextDoc(t) ELSE at[t]]
      /\ block' = [t \in Terms |-> Pointer(t, to[t], at'[t])]
      /\ order' = ByDoc(at')
  BY DEF WandScore
<1> HIDE DEF n, x, p
<1>6. \A t \in Terms : (t \in hits <=> Place(t) <= p) /\ (t \in hits => at[t] = x) /\ (t \notin hits => x < at[t])
  <2>1. SUFFICES ASSUME NEW t \in Terms
                 PROVE  (t \in hits <=> Place(t) <= p) /\ (t \in hits => at[t] = x) /\ (t \notin hits => x < at[t])
    OBVIOUS
  <2>2. t \in hits <=> Place(t) <= p
    BY <1>1, <1>2
  <2>3. at[order[1]] <= at[order[Place(t)]] /\ order[Place(t)] = t
    BY <1>1, <1>2
  <2>4. QED
    BY <1>1, <1>2, <1>5, <2>2, <2>3
<1>7. hits \in SUBSET Terms
  BY <1>1, <1>2
<1> HIDE DEF hits
<1>8. \A t \in Terms : /\ at'[t] \in Docs(t) \cup {End} /\ at'[t] \in Nat /\ at[t] <= at'[t] /\ x < at'[t]
                       /\ \A d \in Docs(t) : d < at'[t] => d < at[t] \/ d = x
  <2>1. SUFFICES ASSUME NEW t \in Terms
                 PROVE  /\ at'[t] \in Docs(t) \cup {End} /\ at'[t] \in Nat /\ at[t] <= at'[t] /\ x < at'[t]
                        /\ \A d \in Docs(t) : d < at'[t] => d < at[t] \/ d = x
    OBVIOUS
  <2>2. CASE t \in hits
    <3>1. at'[t] = NextDoc(t) /\ at[t] = x
      BY <1>5, <1>6, <2>2
    <3>2. /\ NextDoc(t) \in Docs(t) \cup {End} /\ NextDoc(t) \in Nat /\ at[t] < NextDoc(t)
          /\ \A d \in Docs(t) : d < NextDoc(t) => d <= at[t]
      BY <1>2, <3>1, NextDocFacts
    <3>3. QED
      BY <1>1, <1>2, <3>1, <3>2
  <2>3. CASE t \notin hits
    <3>1. at'[t] = at[t] /\ x < at[t]
      BY <1>5, <1>6, <2>3
    <3>2. QED
      BY <1>1, <1>4, <3>1
  <2>4. QED
    BY <2>2, <2>3
<1>9. at' \in [Terms -> Nat] /\ Stands(at')
  <2>1. at' \in [Terms -> Nat]
    BY <1>5, <1>8
  <2>2. QED
    BY <1>8, <2>1 DEF Stands
<1>10. x \in Matching
  BY <1>1, <1>2
<1>11. PassedBy(at') = PassedBy(at) \cup {x}
  <2>1. PassedBy(at') \subseteq PassedBy(at) \cup {x}
    <3>1. SUFFICES ASSUME NEW t \in Terms, NEW d \in Docs(t), d < at'[t] PROVE d \in PassedBy(at) \cup {x}
      BY <1>1, <1>8 DEF PassedBy
    <3>2. QED
      BY <1>1, <1>8, <3>1
  <2>2. PassedBy(at) \subseteq PassedBy(at')
    <3>1. SUFFICES ASSUME NEW e \in Matching, NEW u \in Terms, e \in Docs(u), at[u] > e PROVE at'[u] > e
      BY DEF PassedBy
    <3>2. e \in Nat /\ at[u] \in Nat /\ at'[u] \in Nat /\ at[u] <= at'[u]
      BY <1>1, <1>8, <3>1
    <3>3. QED
      BY <3>1, <3>2
  <2>3. x \in PassedBy(at')
    BY <1>1, <1>2, <1>8, <1>10 DEF PassedBy
  <2>4. QED
    BY <2>1, <2>2, <2>3
<1>12. /\ \A h \in top : h.doc \in PassedBy(at) /\ h.doc \in Nat
       /\ Full(top) => Worst(top) \in top
       /\ \A d \in Nat \ PassedBy(at), m \in Nat, sum \in Nat :
             Beaten(top, sum) => Beaten(push(top, [doc |-> d, score |-> m]), sum)
       /\ \A h : push(top, h) \in SUBSET (top \cup {h})
       /\ top \in SUBSET Hits
  BY <1>1, HeapFacts, MatchingFacts
<1>13. Score(x) \in Nat /\ Total(x, hits) \in Nat /\ Total(x, hits) <= Score(x)
  BY <1>7, ScoreFacts
<1>14. Exact(at', top') /\ (\A sum \in Nat : Beaten(top, sum) => Beaten(top', sum)) /\ top' \in SUBSET (top \cup {hit})
  <2>1. CASE x \notin PassedBy(at)
    <3>1. Total(x, hits) = Score(x)
      <4>1. \A t \in Terms \ hits : x \notin Docs(t)
        BY <1>1, <1>6, <2>1
      <4>2. QED
        BY <1>7, <4>1, ScoreFacts
    <3>2. PassedBy(at') \in SUBSET Matching /\ PassedBy(at) \cup {x} \subseteq PassedBy(at')
          /\ PassedBy(at') \ (PassedBy(at) \cup {x}) = {}
      BY <1>1, <1>10, <1>11
    <3>3. push(top, [doc |-> x, score |-> Score(x)]) = Best(query.k, Scores(PassedBy(at')))
      BY <1>1, <1>10, <2>1, <3>2, PassScored
    <3>4. Exact(at', top')
      BY <1>5, <3>1, <3>3 DEF Exact
    <3>5. \A sum \in Nat : Beaten(top, sum) => Beaten(top', sum)
      BY <1>2, <1>5, <1>12, <1>13, <2>1
    <3>6. QED
      BY <1>5, <1>12, <3>4, <3>5
  <2>2. CASE x \in PassedBy(at)
    <3>1. Beaten(top, Score(x))
      <4>1. PICK u \in Terms : x \in Docs(u) /\ at[u] > x
        BY <2>2 DEF PassedBy
      <4>2. x < at[u]
        BY <1>1, <1>2, <4>1
      <4>3. order[p] \in Terms /\ ~(x < at[order[p]])
        BY <1>1, <1>2
      <4>4. QED
        BY <1>1, <4>1, <4>2, <4>3
    <3>2. PICK w \in top : w = Worst(top) /\ Full(top) /\ Score(x) <= w.score
      BY <1>12, <3>1 DEF Beaten
    <3>3. w.doc < x /\ w.doc \in Nat /\ w.score \in Nat
      <4>1. order[1] \in Terms
        BY <1>1, <1>2
      <4>2. w.doc < at[order[1]]
        BY <1>1, <4>1
      <4>3. QED
        BY <1>5, <1>12, <4>2, HitOrder
    <3>4. ~ranks_before(hit, w)
      <4>1. hit.doc = x /\ hit.score = Total(x, hits)
        OBVIOUS
      <4>2. QED
        BY <1>2, <1>13, <3>2, <3>3, <4>1 DEF ranks_before
    <3>5. top' = top
      BY <1>5, <3>2, <3>4 DEF push
    <3>6. PassedBy(at') = PassedBy(at)
      BY <1>11, <2>2
    <3>7. QED
      BY <1>1, <3>5, <3>6 DEF Exact
  <2>3. QED
    BY <2>1, <2>2
<1>15. Listing(at', order')
  BY <1>1, <1>5, <1>9, ByDocLists
<1>16. \A h \in top' : \A t \in Terms : h.doc < at'[t]
  <2>1. SUFFICES ASSUME NEW h \in top', NEW t \in Terms PROVE h.doc < at'[t]
    OBVIOUS
  <2>2. CASE h \in top
    BY <1>1, <1>8, <1>12, <2>2
  <2>3. CASE h = hit
    BY <1>8, <2>3
  <2>4. QED
    BY <1>14, <2>2, <2>3
<1>17. \A d \in Matching : Beaten(top, Score(d)) => Beaten(top', Score(d))
  BY <1>14, ScoreFacts
<1>18. NoneMissed(at', top')
  <2>1. SUFFICES ASSUME NEW u \in Terms, NEW d \in Docs(u), d < at'[u], ~Beaten(top', Score(d)), NEW v \in Terms
                 PROVE  d < at'[v]
    BY DEF NoneMissed
  <2>2. ~Beaten(top, Score(d))
    BY <1>1, <1>17, <2>1
  <2>3. CASE d = x
    BY <1>8, <2>3
  <2>4. CASE d < at[u]
    <3>1. d < at[v]
      BY <1>1, <2>2, <2>4
    <3>2. QED
      BY <1>1, <1>8, <3>1
  <2>5. QED
    BY <1>8, <2>1, <2>3, <2>4
<1>19. Pointed(at', block', top')
  <2>1. ASSUME NEW t \in Terms PROVE block'[t] \in Nat /\ (block'[t] = to[t] \/ block'[t] = Blk(t, at'[t]))
    <3>1. block'[t] = Pointer(t, to[t], at'[t])
      BY <1>5
    <3>2. block'[t] = to[t] \/ block'[t] = Blk(t, at'[t])
      BY <3>1 DEF Pointer, Blk
    <3>3. Blk(t, at'[t]) \in Nat /\ to[t] \in Nat
      BY <1>3, <1>8, NumberFacts
    <3>4. QED
      BY <3>2, <3>3
  <2>2. block' \in [Terms -> Nat]
    BY <1>5, <2>1
  <2>3. SUFFICES ASSUME NEW u \in Terms, NEW d \in Docs(u), Blk(u, d) < block'[u], ~Beaten(top', Score(d))
                 PROVE  d < at'[u]
    BY <2>2 DEF Pointed
  <2>4. ~Beaten(top, Score(d)) /\ d \in Nat /\ at[u] \in Nat /\ at'[u] \in Nat /\ at[u] <= at'[u]
    BY <1>1, <1>8, <1>17, <2>3
  <2>5. CASE block'[u] = to[u]
    BY <1>3, <2>3, <2>4, <2>5
  <2>6. CASE block'[u] = Blk(u, at'[u])
    <3>1. Blk(u, d) \in Nat /\ Blk(u, at'[u]) \in Nat /\ (at'[u] <= d => Blk(u, at'[u]) <= Blk(u, d))
      BY <2>4, NumberFacts
    <3>2. QED
      BY <2>3, <2>4, <2>6, <3>1
  <2>7. QED
    BY <2>1, <2>5, <2>6
<1>20. QED
  BY <1>9, <1>14, <1>15, <1>16, <1>18, <1>19 DEF WandInvariant

\* WAND keeps the invariant, with and without block bounds.
LEMMA WandKeeps == ASSUME LexicalInvariant, WandStep PROVE LexicalInvariant'
<1>1. /\ query \in LexicalQueries /\ query' = query /\ query.algorithm \in {"wand", "bmw"} /\ searching
      /\ Stands(at) /\ Exact(at, top) /\ query.k > 0 /\ Terms # {} /\ WandInvariant(at, block, order, top)
  BY DEF LexicalInvariant, WandStep
<1>2. CASE Cut /\ UNCHANGED <<at, block, order, top>>
  <2>1. at' = at /\ top' = top /\ ~searching' /\ cut'
    BY <1>2 DEF Cut
  <2>2. QED
    BY <1>1, <2>1, InvariantKept
<1>3. CASE WandEnd
  <2>1. Could = {} /\ Finish /\ at' = at /\ top' = top
    BY <1>3 DEF WandEnd
  <2>2. QED
    BY <2>1, WandEnds
<1>4. ASSUME Could # {}, GoesOn, NEW to, to = IF query.algorithm = "bmw" THEN Shallow(Pivot) ELSE block,
             WandSkip(Pivot, to) \/ WandScore(Pivot, to) \/ WandAdvance(Pivot, to)
      PROVE  LexicalInvariant'
  <2>1. Pointed(at, to, top)
    BY <1>1, <1>4, ShallowFacts DEF WandInvariant
  <2>2. Stands(at') /\ Exact(at', top') /\ WandInvariant(at', block', order', top')
    <3>1. CASE WandSkip(Pivot, to)
      <4>1. to = Shallow(Pivot)
        BY <1>4, <3>1 DEF WandSkip, Skips
      <4>2. QED
        BY <1>1, <1>4, <3>1, <4>1, WandSkipKeeps
    <3>2. CASE WandScore(Pivot, to)
      BY <1>1, <1>4, <2>1, <3>2, WandScoreKeeps
    <3>3. CASE WandAdvance(Pivot, to)
      BY <1>1, <1>4, <2>1, <3>3, WandAdvanceKeeps
    <3>4. QED
      BY <1>4, <3>1, <3>2, <3>3
  <2>3. searching' = searching /\ cut' = cut
    BY <1>4 DEF GoesOn
  <2>4. QED
    BY <1>1, <2>2, <2>3, InvariantKept
<1>5. QED
  BY <1>2, <1>3, <1>4 DEF WandStep

-----------------------------------------------------------------------------
\* Whatever is skipped, the heap of every search holds the best k of the
\* documents passed, and in the end the best k of all (search.cc "Pruning safety").
THEOREM PruningIsSafe == LexicalSpec => []PrunedSearchIsExact
<1>1. LexicalInit => LexicalInvariant
  BY LexicalInitially
<1>2. LexicalInvariant /\ [LexicalNext]_lexicalVars => LexicalInvariant'
  <2>1. SUFFICES ASSUME LexicalInvariant, [LexicalNext]_lexicalVars PROVE LexicalInvariant'
    OBVIOUS
  <2>2. CASE ExhaustiveStep
    BY <2>1, <2>2, ExhaustiveKeeps
  <2>3. CASE DaatStep
    BY <2>1, <2>3, DaatKeeps
  <2>4. CASE MaxScoreStep
    BY <2>1, <2>4, MaxScoreKeeps
  <2>5. CASE WandStep
    BY <2>1, <2>5, WandKeeps
  <2>6. CASE UNCHANGED lexicalVars
    <3>1. /\ query' = query /\ at' = at /\ block' = block /\ order' = order /\ essential' = essential
          /\ top' = top /\ cut' = cut /\ searching' = searching
      BY <2>6 DEF lexicalVars
    <3>2. QED
      BY <2>1, <3>1, InvariantKept DEF LexicalInvariant
  <2>7. QED
    BY <2>1, <2>2, <2>3, <2>4, <2>5, <2>6 DEF LexicalNext
<1>3. LexicalInvariant => PrunedSearchIsExact
  <2>1. Passed = PassedBy(at)
    BY DEF Passed, PassedBy
  <2>2. QED
    BY <2>1 DEF LexicalInvariant, Exact, PrunedSearchIsExact
<1>4. QED
  BY <1>1, <1>2, <1>3, PTL DEF LexicalSpec
============================================================================
