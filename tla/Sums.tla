-------------------------------- MODULE Sums ---------------------------------
(***************************************************************************)
(* Sums of the values of finite functions (SumFunction of Functions.tla,   *)
(* defined by a recursive function on sets).  Where a proof would go by    *)
(* induction over a set, it takes a counterexample with the least number   *)
(* of elements.                                                            *)
(***************************************************************************)
EXTENDS Naturals, FiniteSets, Functions, FiniteSetTheorems, WellFoundedInduction, TLAPS

\* Multiplication by a natural number is monotone.
LEMMA Times ==
  ASSUME NEW a \in Nat, NEW b \in Nat, a <= b, NEW c \in Nat
  PROVE  a * c \in Nat /\ a * c <= b * c /\ (a + 1) * c = a * c + c
<1>1. PICK d \in Nat : b = a + d
  BY SMT
<1>2. b * c = a * c + d * c
  BY <1>1, SMT
<1>3. a * c \in Nat /\ d * c \in Nat
  BY SMT
<1>. QED
  BY <1>2, <1>3, SMT

\* A set of natural numbers has a least one.
LEMMA LeastNatural ==
  ASSUME NEW T \in SUBSET Nat, T # {}
  PROVE  \E n \in T : \A m \in T : n <= m
<1>1. PICK n \in T : \A m \in T : ~ (<<m, n>> \in OpToRel(<, Nat))
  BY WFMin, NatLessThanWellFounded
<1>2. ASSUME NEW m \in T, m < n PROVE FALSE
  <2>1. <<m, n>> \in Nat \X Nat /\ <<m, n>>[1] = m /\ <<m, n>>[2] = n
    OBVIOUS
  <2>2. <<m, n>> \in {ss \in Nat \X Nat : ss[1] < ss[2]}
    BY <2>1, <1>2
  <2>. QED
    BY <2>2, <1>1 DEF OpToRel
<1>. QED
  BY <1>2

\* The element that the library's sum takes next.
Some(S) == CHOOSE x \in S : TRUE

\* A sum over S is one over S without some element of it.
Summed(g, F, n, D) ==
  \A S \in SUBSET D : Cardinality(S) <= n =>
    F[S] = IF S = {} THEN 0 ELSE g[Some(S)] + F[S \ {Some(S)}]

\* F gives the sum of g over every subset of D.
Adds(F, g, D) ==
  /\ F \in [SUBSET D -> Nat]
  /\ \A S \in SUBSET D : F[S] = IF S = {} THEN 0 ELSE g[Some(S)] + F[S \ {Some(S)}]

\* A subset of a finite set, and what is left of it without some element.
LEMMA SmallerSets ==
  ASSUME NEW D, IsFiniteSet(D), NEW S \in SUBSET D
  PROVE  /\ IsFiniteSet(S) /\ Cardinality(S) \in Nat /\ Cardinality(S) <= Cardinality(D)
         /\ S # {} => /\ Some(S) \in S /\ S \ {Some(S)} \in SUBSET D
                      /\ Cardinality(S \ {Some(S)}) = Cardinality(S) - 1
                      /\ Cardinality(S) > 0
<1>1. IsFiniteSet(S) /\ Cardinality(S) \in Nat /\ Cardinality(S) <= Cardinality(D)
  BY FS_Subset, FS_CardinalityType
<1>2. ASSUME S # {}
      PROVE  /\ Some(S) \in S /\ S \ {Some(S)} \in SUBSET D
             /\ Cardinality(S \ {Some(S)}) = Cardinality(S) - 1
             /\ Cardinality(S) > 0
  <2>1. Some(S) \in S
    BY <1>2 DEF Some
  <2>2. Cardinality(S \ {Some(S)}) = Cardinality(S) - 1
    BY <2>1, <1>1, FS_RemoveElement
  <2>3. Cardinality(S) # 0
    BY <1>1, <1>2, FS_EmptySet
  <2>. QED
    BY <1>1, <2>1, <2>2, <2>3
<1>. QED
  BY <1>1, <1>2

\* There is such a sum.
LEMMA SumsExist ==
  ASSUME NEW D, IsFiniteSet(D), NEW g \in [D -> Nat]
  PROVE  \A n \in Nat : \E F \in [SUBSET D -> Nat] : Summed(g, F, n, D)
<1>. DEFINE T == {n \in Nat : ~ \E F \in [SUBSET D -> Nat] : Summed(g, F, n, D)}
<1>. SUFFICES ASSUME T # {} PROVE FALSE
  OBVIOUS
<1>1. PICK n \in T : \A m \in T : n <= m
  BY LeastNatural
<1>2. n \in Nat /\ ~ \E F \in [SUBSET D -> Nat] : Summed(g, F, n, D)
  OBVIOUS
<1>3. CASE n = 0
  <2>. DEFINE F == [S \in SUBSET D |-> 0]
  <2>1. F \in [SUBSET D -> Nat]
    OBVIOUS
  <2>2. ASSUME NEW S \in SUBSET D, Cardinality(S) <= 0 PROVE F[S] = 0 /\ S = {}
    <3>1. Cardinality(S) \in Nat /\ (S # {} => Cardinality(S) > 0)
      BY SmallerSets
    <3>2. S = {}
      BY <3>1, <2>2
    <3>. QED
      BY <3>2
  <2>3. Summed(g, F, n, D)
    BY <2>2, <1>3 DEF Summed
  <2>. QED
    BY <2>1, <2>3, <1>2
<1>4. CASE n # 0
  <2>1. n - 1 \in Nat /\ ~(n <= n - 1)
    BY <1>2, <1>4
  <2>2. n - 1 \notin T
    BY <2>1, <1>1
  <2>3. PICK F \in [SUBSET D -> Nat] : Summed(g, F, n - 1, D)
    BY <2>1, <2>2
  <2>. DEFINE G == [S \in SUBSET D |-> IF S = {} THEN 0 ELSE g[Some(S)] + F[S \ {Some(S)}]]
  <2>4. ASSUME NEW S \in SUBSET D
        PROVE  /\ G[S] = IF S = {} THEN 0 ELSE g[Some(S)] + F[S \ {Some(S)}]
               /\ G[S] \in Nat
    <3>1. CASE S = {}
      BY <3>1
    <3>2. CASE S # {}
      <4>1. Some(S) \in D /\ S \ {Some(S)} \in SUBSET D
        BY <3>2, SmallerSets
      <4>2. g[Some(S)] \in Nat /\ F[S \ {Some(S)}] \in Nat
        BY <4>1
      <4>. QED
        BY <4>2, <3>2
    <3>. QED
      BY <3>1, <3>2
  <2>5. G \in [SUBSET D -> Nat]
    BY <2>4
  <2>. HIDE DEF G
  <2>6. ASSUME NEW S \in SUBSET D, Cardinality(S) <= n - 1 PROVE G[S] = F[S]
    BY <2>3, <2>4, <2>6 DEF Summed
  <2>7. ASSUME NEW S \in SUBSET D, Cardinality(S) <= n
        PROVE  G[S] = IF S = {} THEN 0 ELSE g[Some(S)] + G[S \ {Some(S)}]
    <3>1. CASE S = {}
      BY <3>1, <2>4
    <3>2. CASE S # {}
      <4>1. S \ {Some(S)} \in SUBSET D /\ Cardinality(S \ {Some(S)}) <= n - 1
        BY <3>2, <2>7, <1>2, SmallerSets
      <4>. QED
        BY <4>1, <2>4, <2>6, <3>2
    <3>. QED
      BY <3>1, <3>2
  <2>8. Summed(g, G, n, D)
    BY <2>7 DEF Summed
  <2>. QED
    BY <2>5, <2>8, <1>2
<1>. QED
  BY <1>3, <1>4

\* The sum of a function's values is the one that adds them one by one.
LEMMA SumIs ==
  ASSUME NEW D, IsFiniteSet(D), NEW g \in [D -> Nat]
  PROVE  \E F : Adds(F, g, D) /\ SumFunction(g) = F[D]
<1>. DEFINE IsSum(F) == F = [S \in SUBSET D |-> IF S = {} THEN 0 ELSE g[Some(S)] + F[S \ {Some(S)}]]
            sum == CHOOSE F : IsSum(F)
<1>1. SumFunction(g) = sum[D]
  BY DEF SumFunction, SumFunctionOnSet, FoldFunctionOnSet, MapThenFoldSet, Some
<1>2. Cardinality(D) \in Nat
  BY FS_CardinalityType
<1>3. PICK F \in [SUBSET D -> Nat] : Summed(g, F, Cardinality(D), D)
  BY <1>2, SumsExist
<1>4. \A S \in SUBSET D : F[S] = IF S = {} THEN 0 ELSE g[Some(S)] + F[S \ {Some(S)}]
  BY <1>3, SmallerSets DEF Summed
<1>5. IsSum(F)
  BY <1>4
<1>6. IsSum(sum)
  BY <1>5
<1>7. sum = [S \in SUBSET D |-> IF S = {} THEN 0 ELSE g[Some(S)] + sum[S \ {Some(S)}]]
  BY <1>6
<1>. HIDE DEF sum
<1>. DEFINE T == {n \in Nat : \E S \in SUBSET D : Cardinality(S) = n /\ sum[S] # F[S]}
<1>8. T = {}
  <2>. SUFFICES ASSUME T # {} PROVE FALSE
    OBVIOUS
  <2>1. PICK n \in T : \A m \in T : n <= m
    BY LeastNatural
  <2>2. PICK S \in SUBSET D : Cardinality(S) = n /\ sum[S] # F[S]
    OBVIOUS
  <2>3. S # {}
    BY <2>2, <1>4, <1>7
  <2>4. /\ n \in Nat /\ S \ {Some(S)} \in SUBSET D
        /\ Cardinality(S \ {Some(S)}) = n - 1 /\ n - 1 \in Nat
    BY <2>2, <2>3, SmallerSets
  <2>5. n - 1 \notin T
    BY <2>1, <2>4
  <2>6. sum[S \ {Some(S)}] = F[S \ {Some(S)}]
    BY <2>4, <2>5
  <2>. QED
    BY <2>2, <2>3, <2>6, <1>4, <1>7
<1>9. sum[D] = F[D]
  BY <1>8, <1>2
<1>10. Adds(F, g, D)
  BY <1>4 DEF Adds
<1>. QED
  BY <1>1, <1>9, <1>10

\* Where two functions differ at one point, so do their sums.
LEMMA SumsDiffer ==
  ASSUME NEW D, IsFiniteSet(D), NEW g \in [D -> Nat], NEW h \in [D -> Nat], NEW d \in D,
         \A e \in D : e # d => h[e] = g[e]
  PROVE  /\ SumFunction(g) \in Nat /\ SumFunction(h) \in Nat
         /\ SumFunction(h) + g[d] = SumFunction(g) + h[d]
<1>1. PICK F : Adds(F, g, D) /\ SumFunction(g) = F[D]
  BY SumIs
<1>2. PICK H : Adds(H, h, D) /\ SumFunction(h) = H[D]
  BY SumIs
<1>. DEFINE Differs(S) == H[S] # IF d \in S THEN F[S] - g[d] + h[d] ELSE F[S]
            T == {n \in Nat : \E S \in SUBSET D : Cardinality(S) = n /\ Differs(S)}
<1>3. T = {}
  <2>. SUFFICES ASSUME T # {} PROVE FALSE
    OBVIOUS
  <2>1. PICK n \in T : \A m \in T : n <= m
    BY LeastNatural
  <2>2. PICK S \in SUBSET D : Cardinality(S) = n /\ Differs(S)
    OBVIOUS
  <2>3. S # {}
    BY <2>2, <1>1, <1>2 DEF Adds
  <2>. DEFINE e == Some(S)
              R == S \ {e}
  <2>4. n \in Nat /\ e \in S /\ e \in D /\ R \in SUBSET D /\ Cardinality(R) = n - 1 /\ n - 1 \in Nat
    <3>1. Some(S) \in S /\ S \ {Some(S)} \in SUBSET D /\ Cardinality(S \ {Some(S)}) = Cardinality(S) - 1
          /\ Cardinality(S) > 0 /\ Cardinality(S) \in Nat
      BY <2>3, SmallerSets
    <3>. QED
      BY <3>1, <2>2
  <2>5. n - 1 \notin T
    BY <2>1, <2>4
  <2>6. ~Differs(R)
    BY <2>4, <2>5
  <2>7. F[S] = g[e] + F[R] /\ H[S] = h[e] + H[R]
    BY <1>1, <1>2, <2>3 DEF Adds
  <2>8. /\ g[e] \in Nat /\ h[e] \in Nat /\ g[d] \in Nat /\ h[d] \in Nat
        /\ F[R] \in Nat /\ H[R] \in Nat /\ F[S] \in Nat /\ H[S] \in Nat
    BY <2>4, <1>1, <1>2 DEF Adds
  <2>9. d \in S <=> e = d \/ d \in R
    BY <2>4
  <2>10. d \in R => e # d
    OBVIOUS
  <2>. HIDE DEF e, R
  <2>11. CASE e = d
    <3>1. H[R] = F[R]
      BY <2>6, <2>10, <2>11
    <3>. QED
      BY <3>1, <2>2, <2>7, <2>8, <2>9, <2>11
  <2>12. CASE e # d
    <3>1. h[e] = g[e]
      BY <2>4, <2>12
    <3>. QED
      BY <3>1, <2>2, <2>6, <2>7, <2>8, <2>9, <2>12
  <2>. QED
    BY <2>11, <2>12
<1>4. ~Differs(D)
  BY <1>3, FS_CardinalityType
<1>5. F[D] \in Nat /\ H[D] \in Nat /\ g[d] \in Nat /\ h[d] \in Nat
  BY <1>1, <1>2 DEF Adds
<1>. QED
  BY <1>1, <1>2, <1>4, <1>5

\* The sum of zeros.
LEMMA SumOfZeros ==
  ASSUME NEW D, IsFiniteSet(D), NEW g \in [D -> Nat], \A e \in D : g[e] = 0
  PROVE  SumFunction(g) = 0
<1>1. PICK F : Adds(F, g, D) /\ SumFunction(g) = F[D]
  BY SumIs
<1>. DEFINE T == {n \in Nat : \E S \in SUBSET D : Cardinality(S) = n /\ F[S] # 0}
<1>2. T = {}
  <2>. SUFFICES ASSUME T # {} PROVE FALSE
    OBVIOUS
  <2>1. PICK n \in T : \A m \in T : n <= m
    BY LeastNatural
  <2>2. PICK S \in SUBSET D : Cardinality(S) = n /\ F[S] # 0
    OBVIOUS
  <2>3. S # {}
    BY <2>2, <1>1 DEF Adds
  <2>4. /\ n \in Nat /\ Some(S) \in D /\ S \ {Some(S)} \in SUBSET D
        /\ Cardinality(S \ {Some(S)}) = n - 1 /\ n - 1 \in Nat
    BY <2>2, <2>3, SmallerSets
  <2>5. n - 1 \notin T
    BY <2>1, <2>4
  <2>6. F[S \ {Some(S)}] = 0
    BY <2>4, <2>5
  <2>. QED
    BY <2>2, <2>3, <2>4, <2>6, <1>1 DEF Adds
<1>. QED
  BY <1>1, <1>2, FS_CardinalityType DEF Adds
=============================================================================
