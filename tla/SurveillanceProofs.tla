------------------------- MODULE SurveillanceProofs -------------------------
(***************************************************************************)
(* Proofs about Surveillance, for every feed: any orders, cancels, replaces  *)
(* and fills, however the clock moves and whatever the ring buffer loses.    *)
(***************************************************************************)
EXTENDS Surveillance, FiniteSetTheorems, SequenceTheorems, WellFoundedInduction, NaturalsInduction, TLAPS

-----------------------------------------------------------------------------
\* Subsequences

\* f lists the numbers of S, the smallest first.
Lists(f, n, S) ==
  /\ f \in [1 .. n -> S]
  /\ \A j, k \in 1 .. n : j < k => f[j] < f[k]
  /\ \A i \in S : \E k \in 1 .. n : f[k] = i

\* How many numbers of S are below i.
Rank(S, i) == Cardinality({j \in S : j < i})

\* The elements of a finite total order have the ranks from 0 on.
LEMMA RankedBy ==
  ASSUME NEW S, IsFiniteSet(S), NEW Beneath,
         \A i \in S : Beneath[i] \subseteq S /\ i \notin Beneath[i],
         \A i \in S : \A j \in Beneath[i] : Beneath[j] \subseteq Beneath[i],
         \A i, j \in S : i = j \/ i \in Beneath[j] \/ j \in Beneath[i]
  PROVE  /\ Cardinality(S) \in Nat
         /\ \A i \in S : Cardinality(Beneath[i]) \in 0 .. Cardinality(S) - 1
         /\ \A i, j \in S : i \in Beneath[j] <=> Cardinality(Beneath[i]) < Cardinality(Beneath[j])
         /\ \A k \in 1 .. Cardinality(S) : \E i \in S : Cardinality(Beneath[i]) = k - 1
<1> DEFINE rank == [i \in S |-> Cardinality(Beneath[i])]
           n == Cardinality(S)
<1>1. n \in Nat
  BY FS_CardinalityType
<1>2. ASSUME NEW i \in S PROVE IsFiniteSet(Beneath[i]) /\ Cardinality(Beneath[i]) \in 0 .. n - 1
  <2>1. Beneath[i] \in SUBSET (S \ {i})
    OBVIOUS
  <2>2. IsFiniteSet(S \ {i}) /\ Cardinality(S \ {i}) = n - 1
    BY FS_RemoveElement
  <2>3. IsFiniteSet(Beneath[i]) /\ Cardinality(Beneath[i]) <= n - 1
    BY <2>1, <2>2, FS_Subset
  <2> QED
    BY <1>1, <2>3, FS_CardinalityType
<1>3. ASSUME NEW i \in S, NEW j \in S, i \in Beneath[j] PROVE Cardinality(Beneath[i]) < Cardinality(Beneath[j])
  <2>1. Beneath[i] \in SUBSET Beneath[j] /\ Beneath[i] # Beneath[j]
    BY <1>3
  <2>2. Cardinality(Beneath[i]) <= Cardinality(Beneath[j]) /\ Cardinality(Beneath[i]) # Cardinality(Beneath[j])
    BY <1>2, <2>1, FS_Subset
  <2> QED
    BY <1>2, <2>2
<1>4. \A i, j \in S : i \in Beneath[j] <=> Cardinality(Beneath[i]) < Cardinality(Beneath[j])
  <2>1. ASSUME NEW i \in S, NEW j \in S, Cardinality(Beneath[i]) < Cardinality(Beneath[j]) PROVE i \in Beneath[j]
    <3>1. Cardinality(Beneath[i]) \in Nat /\ Cardinality(Beneath[j]) \in Nat
      BY <1>1, <1>2
    <3>2. i # j
      BY <2>1, <3>1
    <3>3. j \in Beneath[i] => Cardinality(Beneath[j]) < Cardinality(Beneath[i])
      BY <1>3
    <3> QED
      BY <2>1, <3>1, <3>2, <3>3
  <2> QED
    BY <1>3, <2>1
<1>5. rank \in Injection(S, 0 .. n - 1)
  <2>1. rank \in [S -> 0 .. n - 1]
    BY <1>2
  <2>2. ASSUME NEW i \in S, NEW j \in S, rank[i] = rank[j] PROVE i = j
    <3>1. Cardinality(Beneath[i]) = Cardinality(Beneath[j]) /\ Cardinality(Beneath[i]) \in Nat
      BY <1>1, <1>2, <2>2
    <3> QED
      BY <1>4, <3>1
  <2> QED
    BY <2>1, <2>2 DEF Injection, IsInjective
<1>6. rank \in Surjection(S, 0 .. n - 1)
  <2>1. IsFiniteSet(0 .. n - 1) /\ Cardinality(0 .. n - 1) = n
    BY <1>1, FS_Interval
  <2> QED
    BY <1>5, <2>1, FS_Injection
<1>7. \A k \in 1 .. n : \E i \in S : Cardinality(Beneath[i]) = k - 1
  <2>1. \A k \in 1 .. n : k - 1 \in 0 .. n - 1
    BY <1>1
  <2>2. \A r \in 0 .. n - 1 : \E i \in S : rank[i] = r
    BY <1>6 DEF Surjection
  <2> QED
    BY <2>1, <2>2
<1> QED
  BY <1>1, <1>2, <1>4, <1>7

\* So do the numbers of a finite set.
LEMMA Ranked ==
  ASSUME NEW S \in SUBSET Nat, IsFiniteSet(S)
  PROVE  /\ Cardinality(S) \in Nat
         /\ \A i \in S : Rank(S, i) \in 0 .. Cardinality(S) - 1
         /\ \A i, j \in S : i < j <=> Rank(S, i) < Rank(S, j)
         /\ \A i, j \in S : Rank(S, i) = Rank(S, j) => i = j
         /\ \A k \in 1 .. Cardinality(S) : \E i \in S : Rank(S, i) = k - 1
<1> DEFINE Beneath == [i \in S |-> {j \in S : j < i}]
<1>0. \A i, j \in S : i \in Nat /\ j \in Nat
  OBVIOUS
<1>1. \A i \in S : Beneath[i] = {j \in S : j < i}
  OBVIOUS
<1> HIDE DEF Beneath
<1>2. \A i, j \in S : i \in Beneath[j] <=> i < j
  BY <1>1
<1>3. \A i \in S : Beneath[i] \subseteq S /\ i \notin Beneath[i]
  BY <1>0, <1>1
<1>4. \A i \in S : \A j \in Beneath[i] : Beneath[j] \subseteq Beneath[i]
  <2>1. SUFFICES ASSUME NEW i \in S, NEW j \in Beneath[i], NEW h \in Beneath[j] PROVE h \in Beneath[i]
    OBVIOUS
  <2>2. j \in S /\ h \in S
    BY <1>3
  <2>3. j < i /\ h < j
    BY <1>2, <2>2
  <2>4. h < i
    BY <1>0, <2>2, <2>3
  <2> QED
    BY <1>2, <2>2, <2>4
<1>5. \A i, j \in S : i = j \/ i \in Beneath[j] \/ j \in Beneath[i]
  BY <1>0, <1>2
<1>6. /\ Cardinality(S) \in Nat
      /\ \A i \in S : Cardinality(Beneath[i]) \in 0 .. Cardinality(S) - 1
      /\ \A i, j \in S : i \in Beneath[j] <=> Cardinality(Beneath[i]) < Cardinality(Beneath[j])
      /\ \A k \in 1 .. Cardinality(S) : \E i \in S : Cardinality(Beneath[i]) = k - 1
  BY <1>3, <1>4, <1>5, RankedBy
<1>7. \A i \in S : Cardinality(Beneath[i]) = Rank(S, i)
  BY <1>1 DEF Rank
<1>8. \A i \in S : Rank(S, i) \in 0 .. Cardinality(S) - 1
  BY <1>6, <1>7
<1>9. \A i, j \in S : i < j <=> Rank(S, i) < Rank(S, j)
  BY <1>2, <1>6, <1>7
<1>10. \A i, j \in S : Rank(S, i) = Rank(S, j) => i = j
  <2>1. SUFFICES ASSUME NEW i \in S, NEW j \in S, Rank(S, i) = Rank(S, j) PROVE i = j
    OBVIOUS
  <2>2. ~(i < j) /\ ~(j < i)
    BY <1>6, <1>8, <1>9, <2>1
  <2> QED
    BY <1>0, <2>2
<1>11. \A k \in 1 .. Cardinality(S) : \E i \in S : Rank(S, i) = k - 1
  BY <1>6, <1>7
<1> QED
  BY <1>6, <1>8, <1>9, <1>10, <1>11

\* Ascending is such a list.
LEMMA AscendingLists ==
  ASSUME NEW S \in SUBSET Nat, IsFiniteSet(S)
  PROVE  Lists(Ascending(S), Cardinality(S), S) /\ Cardinality(S) \in Nat
<1> DEFINE n == Cardinality(S)
           f == Ascending(S)
<1>1. f = [k \in 1 .. n |-> CHOOSE i \in S : Rank(S, i) = k - 1]
  BY Zenon DEF Ascending, Rank
<1> HIDE DEF f
<1>2. n \in Nat /\ \A k \in 1 .. n : \E i \in S : Rank(S, i) = k - 1
  BY Ranked
<1>3. ASSUME NEW k \in 1 .. n PROVE f[k] \in S /\ Rank(S, f[k]) = k - 1
  <2>1. f[k] = CHOOSE i \in S : Rank(S, i) = k - 1
    BY <1>1
  <2>2. \E i \in S : Rank(S, i) = k - 1
    BY <1>2
  <2> QED
    BY <2>1, <2>2, Zenon
<1>4. f \in [1 .. n -> S]
  BY <1>1, <1>3
<1>5. ASSUME NEW j \in 1 .. n, NEW k \in 1 .. n, j < k PROVE f[j] < f[k]
  <2>1. Rank(S, f[j]) < Rank(S, f[k])
    BY <1>2, <1>3, <1>5
  <2> QED
    BY <1>3, <2>1, Ranked
<1>6. ASSUME NEW i \in S PROVE \E k \in 1 .. n : f[k] = i
  <2>1. PICK k : k = Rank(S, i) + 1
    OBVIOUS
  <2>2. k \in 1 .. n /\ Rank(S, i) = k - 1
    BY <1>2, <2>1, Ranked
  <2>3. Rank(S, f[k]) = Rank(S, i) /\ f[k] \in S
    BY <1>3, <2>2
  <2>4. \A g, h \in S : Rank(S, g) = Rank(S, h) => g = h
    BY Ranked
  <2>5. f[k] = i
    BY <2>3, <2>4
  <2> QED
    BY <2>2, <2>5
<1> QED
  BY <1>2, <1>4, <1>5, <1>6 DEF Lists, f

\* An enumeration in ascending order is the only one.
LEMMA ListsOnce ==
  ASSUME NEW S \in SUBSET Nat, NEW n \in Nat, NEW f, Lists(f, n, S)
  PROVE  IsFiniteSet(S) /\ n = Cardinality(S) /\ f = Ascending(S)
<1>1. f \in [1 .. n -> S] /\ \A i \in S : \E k \in 1 .. n : f[k] = i
  BY DEF Lists
<1>0. \A k \in 1 .. n : k \in Nat /\ f[k] \in Nat
  <2>1. \A k \in 1 .. n : k \in Nat /\ f[k] \in S
    BY <1>1
  <2> QED
    BY <2>1
<1>2. ASSUME NEW j \in 1 .. n, NEW k \in 1 .. n PROVE f[j] < f[k] <=> j < k
  <2>1. f[j] \in Nat /\ f[k] \in Nat /\ j \in Nat /\ k \in Nat
    BY <1>0
  <2>2. (j < k => f[j] < f[k]) /\ (k < j => f[k] < f[j])
    BY DEF Lists
  <2> QED
    BY <2>1, <2>2
<1>3. f \in Bijection(1 .. n, S)
  <2>1. \A j, k \in 1 .. n : f[j] = f[k] => j = k
    <3>1. SUFFICES ASSUME NEW j \in 1 .. n, NEW k \in 1 .. n, f[j] = f[k] PROVE j = k
      OBVIOUS
    <3>2. f[j] \in Nat /\ f[k] \in Nat /\ j \in Nat /\ k \in Nat
      BY <1>0
    <3>3. ~(j < k) /\ ~(k < j)
      BY <1>2, <3>1, <3>2
    <3> QED
      BY <3>2, <3>3
  <2> QED
    BY <1>1, <2>1, Zenon DEF Bijection, Injection, IsInjective, Surjection
<1>4. IsFiniteSet(1 .. n) /\ Cardinality(1 .. n) = n
  BY FS_Interval
<1>5. IsFiniteSet(S) /\ Cardinality(S) = n
  BY <1>3, <1>4, FS_Bijection, Zenon DEF ExistsBijection
<1>6. ASSUME NEW k \in 1 .. n PROVE Rank(S, f[k]) = k - 1
  <2> DEFINE g == [j \in 1 .. k - 1 |-> f[j]]
             T == {i \in S : i < f[k]}
  <2>1. k \in Nat /\ \A j \in 1 .. k - 1 : j \in 1 .. n /\ j < k
    OBVIOUS
  <2>2. g \in [1 .. k - 1 -> T]
    BY <1>1, <1>2, <2>1
  <2>3. \A i \in T : \E j \in 1 .. k - 1 : g[j] = i
    <3>1. SUFFICES ASSUME NEW i \in T PROVE \E j \in 1 .. k - 1 : g[j] = i
      OBVIOUS
    <3>2. PICK j \in 1 .. n : f[j] = i
      BY <1>1
    <3>3. j < k
      BY <1>2, <3>2
    <3> QED
      BY <3>2, <3>3
  <2>4. \A i, j \in 1 .. k - 1 : g[i] = g[j] => i = j
    BY <1>3, <2>1 DEF Bijection, Injection, IsInjective
  <2>5. g \in Bijection(1 .. k - 1, T)
    BY <2>2, <2>3, <2>4, Zenon DEF Bijection, Injection, IsInjective, Surjection
  <2>6. IsFiniteSet(1 .. k - 1) /\ Cardinality(1 .. k - 1) = k - 1
    BY <2>1, FS_Interval
  <2>7. Rank(S, f[k]) = Cardinality(T)
    BY DEF Rank
  <2> HIDE DEF T, g
  <2>8. Cardinality(T) = k - 1
    BY <2>5, <2>6, FS_Bijection, Zenon DEF ExistsBijection
  <2> QED
    BY <2>7, <2>8
<1>7. ASSUME NEW k \in 1 .. n PROVE f[k] = CHOOSE i \in S : Rank(S, i) = k - 1
  <2>1. f[k] \in S /\ Rank(S, f[k]) = k - 1
    BY <1>1, <1>6
  <2>2. \A g, h \in S : Rank(S, g) = Rank(S, h) => g = h
    BY <1>5, Ranked
  <2>3. \A i \in S : Rank(S, i) = k - 1 => i = f[k]
    BY <2>1, <2>2
  <2> QED
    BY <2>1, <2>3, Zenon
<1>8. Ascending(S) = [k \in 1 .. n |-> CHOOSE i \in S : Rank(S, i) = k - 1]
  BY <1>5, Zenon DEF Ascending, Rank
<1>9. f = Ascending(S)
  BY <1>1, <1>7, <1>8
<1> QED
  BY <1>5, <1>9

\* The subsequence of a subsequence.
LEMMA AscendingOf ==
  ASSUME NEW S \in SUBSET Nat, IsFiniteSet(S), NEW K \in SUBSET (1 .. Cardinality(S)),
         NEW T, T = {Ascending(S)[k] : k \in K}
  PROVE  /\ IsFiniteSet(K) /\ Cardinality(K) \in Nat /\ T \in SUBSET S
         /\ Cardinality(T) = Cardinality(K)
         /\ \A k \in 1 .. Cardinality(K) :
              Ascending(K)[k] \in K /\ Ascending(T)[k] = Ascending(S)[Ascending(K)[k]]
<1> DEFINE n == Cardinality(S)
           m == Cardinality(K)
           f == Ascending(S)
           h == Ascending(K)
           g == [k \in 1 .. m |-> f[h[k]]]
<1>1. Lists(f, n, S) /\ n \in Nat
  BY AscendingLists
<1>2. IsFiniteSet(1 .. n)
  BY <1>1, FS_Interval
<1>3. IsFiniteSet(K) /\ K \in SUBSET Nat
  <2>1. IsFiniteSet(K)
    BY <1>2, FS_Subset
  <2>2. \A k \in 1 .. n : k \in Nat
    BY <1>1
  <2> QED
    BY <2>1, <2>2
<1>4. Lists(h, m, K) /\ m \in Nat
  BY <1>3, AscendingLists
<1> HIDE DEF f, h, n, m
<1>5. \A k \in 1 .. m : h[k] \in K /\ h[k] \in 1 .. n
  BY <1>4 DEF Lists, n
<1>6. \A k \in 1 .. n : f[k] \in S
  BY <1>1 DEF Lists
<1>7. T \in SUBSET S
  BY <1>6 DEF f, n
<1>8. g \in [1 .. m -> T]
  BY <1>5 DEF f
<1>9. ASSUME NEW j \in 1 .. m, NEW k \in 1 .. m, j < k PROVE g[j] < g[k]
  <2>1. h[j] < h[k]
    BY <1>4, <1>9 DEF Lists
  <2>2. f[h[j]] < f[h[k]]
    BY <1>1, <1>5, <2>1 DEF Lists
  <2> QED
    BY <2>2
<1>10. ASSUME NEW i \in T PROVE \E k \in 1 .. m : g[k] = i
  <2>1. PICK p \in K : i = f[p]
    BY DEF f
  <2>2. PICK k \in 1 .. m : h[k] = p
    BY <1>4 DEF Lists
  <2> QED
    BY <2>1, <2>2
<1>11. Lists(g, m, T)
  BY <1>8, <1>9, <1>10 DEF Lists
<1>12. m = Cardinality(T) /\ g = Ascending(T)
  <2>1. T \in SUBSET Nat
    BY <1>7
  <2> HIDE DEF g
  <2> QED
    BY <1>4, <1>11, <2>1, ListsOnce
<1>13. \A k \in 1 .. m : Ascending(T)[k] = f[h[k]]
  <2>1. \A k \in 1 .. m : g[k] = f[h[k]]
    OBVIOUS
  <2> HIDE DEF g
  <2> QED
    BY <1>12, <2>1
<1> QED
  BY <1>3, <1>4, <1>5, <1>7, <1>12, <1>13 DEF m, h, f

\* One more position, behind the others.
LEMMA AscendingMore ==
  ASSUME NEW S \in SUBSET Nat, IsFiniteSet(S), NEW n \in Nat, \A i \in S : i < n
  PROVE  /\ Cardinality(S) \in Nat /\ Cardinality(S \cup {n}) = Cardinality(S) + 1
         /\ IsFiniteSet(S \cup {n}) /\ S \cup {n} \in SUBSET Nat
         /\ \A k \in 1 .. Cardinality(S) + 1 :
              Ascending(S \cup {n})[k] = IF k = Cardinality(S) + 1 THEN n ELSE Ascending(S)[k]
<1> DEFINE m == Cardinality(S)
           f == Ascending(S)
           T == S \cup {n}
           g == [k \in 1 .. m + 1 |-> IF k = m + 1 THEN n ELSE f[k]]
<1>1. Lists(f, m, S) /\ m \in Nat
  BY AscendingLists
<1> HIDE DEF f, m
<1>2. \A k \in 1 .. m : f[k] \in S
  BY <1>1 DEF Lists
<1>3. \A k \in 1 .. m + 1 : k # m + 1 => k \in 1 .. m
  BY <1>1
<1>4. g \in [1 .. m + 1 -> T]
  BY <1>2, <1>3
<1>5. ASSUME NEW j \in 1 .. m + 1, NEW k \in 1 .. m + 1, j < k PROVE g[j] < g[k]
  <2>1. j \in 1 .. m
    BY <1>1, <1>5
  <2>2. CASE k = m + 1
    <3>1. g[j] = f[j] /\ g[k] = n
      BY <1>1, <2>1, <2>2
    <3> QED
      BY <1>2, <2>1, <3>1
  <2>3. CASE k # m + 1
    <3>1. k \in 1 .. m
      BY <1>3, <2>3
    <3>2. g[j] = f[j] /\ g[k] = f[k]
      BY <1>1, <2>1, <3>1
    <3> QED
      BY <1>1, <1>5, <2>1, <3>1, <3>2 DEF Lists
  <2> QED
    BY <2>2, <2>3
<1>6. ASSUME NEW i \in T PROVE \E k \in 1 .. m + 1 : g[k] = i
  <2>1. CASE i = n
    <3>1. m + 1 \in 1 .. m + 1
      BY <1>1
    <3> QED
      BY <2>1, <3>1
  <2>2. CASE i \in S
    <3>1. PICK k \in 1 .. m : f[k] = i
      BY <1>1, <2>2 DEF Lists
    <3>2. k \in 1 .. m + 1 /\ k # m + 1
      BY <1>1
    <3> QED
      BY <3>1, <3>2
  <2> QED
    BY <2>1, <2>2
<1>7. Lists(g, m + 1, T)
  BY <1>4, <1>5, <1>6 DEF Lists
<1>8. IsFiniteSet(T) /\ m + 1 = Cardinality(T) /\ g = Ascending(T)
  <2>1. T \in SUBSET Nat /\ m + 1 \in Nat
    BY <1>1
  <2> HIDE DEF T, g
  <2> QED
    BY <1>7, <2>1, ListsOnce
<1>9. \A k \in 1 .. m + 1 : Ascending(T)[k] = IF k = m + 1 THEN n ELSE f[k]
  <2>1. \A k \in 1 .. m + 1 : g[k] = IF k = m + 1 THEN n ELSE f[k]
    OBVIOUS
  <2> HIDE DEF g
  <2> QED
    BY <1>8, <2>1
<1> QED
  BY <1>1, <1>8, <1>9 DEF m, f

-----------------------------------------------------------------------------
\* Sums

\* The least number of a set.
LEMMA LeastNumber ==
  ASSUME NEW T \in SUBSET Nat, T # {}
  PROVE  \E n \in T : \A m \in T : n <= m
<1>1. PICK n \in T : \A m \in T : ~(<<m, n>> \in OpToRel(<, Nat))
  BY NatLessThanWellFounded, WFMin, Zenon
<1>2. \A m \in T : m < n => <<m, n>> \in OpToRel(<, Nat)
  BY Zenon DEF OpToRel
<1>3. \A m \in T : ~(m < n)
  BY <1>1, <1>2, Zenon
<1> QED
  BY <1>3

\* A smallest one of some subsets of a finite set.
LEMMA SmallestSubset ==
  ASSUME NEW U, IsFiniteSet(U), NEW Bad \in SUBSET (SUBSET U), Bad # {}
  PROVE  \E T \in Bad : IsFiniteSet(T) /\ \A x \in T : T \ {x} \notin Bad
<1>1. \A T \in Bad : IsFiniteSet(T) /\ Cardinality(T) \in Nat
  <2>1. \A T \in Bad : IsFiniteSet(T)
    BY FS_Subset
  <2> QED
    BY <2>1, FS_CardinalityType
<1> DEFINE sizes == {Cardinality(T) : T \in Bad}
<1>2. PICK n \in sizes : \A m \in sizes : n <= m
  <2>1. sizes \in SUBSET Nat /\ sizes # {}
    BY <1>1
  <2> HIDE DEF sizes
  <2> QED
    BY <2>1, LeastNumber
<1>3. PICK T \in Bad : n = Cardinality(T)
  BY <1>2
<1>4. ASSUME NEW x \in T, T \ {x} \in Bad PROVE FALSE
  <2>1. Cardinality(T \ {x}) = Cardinality(T) - 1
    BY <1>1, FS_RemoveElement
  <2>2. Cardinality(T \ {x}) \in sizes
    BY <1>4
  <2>3. n <= Cardinality(T \ {x})
    BY <1>2, <2>2
  <2> QED
    BY <1>1, <1>3, <2>1, <2>3
<1> QED
  BY <1>1, <1>4

\* The element that a fold takes next.
Chosen(s) == CHOOSE x \in s : TRUE

\* It is one of the set.
LEMMA ChosenIsIn ==
  ASSUME NEW s, s # {}
  PROVE  Chosen(s) \in s
BY Zenon DEF Chosen

\* g is the function that SumFunctionOnSet(f, U) evaluates at U.
SumsUp(g, f, U) ==
  g = [s \in SUBSET U |-> IF s = {} THEN 0 ELSE f[Chosen(s)] + g[s \ {Chosen(s)}]]

\* There is such a function: it is defined for the sets of up to n elements, for every n.
SumsUpTo(g, f, U, n) ==
  \A s \in SUBSET U : Cardinality(s) <= n =>
    g[s] = IF s = {} THEN 0 ELSE f[Chosen(s)] + g[s \ {Chosen(s)}]

\* What is defined up to n elements can be defined up to one more.
LEMMA SumsUpFurther ==
  ASSUME NEW U, IsFiniteSet(U), NEW f, NEW n \in Nat, NEW g, SumsUpTo(g, f, U, n)
  PROVE  \E h : SumsUpTo(h, f, U, n + 1)
<1> DEFINE h == [s \in SUBSET U |-> IF s = {} THEN 0 ELSE f[Chosen(s)] + g[s \ {Chosen(s)}]]
<1>1. ASSUME NEW s \in SUBSET U, Cardinality(s) <= n + 1, s # {}
      PROVE  h[s \ {Chosen(s)}] = g[s \ {Chosen(s)}]
  <2>1. Chosen(s) \in s
    BY <1>1, ChosenIsIn
  <2>2. IsFiniteSet(s)
    BY FS_Subset
  <2>3. Cardinality(s \ {Chosen(s)}) = Cardinality(s) - 1 /\ Cardinality(s) \in Nat
    BY <2>1, <2>2, FS_RemoveElement, FS_CardinalityType
  <2> DEFINE t == s \ {Chosen(s)}
  <2>4. t \in SUBSET U /\ Cardinality(t) <= n
    BY <1>1, <2>3
  <2> HIDE DEF t
  <2>5. h[t] = g[t]
    BY <2>4 DEF SumsUpTo
  <2> QED
    BY <2>5 DEF t
<1>2. \A s \in SUBSET U : h[s] = IF s = {} THEN 0 ELSE f[Chosen(s)] + g[s \ {Chosen(s)}]
  OBVIOUS
<1> HIDE DEF h
<1>3. SumsUpTo(h, f, U, n + 1)
  BY <1>1, <1>2 DEF SumsUpTo
<1> QED
  BY <1>3

\* There is such a function for every finite set: at the least number of elements without
\* one there would be one.
LEMMA SumExists ==
  ASSUME NEW U, IsFiniteSet(U), NEW f
  PROVE  \E g : SumsUp(g, f, U)
<1> DEFINE Missing == {n \in Nat : \A g : ~SumsUpTo(g, f, U, n)}
<1>1. 0 \notin Missing
  <2> DEFINE g == [s \in SUBSET U |-> 0]
  <2>1. \A s \in SUBSET U : Cardinality(s) <= 0 => s = {}
    <3>1. SUFFICES ASSUME NEW s \in SUBSET U, Cardinality(s) <= 0 PROVE s = {}
      OBVIOUS
    <3>2. IsFiniteSet(s)
      BY FS_Subset
    <3>3. Cardinality(s) = 0
      BY <3>1, <3>2, FS_CardinalityType
    <3> QED
      BY <3>2, <3>3, FS_EmptySet
  <2>2. SumsUpTo(g, f, U, 0)
    BY <2>1 DEF SumsUpTo
  <2> QED
    BY <2>2
<1>2. Missing = {}
  <2>1. SUFFICES ASSUME Missing # {} PROVE FALSE
    OBVIOUS
  <2>2. PICK n \in Missing : \A m \in Missing : n <= m
    BY <2>1, LeastNumber
  <2>3. n - 1 \in Nat /\ n - 1 \notin Missing /\ n = (n - 1) + 1
    BY <1>1, <2>2
  <2>4. PICK g : SumsUpTo(g, f, U, n - 1)
    BY <2>3
  <2>5. \E h : SumsUpTo(h, f, U, n)
    BY <2>3, <2>4, SumsUpFurther
  <2> QED
    BY <2>2, <2>5
<1>3. Cardinality(U) \in Nat
  BY FS_CardinalityType
<1>4. PICK g : SumsUpTo(g, f, U, Cardinality(U))
  BY <1>2, <1>3
<1>5. \A s \in SUBSET U : Cardinality(s) <= Cardinality(U)
  BY FS_Subset
<1> DEFINE h == [s \in SUBSET U |-> g[s]]
<1>6. ASSUME NEW s \in SUBSET U
      PROVE  h[s] = IF s = {} THEN 0 ELSE f[Chosen(s)] + h[s \ {Chosen(s)}]
  <2>1. s \ {Chosen(s)} \in SUBSET U
    OBVIOUS
  <2>2. h[s \ {Chosen(s)}] = g[s \ {Chosen(s)}] /\ h[s] = g[s]
    BY <2>1
  <2> HIDE DEF h
  <2> QED
    BY <1>4, <1>5, <2>2 DEF SumsUpTo
<1>7. SumsUp(h, f, U)
  <2>1. h = [s \in SUBSET U |-> h[s]]
    OBVIOUS
  <2> HIDE DEF h
  <2> QED
    BY <1>6, <2>1, Zenon DEF SumsUp
<1> QED
  BY <1>7

\* The library's sum is what such a function gives.
LEMMA SumIsThat ==
  ASSUME NEW U, IsFiniteSet(U), NEW f
  PROVE  \E g : SumsUp(g, f, U) /\ SumFunctionOnSet(f, U) = g[U]
<1>1. SumFunctionOnSet(f, U) = (CHOOSE g : SumsUp(g, f, U))[U]
  BY Zenon DEF SumFunctionOnSet, FoldFunctionOnSet, MapThenFoldSet, SumsUp, Chosen
<1>2. SumsUp(CHOOSE g : SumsUp(g, f, U), f, U)
  BY SumExists, Zenon
<1> QED
  BY <1>1, <1>2

\* Two of them agree on a set whose numbers are the same: on a smallest set where they
\* differ they would not.
LEMMA SumsAgree ==
  ASSUME NEW U, IsFiniteSet(U), NEW f, NEW g, SumsUp(g, f, U),
         NEW V, NEW e, NEW h, SumsUp(h, e, V),
         NEW T \in SUBSET U, T \in SUBSET V, \A x \in T : f[x] = e[x]
  PROVE  g[T] = h[T]
<1> DEFINE Bad == {s \in SUBSET T : g[s] # h[s]}
<1>0. IsFiniteSet(T)
  BY FS_Subset
<1>1. SUFFICES ASSUME Bad # {} PROVE FALSE
  OBVIOUS
<1>2. PICK s \in Bad : \A x \in s : s \ {x} \notin Bad
  BY <1>0, <1>1, SmallestSubset
<1>3. s \in SUBSET T /\ g[s] # h[s] /\ s \in SUBSET U /\ s \in SUBSET V
  BY <1>2
<1>4. g[s] = IF s = {} THEN 0 ELSE f[Chosen(s)] + g[s \ {Chosen(s)}]
  BY <1>3 DEF SumsUp
<1>5. h[s] = IF s = {} THEN 0 ELSE e[Chosen(s)] + h[s \ {Chosen(s)}]
  BY <1>3 DEF SumsUp
<1>6. s # {}
  BY <1>3, <1>4, <1>5
<1>7. Chosen(s) \in s
  BY <1>6, ChosenIsIn
<1>8. g[s \ {Chosen(s)}] = h[s \ {Chosen(s)}]
  BY <1>2, <1>3, <1>7
<1>9. f[Chosen(s)] = e[Chosen(s)]
  BY <1>3, <1>7
<1> QED
  BY <1>3, <1>4, <1>5, <1>6, <1>8, <1>9

\* A sum, unfolded once.
LEMMA SumUnfolds ==
  ASSUME NEW S, IsFiniteSet(S), NEW f
  PROVE  SumFunctionOnSet(f, S) =
           IF S = {} THEN 0 ELSE f[Chosen(S)] + SumFunctionOnSet(f, S \ {Chosen(S)})
<1> DEFINE T == S \ {Chosen(S)}
<1>1. PICK g : SumsUp(g, f, S) /\ SumFunctionOnSet(f, S) = g[S]
  BY SumIsThat
<1>2. g[S] = IF S = {} THEN 0 ELSE f[Chosen(S)] + g[T]
  <2>1. S \in SUBSET S
    OBVIOUS
  <2> QED
    BY <1>1, <2>1 DEF SumsUp
<1>3. IsFiniteSet(T)
  BY FS_Subset
<1>4. PICK h : SumsUp(h, f, T) /\ SumFunctionOnSet(f, T) = h[T]
  BY <1>3, SumIsThat
<1>5. g[T] = h[T]
  <2>1. T \in SUBSET S /\ T \in SUBSET T
    OBVIOUS
  <2> HIDE DEF T
  <2> QED
    BY <1>1, <1>4, <2>1, SumsAgree
<1> QED
  BY <1>1, <1>2, <1>4, <1>5

\* A sum depends on the terms alone.
LEMMA SumOfTheSame ==
  ASSUME NEW S, IsFiniteSet(S), NEW f, NEW e, \A x \in S : f[x] = e[x]
  PROVE  SumFunctionOnSet(f, S) = SumFunctionOnSet(e, S)
<1>1. PICK g : SumsUp(g, f, S) /\ SumFunctionOnSet(f, S) = g[S]
  BY SumIsThat
<1>2. PICK h : SumsUp(h, e, S) /\ SumFunctionOnSet(e, S) = h[S]
  BY SumIsThat
<1>3. S \in SUBSET S
  OBVIOUS
<1>4. g[S] = h[S]
  BY <1>1, <1>2, <1>3, SumsAgree
<1> QED
  BY <1>1, <1>2, <1>4

\* A sum of numbers is one.
LEMMA SumType ==
  ASSUME NEW S, IsFiniteSet(S), NEW f, \A x \in S : f[x] \in Nat
  PROVE  SumFunctionOnSet(f, S) \in Nat
<1> DEFINE Bad == {T \in SUBSET S : SumFunctionOnSet(f, T) \notin Nat}
<1>1. SUFFICES ASSUME Bad # {} PROVE FALSE
  OBVIOUS
<1>2. PICK T \in Bad : IsFiniteSet(T) /\ \A x \in T : T \ {x} \notin Bad
  BY <1>1, SmallestSubset
<1>3. SumFunctionOnSet(f, T) = IF T = {} THEN 0 ELSE f[Chosen(T)] + SumFunctionOnSet(f, T \ {Chosen(T)})
  BY <1>2, SumUnfolds
<1>4. T # {}
  BY <1>2, <1>3
<1>5. Chosen(T) \in T /\ T \ {Chosen(T)} \in SUBSET S
  BY <1>4, ChosenIsIn
<1>6. SumFunctionOnSet(f, T \ {Chosen(T)}) \in Nat
  BY <1>2, <1>5
<1>7. f[Chosen(T)] \in Nat
  BY <1>5
<1> QED
  BY <1>2, <1>3, <1>4, <1>6, <1>7

\* In which order the terms are added does not matter.
LEMMA SumWithout ==
  ASSUME NEW S, IsFiniteSet(S), NEW f, \A x \in S : f[x] \in Nat, NEW a \in S
  PROVE  SumFunctionOnSet(f, S) = f[a] + SumFunctionOnSet(f, S \ {a})
<1> DEFINE Bad == {T \in SUBSET S : \E b \in T : SumFunctionOnSet(f, T) # f[b] + SumFunctionOnSet(f, T \ {b})}
<1>1. SUFFICES ASSUME Bad # {} PROVE FALSE
  <2>1. S \in SUBSET S
    OBVIOUS
  <2> QED
    BY <2>1
<1>2. PICK T \in Bad : IsFiniteSet(T) /\ \A x \in T : T \ {x} \notin Bad
  <2>1. Bad \in SUBSET (SUBSET S)
    OBVIOUS
  <2> HIDE DEF Bad
  <2> QED
    BY <1>1, <2>1, SmallestSubset
<1>3. PICK b \in T : SumFunctionOnSet(f, T) # f[b] + SumFunctionOnSet(f, T \ {b})
  BY <1>2
<1>4. PICK c \in T : c = Chosen(T)
  BY <1>3, ChosenIsIn
<1>5. SumFunctionOnSet(f, T) = f[c] + SumFunctionOnSet(f, T \ {c})
  BY <1>2, <1>4, SumUnfolds
<1>6. c # b
  BY <1>3, <1>5
<1>7. T \ {c} \in SUBSET S /\ T \ {b} \in SUBSET S /\ b \in T \ {c} /\ c \in T \ {b}
  BY <1>2, <1>3, <1>4, <1>6
<1>8. SumFunctionOnSet(f, T \ {c}) = f[b] + SumFunctionOnSet(f, (T \ {c}) \ {b})
  BY <1>2, <1>4, <1>7
<1>9. SumFunctionOnSet(f, T \ {b}) = f[c] + SumFunctionOnSet(f, (T \ {b}) \ {c})
  BY <1>2, <1>3, <1>7
<1>10. (T \ {c}) \ {b} = (T \ {b}) \ {c}
  OBVIOUS
<1>11. SumFunctionOnSet(f, (T \ {b}) \ {c}) \in Nat /\ f[b] \in Nat /\ f[c] \in Nat
  <2> DEFINE R == (T \ {b}) \ {c}
  <2>1. R \in SUBSET S
    BY <1>7
  <2>2. IsFiniteSet(R) /\ \A x \in R : f[x] \in Nat
    BY <2>1, FS_Subset
  <2>3. b \in S /\ c \in S
    BY <1>7
  <2> HIDE DEF R
  <2>4. SumFunctionOnSet(f, R) \in Nat
    BY <2>2, SumType
  <2> QED
    BY <2>3, <2>4 DEF R
<1>12. f[c] + (f[b] + SumFunctionOnSet(f, (T \ {b}) \ {c})) = f[b] + (f[c] + SumFunctionOnSet(f, (T \ {b}) \ {c}))
  BY <1>11
<1> QED
  BY <1>3, <1>5, <1>8, <1>9, <1>10, <1>12

\* One more term.
LEMMA SumMore ==
  ASSUME NEW S, IsFiniteSet(S), NEW a, a \notin S, NEW f, \A x \in S \cup {a} : f[x] \in Nat
  PROVE  /\ SumFunctionOnSet(f, S) \in Nat
         /\ SumFunctionOnSet(f, S \cup {a}) = SumFunctionOnSet(f, S) + f[a]
<1>1. IsFiniteSet(S \cup {a})
  BY FS_AddElement
<1>2. (S \cup {a}) \ {a} = S
  OBVIOUS
<1>3. SumFunctionOnSet(f, S) \in Nat
  BY SumType
<1>4. SumFunctionOnSet(f, S \cup {a}) = f[a] + SumFunctionOnSet(f, (S \cup {a}) \ {a})
  BY <1>1, SumWithout
<1>5. f[a] \in Nat
  OBVIOUS
<1> QED
  BY <1>2, <1>3, <1>4, <1>5

-----------------------------------------------------------------------------
\* The inductive invariant

Sides == {"buy", "sell"}
Event == [kind : {"New", "Cancel", "Replace", "Execution"}, id : Nat, orig : Nat,
          account : Accounts, instrument : Instruments, side : Sides, price : Int, qty : Nat,
          counterparty : Accounts \cup {NoAccount}, trade : Nat, ts : Int]
RestingOrder == [id : Nat, side : Sides, price : Int, qty : Nat]

\* The ids of a feed are given out one after the other.
FeedOK ==
  /\ feed \in Feeds
  /\ published \in Seq(Event) /\ Len(published) <= feed.length /\ lost \in 0 .. feed.drops
  /\ FreshId \in Nat \ {0} /\ IdsUsed = 1 .. FreshId - 1

IsSequence(s) == s \in Seq(Range(s))

ProcessedOK ==
  /\ accepted \in Seq(Event)
  /\ books \in [Instruments -> SUBSET RestingOrder]
  /\ sequence \in [Instruments -> Nat] /\ skipped \in Nat
  /\ IsSequence(alerts)

IsPlacement(p) ==
  /\ p = [account |-> p.account, instrument |-> p.instrument, side |-> p.side, left |-> p.left,
          placed |-> p.placed, depth |-> p.depth, opposite |-> p.opposite]
  /\ p.account \in Accounts /\ p.instrument \in Instruments /\ p.side \in Sides
  /\ p.left \in Nat /\ p.placed \in Int

EntriesOK(entries) ==
  /\ entries = [id \in DOMAIN entries |-> entries[id]]
  /\ \A id \in DOMAIN entries : IsPlacement(entries[id])

TrackingOK ==
  /\ EntriesOK(tracked) /\ DOMAIN tracked \subseteq IdsUsed
  /\ counts \in [Spoofing!Keys -> Nat]
  /\ ambient = [k \in Spoofing!SideKeys |-> ambient[k]]

\* Every tracked order was placed by an event the pipeline accepted, and no later one has
\* replaced or cancelled it.
PlacedBy(id, p) ==
  /\ accepted[p].kind \in {"New", "Replace"} /\ accepted[p].id = id
  /\ accepted[p].ts = tracked[id].placed /\ accepted[p].account = tracked[id].account
  /\ \A m \in p + 1 .. Len(accepted) : accepted[m].orig = id => accepted[m].kind = "Execution"
LifecycleOK == \A id \in DOMAIN tracked : \E p \in 1 .. Len(accepted) : PlacedBy(id, p)

\* The alerts of an instrument, as the state of the detector remembers them: each is of
\* accounts of one group, one of which is marked as alerted.
Remembered(s, alert) ==
  /\ alert.instrument \in Instruments /\ alert.accounts \subseteq Closing!Seen(s)
  /\ \A x, y \in alert.accounts : s.group[x] = s.group[y]
  /\ \E x \in alert.accounts : <<alert.instrument, x>> \in s.alerted
IsClosing(alert) == alert.detector = "MarkingTheClose"
GroupsOK(s, list) ==
  /\ \A n \in 1 .. Len(list) : IsClosing(list[n]) => Remembered(s, list[n])
  /\ \A m, n \in 1 .. Len(list) :
       IsClosing(list[m]) /\ IsClosing(list[n]) /\ m # n /\ list[m].instrument = list[n].instrument
       => list[m].accounts \cap list[n].accounts = {}

CloseStates ==
  [total : [Instruments -> Nat], volume : [Closing!AccountKeys -> Nat],
   trades : [Closing!AccountKeys -> Seq(Nat)], alerted : SUBSET Closing!AccountKeys,
   group : [Accounts -> Accounts \cup {NoAccount}]]

ClosingOK == close \in CloseStates /\ GroupsOK(close, alerts)

\* The New orders of an instrument and side that no later one of them found outside the
\* window, in order: what FrontRunningDetector compares a new one with.
Joins(n, key) == accepted[n].kind = "New" /\ <<accepted[n].instrument, accepted[n].side>> = key
Remaining(key) ==
  {n \in DOMAIN accepted :
     /\ Joins(n, key)
     /\ \A m \in n + 1 .. Len(accepted) :
          Joins(m, key) => Spoofing!Distance(accepted[m].ts, accepted[n].ts) <= Lookback}
Prior(event) == [account |-> event.account, id |-> event.id, qty |-> event.qty, ts |-> event.ts]
RecentOn(list, key) ==
  /\ IsSequence(list) /\ Len(list) = Cardinality(Remaining(key))
  /\ \A k \in 1 .. Len(list) : list[k] = Prior(accepted[Ascending(Remaining(key))[k]])
RecentOK ==
  /\ recent = [key \in Instruments \X Sides |-> recent[key]]
  /\ \A key \in Instruments \X Sides : RecentOn(recent[key], key)

SurveillanceInv ==
  FeedOK /\ ProcessedOK /\ RecentOK /\ TrackingOK /\ LifecycleOK /\ SpoofingAlertsNameOneLifecycle /\ ClosingOK

\* No New takes the id of another.
UniqueIds == \A f \in Feeds : ~f.reuse

PlacedOnce == \A m, n \in Placed : published[m].id = published[n].id => m = n

\* A tracked order is the one that was published under its id.
OriginOK ==
  \A id \in DOMAIN tracked : \E n \in Placed :
    /\ published[n].id = id
    /\ Spoofing!KeyOf(tracked[id]) = Spoofing!KeyOf(published[n])

\* The entries of an instrument are the orders of its book.
Mirrors(book, entries, i) ==
  /\ \A o \in book :
       /\ o.id \in DOMAIN entries /\ entries[o.id].instrument = i
       /\ entries[o.id].side = o.side /\ entries[o.id].left = o.qty
  /\ \A id \in DOMAIN entries : entries[id].instrument = i => \E o \in book : o.id = id
  /\ \A o, p \in book : o.id = p.id => o = p
MirrorOK == \A i \in Instruments : Mirrors(books[i], tracked, i)

UniqueInv == PlacedOnce /\ OriginOK /\ CountsMatchTracked /\ MirrorOK

-----------------------------------------------------------------------------
\* What can arrive

\* The clock of a feed is a number.
LEMMA NowIsATime == FeedOK => Now \in Int
<1> SUFFICES ASSUME FeedOK, published # <<>> PROVE published[Len(published)].ts \in Int
  BY DEF Now, Last
<1>1. published \in Seq(Event) /\ Len(published) \in 1 .. Len(published)
  BY DEF FeedOK
<1>2. published[Len(published)] \in Event
  BY <1>1, ElementOfSeq
<1> QED
  BY <1>2 DEF Event

\* The events a feed has sent are events, under the ids given out.
LEMMA PublishedEvents ==
  ASSUME FeedOK
  PROVE  /\ Len(published) \in Nat /\ DOMAIN published = 1 .. Len(published)
         /\ \A n \in 1 .. Len(published) :
              published[n] \in Event /\ published[n].id \in IdsUsed
         /\ IdsUsed = 1 .. FreshId - 1 /\ FreshId \in Nat \ {0}
<1>1. published \in Seq(Event)
  BY DEF FeedOK
<1>2. Len(published) \in Nat /\ DOMAIN published = 1 .. Len(published)
  BY <1>1, LenProperties
<1>3. \A n \in 1 .. Len(published) : published[n] \in Event
  BY <1>1, ElementOfSeq
<1>4. \A n \in 1 .. Len(published) : published[n].id \in IdsUsed
  BY <1>2 DEF IdsUsed
<1> QED
  BY <1>2, <1>3, <1>4 DEF FeedOK

\* The event concerns the order placed by the n-th.
About(event, n) ==
  event.account = published[n].account /\ event.instrument = published[n].instrument
    /\ event.side = published[n].side

IsNew(event) ==
  event.kind = "New" /\ event.orig = event.id /\ event.id \in 1 .. FreshId
    /\ (~feed.reuse => event.id = FreshId)
IsCancel(event) ==
  event.kind = "Cancel" /\ event.orig = event.id
    /\ \E n \in Placed : event.id = published[n].id /\ About(event, n)
IsReplace(event) ==
  event.kind = "Replace" /\ event.id = FreshId
    /\ \E n \in Placed : event.orig = published[n].id /\ About(event, n)
IsExecution(event) ==
  event.kind = "Execution" /\ \E n \in Placed : event.id = published[n].id /\ About(event, n)
Arrives(event) ==
  event \in Event /\ (IsNew(event) \/ IsCancel(event) \/ IsReplace(event) \/ IsExecution(event))

\* A new order of a feed is one of its offers under an id that is free or its own.
LEMMA NewArrives ==
  ASSUME FeedOK, NEW order \in Offer, NEW id \in 1 .. FreshId, ~feed.reuse => id = FreshId
  PROVE  Arrives(NewOrder(order, id))
<1>1. Now \in Int /\ FreshId \in Nat
  BY NowIsATime, PublishedEvents
<1>2. /\ order.account \in Accounts /\ order.instrument \in Instruments /\ order.side \in Sides
      /\ order.price \in Int /\ order.qty \in Nat
  BY DEF Offer, Sides
<1>3. NewOrder(order, id) \in Event
  BY <1>1, <1>2 DEF NewOrder, Event
<1> QED
  BY <1>1, <1>3 DEF NewOrder, Arrives, IsNew

\* The rest concerns an order that was placed.
LEMMA FollowUpArrives ==
  ASSUME FeedOK, NEW e \in Cancels \cup Replaces \cup Fills
  PROVE  Arrives(e)
<1>1. /\ FreshId \in Nat /\ Len(published) + 1 \in Nat
      /\ \A n \in Placed : published[n] \in Event /\ published[n].id \in IdsUsed
      /\ IdsUsed = 1 .. FreshId - 1
  BY PublishedEvents DEF Placed
<1>2. /\ \A r \in feed.replaces : r.price \in Int /\ r.qty \in Nat
      /\ \A f \in feed.fills : f.counterparty \in Accounts \cup {NoAccount} /\ f.qty \in Nat
  BY FeedsAssumption DEF FeedOK
<1>3. CASE e \in Cancels
  <2>1. PICK n \in Placed : e = [published[n] EXCEPT !.kind = "Cancel", !.orig = published[n].id]
    BY <1>3 DEF Cancels
  <2> QED
    BY <1>1, <2>1 DEF Event, Arrives, IsCancel, About
<1>4. CASE e \in Replaces
  <2>1. PICK n \in Placed, r \in feed.replaces :
          e = Replaced(published[n], r)
    BY <1>4 DEF Replaces
  <2>2. published[n] \in Event /\ published[n].id \in Nat /\ r.price \in Int /\ r.qty \in Nat
    BY <1>1, <1>2 DEF Event
  <2>3. /\ e \in Event /\ e.kind = "Replace" /\ e.id = FreshId /\ e.orig = published[n].id
        /\ e.account = published[n].account /\ e.instrument = published[n].instrument
        /\ e.side = published[n].side
    BY <1>1, <2>1, <2>2 DEF Event, Replaced
  <2> QED
    BY <2>3 DEF Arrives, IsReplace, About
<1>5. CASE e \in Fills
  <2>1. PICK n \in Placed, f \in feed.fills :
          e = Filled(published[n], f)
    BY <1>5 DEF Fills
  <2>2. published[n] \in Event /\ f.counterparty \in Accounts \cup {NoAccount} /\ f.qty \in Nat
    BY <1>1, <1>2
  <2>3. /\ e \in Event /\ e.kind = "Execution" /\ e.id = published[n].id
        /\ e.account = published[n].account /\ e.instrument = published[n].instrument
        /\ e.side = published[n].side
    BY <1>1, <2>1, <2>2 DEF Event, Filled
  <2> QED
    BY <2>3 DEF Arrives, IsExecution, About
<1> QED
  BY <1>3, <1>4, <1>5

\* Another time makes no other event of it.
LEMMA AnyTimeArrives ==
  ASSUME NEW e, Arrives(e), NEW ts \in Int
  PROVE  Arrives([e EXCEPT !.ts = ts])
<1>1. e \in Event
  BY DEF Arrives
<1>2. /\ [e EXCEPT !.ts = ts] \in Event
      /\ [e EXCEPT !.ts = ts].kind = e.kind /\ [e EXCEPT !.ts = ts].id = e.id
      /\ [e EXCEPT !.ts = ts].orig = e.orig /\ [e EXCEPT !.ts = ts].account = e.account
      /\ [e EXCEPT !.ts = ts].instrument = e.instrument /\ [e EXCEPT !.ts = ts].side = e.side
  BY <1>1 DEF Event
<1> QED
  BY <1>2 DEF Arrives, IsNew, IsCancel, IsReplace, IsExecution, About

\* Every arrival is one of these.
LEMMA ArrivalsArrive ==
  ASSUME FeedOK, NEW event \in Arrivals
  PROVE  Arrives(event)
<1>1. Now \in Int /\ FreshId \in Nat \ {0} /\ FreshId \in 1 .. FreshId /\ Len(published) \in Nat
  BY NowIsATime, PublishedEvents
<1>2. /\ feed.opening \in Seq(Offer) /\ feed.orders \subseteq Offer /\ feed.gaps \subseteq Int
  BY FeedsAssumption DEF FeedOK
<1>3. CASE Len(published) < Len(feed.opening)
  <2>1. Len(feed.opening) \in Nat
    BY <1>2, LenProperties
  <2>2. Len(published) + 1 \in 1 .. Len(feed.opening)
    BY <1>1, <1>3, <2>1
  <2>3. feed.opening[Len(published) + 1] \in Offer
    BY <1>2, <2>2, ElementOfSeq
  <2>4. event = NewOrder(feed.opening[Len(published) + 1], FreshId)
    BY <1>3 DEF Arrivals
  <2> QED
    BY <1>1, <2>3, <2>4, NewArrives
<1>4. CASE ~(Len(published) < Len(feed.opening))
  <2>1. PICK e \in NewOrders \cup Cancels \cup Replaces \cup Fills, gap \in feed.gaps :
          event = [e EXCEPT !.ts = Now + gap]
    BY <1>4 DEF Arrivals
  <2>2. Now + gap \in Int
    BY <1>1, <1>2
  <2>3. CASE e \in NewOrders
    <3>1. PICK order \in feed.orders, id \in (IF feed.reuse THEN 1 .. FreshId ELSE {FreshId}) :
            e = NewOrder(order, id)
      BY <2>3 DEF NewOrders
    <3>2. order \in Offer /\ id \in 1 .. FreshId /\ (~feed.reuse => id = FreshId)
      BY <1>1, <1>2, <3>1
    <3>3. Arrives(e)
      BY <3>1, <3>2, NewArrives
    <3> QED
      BY <2>1, <2>2, <3>3, AnyTimeArrives
  <2>4. CASE e \in Cancels \cup Replaces \cup Fills
    BY <2>1, <2>2, <2>4, FollowUpArrives, AnyTimeArrives
  <2> QED
    BY <2>1, <2>3, <2>4
<1> QED
  BY <1>3, <1>4

-----------------------------------------------------------------------------
\* Steps

\* A step sends one event, which is delivered or lost.
LEMMA NextSends ==
  ASSUME FeedOK, [Next]_vars
  PROVE  \/ UNCHANGED vars
         \/ \E event : /\ Arrives(event) /\ published' = Append(published, event) /\ feed' = feed
                       /\ Len(published) < feed.length
                       /\ Deliver(event) \/ LoseOnTheRing(event)
<1>1. CASE UNCHANGED vars
  BY <1>1
<1>2. CASE Next
  <2>1. PICK event \in Arrivals : Deliver(event) \/ LoseOnTheRing(event)
    BY <1>2 DEF Next
  <2>2. Len(published) < feed.length
    BY <1>2 DEF Next
  <2>3. published' = Append(published, event) /\ feed' = feed
    BY <2>1 DEF Deliver, LoseOnTheRing
  <2> QED
    BY <2>1, <2>2, <2>3, ArrivalsArrive
<1> QED
  BY <1>1, <1>2

\* What an event does to the ids and placements of the feed.
LEMMA PublishedGrows ==
  ASSUME FeedOK, NEW event, Arrives(event), published' = Append(published, event)
  PROVE  /\ published' \in Seq(Event) /\ Len(published') = Len(published) + 1
         /\ \A n \in 1 .. Len(published) : published'[n] = published[n]
         /\ published'[Len(published) + 1] = event
         /\ Placed \subseteq Placed'
         /\ Placed' = Placed \cup (IF event.kind \in {"New", "Replace"} THEN {Len(published) + 1} ELSE {})
         /\ IdsUsed' = IdsUsed \cup {event.id}
         /\ FreshId' \in Nat \ {0} /\ IdsUsed' = 1 .. FreshId' - 1
<1>1. event \in Event /\ published \in Seq(Event) /\ Len(published) \in Nat
  BY LenProperties DEF Arrives, FeedOK
<1>2. /\ published' \in Seq(Event) /\ Len(published') = Len(published) + 1
      /\ \A n \in 1 .. Len(published) : published'[n] = published[n]
      /\ published'[Len(published) + 1] = event
  BY <1>1, AppendProperties
<1>3. DOMAIN published = 1 .. Len(published) /\ DOMAIN published' = 1 .. Len(published) + 1
  BY <1>1, <1>2, LenProperties
<1>4. DOMAIN published' = DOMAIN published \cup {Len(published) + 1}
      /\ Len(published) + 1 \notin DOMAIN published
  BY <1>1, <1>3
<1>5. \A n \in DOMAIN published : published'[n] = published[n]
  BY <1>2, <1>3
<1>6. /\ Placed \subseteq Placed'
      /\ Placed' = Placed \cup (IF event.kind \in {"New", "Replace"} THEN {Len(published) + 1} ELSE {})
  BY <1>2, <1>4, <1>5 DEF Placed
<1>7. IdsUsed' = IdsUsed \cup {event.id}
  BY <1>2, <1>4, <1>5 DEF IdsUsed
<1>8. FreshId \in Nat \ {0} /\ IdsUsed = 1 .. FreshId - 1 /\ event.id \in 1 .. FreshId
  <2>1. FreshId \in Nat \ {0} /\ IdsUsed = 1 .. FreshId - 1
    BY DEF FeedOK
  <2>2. \A n \in Placed : published[n].id \in 1 .. FreshId - 1
    BY PublishedEvents, <2>1 DEF Placed
  <2> QED
    BY <2>1, <2>2 DEF Arrives, IsNew, IsCancel, IsReplace, IsExecution
<1>9. \E last \in {FreshId - 1, FreshId} : IdsUsed' = 1 .. last
  <2>1. CASE event.id = FreshId
    <3>1. (1 .. FreshId - 1) \cup {FreshId} = 1 .. FreshId
      BY <1>8
    <3> QED
      BY <1>7, <1>8, <2>1, <3>1
  <2>2. CASE event.id # FreshId
    <3>1. event.id \in 1 .. FreshId - 1
      BY <1>8, <2>2
    <3> QED
      BY <1>7, <1>8, <3>1
  <2> QED
    BY <2>1, <2>2
<1>10. PICK last \in Nat : IdsUsed' = 1 .. last
  BY <1>8, <1>9
<1>11. Cardinality(1 .. last) = last
  BY <1>10, FS_Interval
<1>12. FreshId' = last + 1
  BY <1>10, <1>11 DEF FreshId
<1>13. FreshId' \in Nat \ {0} /\ IdsUsed' = 1 .. FreshId' - 1
  BY <1>10, <1>12
<1> QED
  BY <1>2, <1>6, <1>7, <1>13

\* A step keeps what is known of the feed.
LEMMA FeedStep == FeedOK /\ [Next]_vars => FeedOK'
<1> SUFFICES ASSUME FeedOK, [Next]_vars PROVE FeedOK'
  OBVIOUS
<1>1. CASE UNCHANGED vars
  BY <1>1 DEF vars, FeedOK, FreshId, IdsUsed
<1>2. ASSUME NEW event, Arrives(event), published' = Append(published, event), feed' = feed,
             Len(published) < feed.length, Deliver(event) \/ LoseOnTheRing(event)
      PROVE  FeedOK'
  <2>1. feed \in Feeds /\ feed.length \in Nat /\ feed.drops \in Nat /\ lost \in 0 .. feed.drops
        /\ Len(published) \in Nat
    BY FeedsAssumption, PublishedEvents DEF FeedOK
  <2>2. lost' \in 0 .. feed.drops
    BY <1>2, <2>1 DEF Deliver, LoseOnTheRing
  <2>3. published' \in Seq(Event) /\ Len(published') <= feed.length
        /\ FreshId' \in Nat \ {0} /\ IdsUsed' = 1 .. FreshId' - 1
    BY <1>2, <2>1, PublishedGrows
  <2> QED
    BY <1>2, <2>1, <2>2, <2>3 DEF FeedOK
<1> QED
  BY <1>1, <1>2, NextSends

-----------------------------------------------------------------------------
\* The tracked orders

\* An order leaves the tracked ones.
LEMMA ErasedEntries ==
  ASSUME NEW entries, EntriesOK(entries), NEW id
  PROVE  /\ EntriesOK(Spoofing!Erased(entries, id))
         /\ DOMAIN Spoofing!Erased(entries, id) = DOMAIN entries \ {id}
         /\ \A x \in DOMAIN entries \ {id} : Spoofing!Erased(entries, id)[x] = entries[x]
BY DEF Spoofing!Erased, EntriesOK

\* An order joins them.
LEMMA EnteredEntries ==
  ASSUME NEW entries, EntriesOK(entries), NEW id, NEW p, IsPlacement(p)
  PROVE  /\ EntriesOK(Spoofing!Entered(entries, id, p))
         /\ DOMAIN Spoofing!Entered(entries, id, p) = DOMAIN entries \cup {id}
         /\ Spoofing!Entered(entries, id, p)[id] = p
         /\ \A x \in DOMAIN entries \ {id} : Spoofing!Entered(entries, id, p)[x] = entries[x]
BY DEF Spoofing!Entered, EntriesOK

\* A partial fill changes what is left of one of them.
LEMMA ReducedEntries ==
  ASSUME NEW entries, EntriesOK(entries), NEW id \in DOMAIN entries, NEW left \in Nat,
         NEW next, next = [entries EXCEPT ![id].left = left]
  PROVE  /\ EntriesOK(next) /\ DOMAIN next = DOMAIN entries
         /\ next[id].left = left /\ next[id].account = entries[id].account
         /\ next[id].instrument = entries[id].instrument /\ next[id].side = entries[id].side
         /\ next[id].placed = entries[id].placed
         /\ \A x \in DOMAIN entries \ {id} : next[x] = entries[x]
<1> DEFINE p == [entries[id] EXCEPT !.left = left]
<1>1. entries = [x \in DOMAIN entries |-> entries[x]] /\ IsPlacement(entries[id])
  BY DEF EntriesOK
<1>2. /\ p = [account |-> entries[id].account, instrument |-> entries[id].instrument,
              side |-> entries[id].side, left |-> left, placed |-> entries[id].placed,
              depth |-> entries[id].depth, opposite |-> entries[id].opposite]
  BY <1>1 DEF IsPlacement
<1>3. IsPlacement(p) /\ p.left = left /\ p.account = entries[id].account
      /\ p.instrument = entries[id].instrument /\ p.side = entries[id].side
      /\ p.placed = entries[id].placed
  BY <1>1, <1>2 DEF IsPlacement
<1>4. next = [x \in DOMAIN entries |-> IF x = id THEN p ELSE entries[x]]
  BY <1>1
<1> HIDE DEF p
<1>5. /\ DOMAIN next = DOMAIN entries /\ next[id] = p
      /\ \A x \in DOMAIN entries \ {id} : next[x] = entries[x]
      /\ next = [x \in DOMAIN next |-> next[x]]
  BY <1>4
<1>6. EntriesOK(next)
  BY <1>3, <1>5 DEF EntriesOK
<1> QED
  BY <1>3, <1>5, <1>6

\* What is tracked of an event.
LEMMA PlacementOf ==
  ASSUME NEW book, NEW event \in Event
  PROVE  /\ IsPlacement(Spoofing!Placement(book, event))
         /\ Spoofing!Placement(book, event).account = event.account
         /\ Spoofing!Placement(book, event).instrument = event.instrument
         /\ Spoofing!Placement(book, event).side = event.side
         /\ Spoofing!Placement(book, event).left = event.qty
         /\ Spoofing!Placement(book, event).placed = event.ts
BY DEF Spoofing!Placement, IsPlacement, Event

\* The keys of the counts.
LEMMA KeysOf ==
  /\ \A p : IsPlacement(p) => Spoofing!KeyOf(p) \in Spoofing!Keys
  /\ \A event \in Event : <<event.account, event.instrument, event.side>> \in Spoofing!Keys
BY DEF Spoofing!KeyOf, Spoofing!Keys, IsPlacement, Event, Sides

\* A count stays one.
LEMMA UncountedCounts ==
  ASSUME NEW cnt \in [Spoofing!Keys -> Nat], NEW entries, EntriesOK(entries), NEW id
  PROVE  Spoofing!Uncounted(entries, cnt, id) \in [Spoofing!Keys -> Nat]
<1>1. CASE id \in DOMAIN entries /\ cnt[Spoofing!KeyOf(entries[id])] # 0
  <2>1. Spoofing!KeyOf(entries[id]) \in Spoofing!Keys
    BY <1>1, KeysOf DEF EntriesOK
  <2>2. cnt[Spoofing!KeyOf(entries[id])] - 1 \in Nat
    BY <1>1, <2>1
  <2> QED
    BY <1>1, <2>1, <2>2 DEF Spoofing!Uncounted
<1>2. CASE id \notin DOMAIN entries \/ cnt[Spoofing!KeyOf(entries[id])] = 0
  BY <1>2 DEF Spoofing!Uncounted
<1> QED
  BY <1>1, <1>2

\* What evaluate() does to the tracked orders and the counts, by the kind of the event.
Tracks(book, event) ==
  LET p == Spoofing!Placement(book, event)
      key == <<event.account, event.instrument, event.side>>
      erased == Spoofing!Erased(tracked, event.orig)
      uncounted == Spoofing!Uncounted(tracked, counts, event.orig)
  IN \/ /\ event.kind = "New"
        /\ tracked' = Spoofing!Entered(tracked, event.id, p)
        /\ counts' = [counts EXCEPT ![key] = counts[key] + 1]
     \/ /\ event.kind = "Replace"
        /\ tracked' = Spoofing!Entered(erased, event.id, p)
        /\ counts' = [uncounted EXCEPT ![key] = uncounted[key] + 1]
     \/ /\ event.kind = "Cancel"
        /\ tracked' = erased /\ counts' = uncounted
     \/ /\ event.kind = "Execution" /\ event.id \notin DOMAIN tracked
        /\ UNCHANGED <<tracked, counts>>
     \/ /\ event.kind = "Execution" /\ event.id \in DOMAIN tracked
        /\ tracked[event.id].left - event.qty <= 0
        /\ tracked' = Spoofing!Erased(tracked, event.id)
        /\ counts' = Spoofing!Uncounted(tracked, counts, event.id)
     \/ /\ event.kind = "Execution" /\ event.id \in DOMAIN tracked
        /\ ~(tracked[event.id].left - event.qty <= 0)
        /\ tracked' = [tracked EXCEPT ![event.id].left = tracked[event.id].left - event.qty]
        /\ UNCHANGED counts

\* Every branch of evaluate() is one of these.
LEMMA EvaluateTracks ==
  ASSUME NEW book, NEW event, Spoofing!EvaluateSpoofing(book, event)
  PROVE  Tracks(book, event)
<1>1. CASE event.kind = "New" /\ Spoofing!TrackNew(tracked, counts, book, event)
  BY <1>1 DEF Spoofing!TrackNew, Tracks
<1>2. CASE event.kind = "Replace"
           /\ Spoofing!TrackNew(Spoofing!Erased(tracked, event.orig),
                                Spoofing!Uncounted(tracked, counts, event.orig), book, event)
  BY <1>2 DEF Spoofing!TrackNew, Tracks
<1>3. CASE event.kind = "Cancel" /\ tracked' = Spoofing!Erased(tracked, event.orig)
           /\ counts' = Spoofing!Uncounted(tracked, counts, event.orig)
  BY <1>3 DEF Tracks
<1>4. CASE event.kind = "Execution" /\ Spoofing!HandleExecution(event)
  BY <1>4 DEF Spoofing!HandleExecution, Spoofing!FullyFilled, Tracks
<1> QED
  BY <1>1, <1>2, <1>3, <1>4 DEF Spoofing!EvaluateSpoofing

\* The samples stay those of an instrument and side.
LEMMA AmbientOf ==
  ASSUME NEW book, NEW event, Spoofing!EvaluateSpoofing(book, event)
  PROVE  ambient' = [k \in Spoofing!SideKeys |-> ambient'[k]]
BY DEF Spoofing!EvaluateSpoofing, Spoofing!TrackNew, Spoofing!UpdateAmbient

\* An accepted event keeps the types of what is tracked.
LEMMA TracksTyped ==
  ASSUME TrackingOK, NEW event \in Event, NEW book, Tracks(book, event)
  PROVE  /\ EntriesOK(tracked') /\ counts' \in [Spoofing!Keys -> Nat]
         /\ DOMAIN tracked' \subseteq
              DOMAIN tracked \cup (IF event.kind \in {"New", "Replace"} THEN {event.id} ELSE {})
<1> DEFINE p == Spoofing!Placement(book, event)
           key == <<event.account, event.instrument, event.side>>
           erased == Spoofing!Erased(tracked, event.orig)
           uncounted == Spoofing!Uncounted(tracked, counts, event.orig)
<1>1. EntriesOK(tracked) /\ counts \in [Spoofing!Keys -> Nat] /\ IsPlacement(p) /\ key \in Spoofing!Keys
  BY PlacementOf, KeysOf DEF TrackingOK
<1>2. EntriesOK(erased) /\ DOMAIN erased = DOMAIN tracked \ {event.orig}
      /\ uncounted \in [Spoofing!Keys -> Nat]
  BY <1>1, ErasedEntries, UncountedCounts
<1> HIDE DEF p, key, erased, uncounted
<1>3. CASE event.kind = "New" /\ tracked' = Spoofing!Entered(tracked, event.id, p)
           /\ counts' = [counts EXCEPT ![key] = counts[key] + 1]
  <2>1. EntriesOK(tracked') /\ DOMAIN tracked' = DOMAIN tracked \cup {event.id}
    BY <1>1, <1>3, EnteredEntries
  <2>2. counts' \in [Spoofing!Keys -> Nat]
    BY <1>1, <1>3
  <2> QED
    BY <1>3, <2>1, <2>2
<1>4. CASE event.kind = "Replace" /\ tracked' = Spoofing!Entered(erased, event.id, p)
           /\ counts' = [uncounted EXCEPT ![key] = uncounted[key] + 1]
  <2>1. EntriesOK(tracked') /\ DOMAIN tracked' = DOMAIN erased \cup {event.id}
    BY <1>1, <1>2, <1>4, EnteredEntries
  <2>2. counts' \in [Spoofing!Keys -> Nat]
    BY <1>1, <1>2, <1>4
  <2> QED
    BY <1>2, <1>4, <2>1, <2>2
<1>5. CASE event.kind = "Cancel" /\ tracked' = erased /\ counts' = uncounted
  BY <1>2, <1>5
<1>6. CASE UNCHANGED <<tracked, counts>>
  BY <1>1, <1>6
<1>7. CASE tracked' = Spoofing!Erased(tracked, event.id)
           /\ counts' = Spoofing!Uncounted(tracked, counts, event.id)
  <2>1. EntriesOK(tracked') /\ DOMAIN tracked' = DOMAIN tracked \ {event.id}
    BY <1>1, <1>7, ErasedEntries
  <2> QED
    BY <1>1, <1>7, <2>1, UncountedCounts
<1>8. CASE event.id \in DOMAIN tracked /\ ~(tracked[event.id].left - event.qty <= 0)
           /\ tracked' = [tracked EXCEPT ![event.id].left = tracked[event.id].left - event.qty]
           /\ UNCHANGED counts
  <2>1. tracked[event.id].left \in Nat /\ event.qty \in Nat
    BY <1>1, <1>8 DEF EntriesOK, IsPlacement, Event
  <2>2. tracked[event.id].left - event.qty \in Nat
    BY <1>8, <2>1
  <2>3. EntriesOK(tracked') /\ DOMAIN tracked' = DOMAIN tracked
    BY <1>1, <1>8, <2>2, ReducedEntries
  <2> QED
    BY <1>1, <1>8, <2>3
<1> QED
  BY <1>3, <1>4, <1>5, <1>6, <1>7, <1>8 DEF Tracks, p, key, erased, uncounted

\* A step keeps the types of what is tracked, whether the event is lost, skipped or accepted.
LEMMA TrackingStep == FeedOK /\ TrackingOK /\ [Next]_vars => TrackingOK'
<1> SUFFICES ASSUME FeedOK, TrackingOK, [Next]_vars PROVE TrackingOK'
  OBVIOUS
<1>1. CASE UNCHANGED vars
  BY <1>1 DEF vars, processVars, detectorVars, TrackingOK, EntriesOK, IdsUsed
<1>2. ASSUME NEW event, Arrives(event), published' = Append(published, event),
             Deliver(event) \/ LoseOnTheRing(event)
      PROVE  TrackingOK'
  <2>1. event \in Event /\ IdsUsed' = IdsUsed \cup {event.id}
    BY <1>2, PublishedGrows DEF Arrives
  <2>2. CASE UNCHANGED detectorVars
    BY <2>1, <2>2 DEF detectorVars, TrackingOK, EntriesOK
  <2>3. ASSUME NEW book, Spoofing!EvaluateSpoofing(book, event) PROVE TrackingOK'
    <3>1. Tracks(book, event) /\ ambient' = [k \in Spoofing!SideKeys |-> ambient'[k]]
      BY <2>3, EvaluateTracks, AmbientOf
    <3>2. /\ EntriesOK(tracked') /\ counts' \in [Spoofing!Keys -> Nat]
          /\ DOMAIN tracked' \subseteq DOMAIN tracked \cup {event.id}
      BY <2>1, <3>1, TracksTyped
    <3>3. DOMAIN tracked' \subseteq IdsUsed'
      BY <2>1, <3>2 DEF TrackingOK
    <3> QED
      BY <3>1, <3>2, <3>3 DEF TrackingOK, EntriesOK
  <2> QED
    BY <1>2, <2>2, <2>3 DEF Deliver, Process, Skip, Evaluate, LoseOnTheRing, processVars
<1> QED
  BY <1>1, <1>2, NextSends

-----------------------------------------------------------------------------
\* The counts

\* The entries of a key, and the counts of them.
EntriesOf(entries, key) == {id \in DOMAIN entries : Spoofing!KeyOf(entries[id]) = key}
Match(entries, cnt) == \A key \in Spoofing!Keys : cnt[key] = Cardinality(EntriesOf(entries, key))

\* An order that leaves is no longer counted.
LEMMA ErasedMatch ==
  ASSUME NEW entries, EntriesOK(entries), IsFiniteSet(DOMAIN entries),
         NEW cnt \in [Spoofing!Keys -> Nat], Match(entries, cnt), NEW id
  PROVE  Match(Spoofing!Erased(entries, id), Spoofing!Uncounted(entries, cnt, id))
<1> DEFINE key == Spoofing!KeyOf(entries[id])
           erased == Spoofing!Erased(entries, id)
<1>1. /\ DOMAIN erased = DOMAIN entries \ {id}
      /\ \A x \in DOMAIN entries \ {id} : erased[x] = entries[x]
  BY ErasedEntries
<1> HIDE DEF erased
<1>2. \A k \in Spoofing!Keys : EntriesOf(erased, k) = EntriesOf(entries, k) \ {id}
  BY <1>1 DEF EntriesOf
<1>3. \A k \in Spoofing!Keys : IsFiniteSet(EntriesOf(entries, k))
  BY FS_Subset DEF EntriesOf
<1>4. CASE id \notin DOMAIN entries
  <2>1. \A k \in Spoofing!Keys : EntriesOf(erased, k) = EntriesOf(entries, k)
    BY <1>2, <1>4 DEF EntriesOf
  <2> QED
    BY <1>4, <2>1 DEF Match, erased, Spoofing!Uncounted
<1>5. CASE id \in DOMAIN entries
  <2>1. key \in Spoofing!Keys
    BY <1>5, KeysOf DEF EntriesOK
  <2>2. \A k \in Spoofing!Keys : id \in EntriesOf(entries, k) <=> k = key
    BY <1>5 DEF EntriesOf
  <2> HIDE DEF key
  <2>3. \A k \in Spoofing!Keys :
          Cardinality(EntriesOf(erased, k)) = IF k = key THEN Cardinality(EntriesOf(entries, k)) - 1
                                              ELSE Cardinality(EntriesOf(entries, k))
    BY <1>2, <1>3, <2>2, FS_RemoveElement
  <2>4. cnt[key] # 0
    <3>1. EntriesOf(entries, key) # {} /\ IsFiniteSet(EntriesOf(entries, key))
      BY <1>3, <2>1, <2>2
    <3> QED
      BY <2>1, <3>1, FS_EmptySet DEF Match
  <2>5. Spoofing!Uncounted(entries, cnt, id) = [cnt EXCEPT ![key] = cnt[key] - 1]
    BY <1>5, <2>4 DEF Spoofing!Uncounted, key
  <2> QED
    BY <2>1, <2>3, <2>5 DEF Match, erased
<1> QED
  BY <1>4, <1>5

\* An order that joins under an id of its own is counted once.
LEMMA EnteredMatch ==
  ASSUME NEW entries, EntriesOK(entries), IsFiniteSet(DOMAIN entries),
         NEW cnt \in [Spoofing!Keys -> Nat], Match(entries, cnt),
         NEW id, id \notin DOMAIN entries, NEW p, IsPlacement(p)
  PROVE  Match(Spoofing!Entered(entries, id, p),
               [cnt EXCEPT ![Spoofing!KeyOf(p)] = cnt[Spoofing!KeyOf(p)] + 1])
<1> DEFINE key == Spoofing!KeyOf(p)
           entered == Spoofing!Entered(entries, id, p)
<1>1. /\ DOMAIN entered = DOMAIN entries \cup {id} /\ entered[id] = p
      /\ \A x \in DOMAIN entries : entered[x] = entries[x]
  <2>1. \A x \in DOMAIN entries : x \in DOMAIN entries \ {id}
    OBVIOUS
  <2>2. /\ DOMAIN entered = DOMAIN entries \cup {id} /\ entered[id] = p
        /\ \A x \in DOMAIN entries \ {id} : entered[x] = entries[x]
    BY DEF Spoofing!Entered
  <2> QED
    BY <2>1, <2>2
<1>2. key \in Spoofing!Keys
  BY KeysOf
<1> HIDE DEF entered
<1>3. \A k \in Spoofing!Keys :
        EntriesOf(entered, k) = EntriesOf(entries, k) \cup (IF k = key THEN {id} ELSE {})
  BY <1>1 DEF EntriesOf
<1>4. \A k \in Spoofing!Keys : IsFiniteSet(EntriesOf(entries, k)) /\ id \notin EntriesOf(entries, k)
  BY FS_Subset DEF EntriesOf
<1> HIDE DEF key
<1>5. \A k \in Spoofing!Keys :
        Cardinality(EntriesOf(entered, k)) = IF k = key THEN Cardinality(EntriesOf(entries, k)) + 1
                                             ELSE Cardinality(EntriesOf(entries, k))
  <2> SUFFICES ASSUME NEW k \in Spoofing!Keys
               PROVE  Cardinality(EntriesOf(entered, k)) =
                        IF k = key THEN Cardinality(EntriesOf(entries, k)) + 1
                        ELSE Cardinality(EntriesOf(entries, k))
    OBVIOUS
  <2>1. CASE k = key
    BY <1>3, <1>4, <2>1, FS_AddElement
  <2>2. CASE k # key
    <3>1. EntriesOf(entered, k) = EntriesOf(entries, k)
      BY <1>3, <2>2
    <3> QED
      BY <2>2, <3>1
  <2> QED
    BY <2>1, <2>2
<1>6. Match(entered, [cnt EXCEPT ![key] = cnt[key] + 1])
  BY <1>2, <1>5 DEF Match
<1> QED
  BY <1>6 DEF entered, key

\* A free id is not tracked, and what is tracked is finite.
LEMMA FreeIds ==
  ASSUME FeedOK, TrackingOK
  PROVE  FreshId \notin DOMAIN tracked /\ IsFiniteSet(DOMAIN tracked)
<1>1. FreshId \in Nat \ {0} /\ DOMAIN tracked \subseteq 1 .. FreshId - 1
  BY DEF FeedOK, TrackingOK
<1>2. IsFiniteSet(1 .. FreshId - 1)
  BY <1>1, FS_Interval
<1>3. FreshId \notin 1 .. FreshId - 1
  BY <1>1
<1> QED
  BY <1>1, <1>2, <1>3, FS_Subset

\* Where ids are unique every event keeps the counts those of the tracked orders.
LEMMA TracksMatch ==
  ASSUME FeedOK, TrackingOK, Match(tracked, counts), ~feed.reuse,
         NEW event, Arrives(event), NEW book, Tracks(book, event)
  PROVE  Match(tracked', counts')
<1> DEFINE p == Spoofing!Placement(book, event)
           key == <<event.account, event.instrument, event.side>>
           erased == Spoofing!Erased(tracked, event.orig)
           uncounted == Spoofing!Uncounted(tracked, counts, event.orig)
<1>1. /\ EntriesOK(tracked) /\ counts \in [Spoofing!Keys -> Nat] /\ IsFiniteSet(DOMAIN tracked)
      /\ FreshId \notin DOMAIN tracked /\ event \in Event
  BY FreeIds DEF TrackingOK, Arrives
<1>2. IsPlacement(p) /\ Spoofing!KeyOf(p) = key
  BY <1>1, PlacementOf DEF Spoofing!KeyOf
<1>3. /\ EntriesOK(erased) /\ DOMAIN erased \subseteq DOMAIN tracked /\ IsFiniteSet(DOMAIN erased)
      /\ uncounted \in [Spoofing!Keys -> Nat] /\ Match(erased, uncounted)
  BY <1>1, ErasedEntries, UncountedCounts, ErasedMatch, FS_Subset
<1> HIDE DEF p, key, erased, uncounted
<1>4. CASE event.kind = "New" /\ tracked' = Spoofing!Entered(tracked, event.id, p)
           /\ counts' = [counts EXCEPT ![key] = counts[key] + 1]
  <2>1. event.id \notin DOMAIN tracked
    BY <1>1, <1>4 DEF Arrives, IsNew, IsCancel, IsReplace, IsExecution
  <2> QED
    BY <1>1, <1>2, <1>4, <2>1, EnteredMatch
<1>5. CASE event.kind = "Replace" /\ tracked' = Spoofing!Entered(erased, event.id, p)
           /\ counts' = [uncounted EXCEPT ![key] = uncounted[key] + 1]
  <2>1. event.id \notin DOMAIN erased
    BY <1>1, <1>3, <1>5 DEF Arrives, IsNew, IsCancel, IsReplace, IsExecution
  <2> QED
    BY <1>2, <1>3, <1>5, <2>1, EnteredMatch
<1>6. CASE event.kind = "Cancel" /\ tracked' = erased /\ counts' = uncounted
  BY <1>3, <1>6
<1>7. CASE UNCHANGED <<tracked, counts>>
  BY <1>7 DEF Match, EntriesOf
<1>8. CASE tracked' = Spoofing!Erased(tracked, event.id)
           /\ counts' = Spoofing!Uncounted(tracked, counts, event.id)
  BY <1>1, <1>8, ErasedMatch
<1>9. CASE event.id \in DOMAIN tracked /\ ~(tracked[event.id].left - event.qty <= 0)
           /\ tracked' = [tracked EXCEPT ![event.id].left = tracked[event.id].left - event.qty]
           /\ UNCHANGED counts
  <2>1. tracked[event.id].left \in Nat /\ event.qty \in Nat
    BY <1>1, <1>9 DEF EntriesOK, IsPlacement, Event
  <2>2. tracked[event.id].left - event.qty \in Nat
    BY <1>9, <2>1
  <2>3. /\ DOMAIN tracked' = DOMAIN tracked
        /\ tracked'[event.id].account = tracked[event.id].account
        /\ tracked'[event.id].instrument = tracked[event.id].instrument
        /\ tracked'[event.id].side = tracked[event.id].side
        /\ \A x \in DOMAIN tracked \ {event.id} : tracked'[x] = tracked[x]
    BY <1>1, <1>9, <2>2, ReducedEntries
  <2>4. \A x \in DOMAIN tracked : Spoofing!KeyOf(tracked'[x]) = Spoofing!KeyOf(tracked[x])
    BY <2>3 DEF Spoofing!KeyOf
  <2>5. \A k : EntriesOf(tracked', k) = EntriesOf(tracked, k)
    BY <2>3, <2>4 DEF EntriesOf
  <2> QED
    BY <1>9, <2>5 DEF Match
<1> QED
  BY <1>4, <1>5, <1>6, <1>7, <1>8, <1>9 DEF Tracks, p, key, erased, uncounted

\* A step keeps them so.
LEMMA CountsStep ==
  UniqueIds /\ FeedOK /\ TrackingOK /\ CountsMatchTracked /\ [Next]_vars => CountsMatchTracked'
<1> SUFFICES ASSUME UniqueIds, FeedOK, TrackingOK, CountsMatchTracked, [Next]_vars
             PROVE  CountsMatchTracked'
  OBVIOUS
<1>1. Match(tracked, counts) /\ ~feed.reuse
  BY DEF CountsMatchTracked, TrackedOn, Match, EntriesOf, UniqueIds, FeedOK
<1>2. CASE UNCHANGED detectorVars
  BY <1>2 DEF detectorVars, CountsMatchTracked, TrackedOn
<1>3. ASSUME NEW event, Arrives(event), NEW book, Spoofing!EvaluateSpoofing(book, event)
      PROVE  CountsMatchTracked'
  <2>1. Match(tracked', counts')
    BY <1>1, <1>3, EvaluateTracks, TracksMatch
  <2> QED
    BY <2>1 DEF Match, EntriesOf, CountsMatchTracked, TrackedOn
<1>4. ASSUME NEW event, Arrives(event), Deliver(event) \/ LoseOnTheRing(event) PROVE CountsMatchTracked'
  BY <1>2, <1>3, <1>4 DEF Deliver, Process, Skip, Evaluate, LoseOnTheRing, processVars
<1> QED
  BY <1>2, <1>4, NextSends DEF vars, processVars

-----------------------------------------------------------------------------
\* The books

\* The order under an id, if one rests.
LEMMA OrderNamed ==
  ASSUME NEW book \in SUBSET RestingOrder, NEW id, Spoofing!Resting(book, id)
  PROVE  Spoofing!OrderOf(book, id) \in book /\ Spoofing!OrderOf(book, id).id = id
<1>1. \E o \in book : o.id = id
  BY DEF Spoofing!Resting, Spoofing!Named
<1> QED
  BY <1>1 DEF Spoofing!OrderOf

\* An event leaves resting orders in the book.
LEMMA AppliedTyped ==
  ASSUME NEW book \in SUBSET RestingOrder, NEW event \in Event
  PROVE  Spoofing!Applied(book, event) \in SUBSET RestingOrder
<1>1. Spoofing!Entry(event) \in RestingOrder
  BY DEF Spoofing!Entry, Event, RestingOrder
<1>2. \A rest \in SUBSET RestingOrder : Spoofing!Insert(rest, event) \in SUBSET RestingOrder
  BY <1>1 DEF Spoofing!Insert
<1>3. CASE event.kind = "New"
  BY <1>2, <1>3 DEF Spoofing!Applied
<1>4. CASE event.kind = "Cancel"
  BY <1>4 DEF Spoofing!Applied
<1>5. CASE event.kind = "Replace"
  <2>1. CASE Spoofing!Resting(book, event.orig)
    <3> DEFINE old == Spoofing!OrderOf(book, event.orig)
               entry == [Spoofing!Entry(event) EXCEPT !.side = old.side]
    <3>1. old \in RestingOrder
      BY <2>1, OrderNamed
    <3>2. old.side \in Sides
      BY <3>1 DEF RestingOrder
    <3>3. entry \in RestingOrder
      BY <1>1, <3>2 DEF RestingOrder
    <3> HIDE DEF entry
    <3>4. (book \ {old}) \cup {entry} \in SUBSET RestingOrder
      BY <3>3
    <3>5. Spoofing!Insert(book \ {old}, event) \in SUBSET RestingOrder
      BY <1>2
    <3>6. Spoofing!Amend(book, event) \in SUBSET RestingOrder
      BY <3>4, <3>5 DEF Spoofing!Amend, entry
    <3> QED
      BY <1>5, <2>1, <3>6 DEF Spoofing!Applied
  <2> QED
    BY <1>5, <2>1 DEF Spoofing!Applied
<1>6. CASE event.kind = "Execution"
  <2>1. CASE ~Spoofing!Rejects(book, event)
    <3> DEFINE old == Spoofing!OrderOf(book, event.id)
               less == [old EXCEPT !.qty = old.qty - event.qty]
    <3>1. Spoofing!Resting(book, event.id) /\ ~Spoofing!Overfills(book, event)
      BY <1>6, <2>1 DEF Spoofing!Rejects
    <3>2. old \in RestingOrder /\ old.qty \in Nat /\ event.qty \in Nat
      BY <3>1, OrderNamed DEF RestingOrder, Event
    <3>3. old.qty - event.qty \in Nat
      BY <3>1, <3>2 DEF Spoofing!Overfills
    <3>4. less \in RestingOrder
      BY <3>2, <3>3 DEF RestingOrder
    <3> HIDE DEF less
    <3>5. Spoofing!Fill(book, event) \in SUBSET RestingOrder
      BY <3>4 DEF Spoofing!Fill, less
    <3> QED
      BY <1>6, <2>1, <3>5 DEF Spoofing!Applied
  <2> QED
    BY <1>6, <2>1 DEF Spoofing!Applied
<1> QED
  BY <1>3, <1>4, <1>5, <1>6 DEF Event

-----------------------------------------------------------------------------
\* The alerts

\* Sequences of anything.
LEMMA SequenceIs == \A s : IsSequence(s) => Len(s) \in Nat /\ DOMAIN s = 1 .. Len(s)
BY LenProperties DEF IsSequence

\* A function from 1 on is one.
LEMMA SequenceOf ==
  ASSUME NEW n \in Nat, NEW s, DOMAIN s = 1 .. n, s = [k \in 1 .. n |-> s[k]]
  PROVE  IsSequence(s) /\ Len(s) = n
<1>1. s \in [1 .. n -> Range(s)]
  BY DEF Range
<1>2. s \in Seq(Range(s)) /\ Len(s) = n
  BY <1>1
<1> QED
  BY <1>2 DEF IsSequence

\* So is the empty list.
LEMMA NoAlert == IsSequence(<<>>) /\ Len(<<>>) = 0
BY DEF IsSequence

\* And a list of one alert.
LEMMA OneAlert == \A x : IsSequence(<<x>>) /\ Len(<<x>>) = 1 /\ <<x>>[1] = x
<1> SUFFICES ASSUME NEW x PROVE IsSequence(<<x>>) /\ Len(<<x>>) = 1 /\ <<x>>[1] = x
  OBVIOUS
<1>1. Range(<<x>>) = {x}
  BY DEF Range
<1>2. <<x>> \in Seq({x})
  OBVIOUS
<1> QED
  BY <1>1, <1>2 DEF IsSequence

\* One list of alerts after another.
LEMMA Concatenated ==
  ASSUME NEW s, NEW t, IsSequence(s), IsSequence(t)
  PROVE  /\ IsSequence(s \o t) /\ Len(s \o t) = Len(s) + Len(t)
         /\ \A k \in 1 .. Len(s) : (s \o t)[k] = s[k]
         /\ \A k \in Len(s) + 1 .. Len(s) + Len(t) : (s \o t)[k] = t[k - Len(s)]
<1> DEFINE S == Range(s) \cup Range(t)
<1>1. s \in Seq(Range(s)) /\ t \in Seq(Range(t))
  BY DEF IsSequence
<1>2. Len(s) \in Nat /\ Len(t) \in Nat /\ DOMAIN s = 1 .. Len(s) /\ DOMAIN t = 1 .. Len(t)
  BY <1>1, LenProperties
<1>3. s \in Seq(S) /\ t \in Seq(S)
  <2>1. s \in [1 .. Len(s) -> S] /\ t \in [1 .. Len(t) -> S]
    BY <1>1, <1>2
  <2> QED
    BY <1>2, <2>1
<1> HIDE DEF S
<1>4. /\ s \o t \in Seq(S) /\ Len(s \o t) = Len(s) + Len(t)
      /\ \A k \in 1 .. Len(s) + Len(t) : (s \o t)[k] = IF k <= Len(s) THEN s[k] ELSE t[k - Len(s)]
  BY <1>3, ConcatProperties
<1>5. IsSequence(s \o t)
  <2> DEFINE all == s \o t
  <2>1. all \in Seq(S) /\ Len(all) \in Nat
    BY <1>2, <1>4
  <2> HIDE DEF all
  <2>2. all \in [1 .. Len(all) -> S]
    BY <2>1
  <2>3. DOMAIN all = 1 .. Len(all) /\ all = [k \in 1 .. Len(all) |-> all[k]]
    BY <2>2
  <2>4. IsSequence(all)
    BY <2>1, <2>3, SequenceOf
  <2> QED
    BY <2>4 DEF all
<1> QED
  BY <1>2, <1>4, <1>5

\* The operators of every module that takes them are the same.
LEMMA SameSubsequences ==
  /\ \A S : Fronting!Ascending(S) = Ascending(S) /\ Spoofing!Ascending(S) = Ascending(S)
  /\ \A s, S : Fronting!Subsequence(s, S) = Subsequence(s, S) /\ Spoofing!Subsequence(s, S) = Subsequence(s, S)
<1>1. ASSUME NEW S PROVE Fronting!Ascending(S) = Ascending(S)
  BY Zenon DEF Fronting!Ascending, Ascending, Fronting!Cardinality, Cardinality
<1>2. ASSUME NEW S PROVE Spoofing!Ascending(S) = Ascending(S)
  BY Zenon DEF Spoofing!Ascending, Ascending, Spoofing!Cardinality, Cardinality
<1>3. ASSUME NEW s, NEW S PROVE Fronting!Subsequence(s, S) = Subsequence(s, S)
  BY Zenon, <1>1 DEF Fronting!Subsequence, Subsequence, Fronting!Cardinality, Cardinality
<1>4. ASSUME NEW s, NEW S PROVE Spoofing!Subsequence(s, S) = Subsequence(s, S)
  BY Zenon, <1>2 DEF Spoofing!Subsequence, Subsequence, Spoofing!Cardinality, Cardinality
<1> QED
  BY <1>1, <1>2, <1>3, <1>4

\* A list that goes with some numbers, trimmed to those of them in T.
LEMMA TrimmedList ==
  ASSUME NEW S \in SUBSET Nat, IsFiniteSet(S), NEW T \in SUBSET S, NEW s, DOMAIN s = 1 .. Cardinality(S),
         NEW K \in SUBSET DOMAIN s, \A k \in DOMAIN s : k \in K <=> Ascending(S)[k] \in T
  PROVE  /\ IsFiniteSet(T) /\ Cardinality(T) \in Nat
         /\ IsSequence(Subsequence(s, K)) /\ Len(Subsequence(s, K)) = Cardinality(T)
         /\ \A k \in 1 .. Cardinality(T) : \E j \in DOMAIN s :
              Subsequence(s, K)[k] = s[j] /\ Ascending(T)[k] = Ascending(S)[j]
<1> DEFINE U == {Ascending(S)[k] : k \in K}
           list == Subsequence(s, K)
<1>1. Lists(Ascending(S), Cardinality(S), S) /\ K \in SUBSET (1 .. Cardinality(S))
  BY AscendingLists
<1>2. U = T
  <2>1. \A i \in T : \E k \in 1 .. Cardinality(S) : Ascending(S)[k] = i
    BY <1>1 DEF Lists
  <2>2. \A i \in T : \E k \in K : Ascending(S)[k] = i
    BY <2>1
  <2>3. \A k \in K : Ascending(S)[k] \in T
    OBVIOUS
  <2> QED
    BY <2>2, <2>3
<1>3. /\ IsFiniteSet(K) /\ Cardinality(K) \in Nat /\ Cardinality(U) = Cardinality(K)
      /\ \A k \in 1 .. Cardinality(K) :
              Ascending(K)[k] \in K /\ Ascending(U)[k] = Ascending(S)[Ascending(K)[k]]
  <2> HIDE DEF U
  <2>1. U = {Ascending(S)[k] : k \in K}
    BY DEF U
  <2>2. K \in SUBSET (1 .. Cardinality(S))
    BY <1>1
  <2>3. IsFiniteSet(K) /\ Cardinality(K) \in Nat /\ Cardinality(U) = Cardinality(K)
    BY <2>1, <2>2, AscendingOf
  <2>4. \A k \in 1 .. Cardinality(K) :
              Ascending(K)[k] \in K /\ Ascending(U)[k] = Ascending(S)[Ascending(K)[k]]
    BY <2>1, <2>2, AscendingOf
  <2> QED
    BY <2>3, <2>4
<1>4. IsFiniteSet(T)
  BY FS_Subset
<1> HIDE DEF U
<1>5. /\ DOMAIN list = 1 .. Cardinality(T)
      /\ list = [k \in 1 .. Cardinality(T) |-> list[k]]
      /\ \A k \in 1 .. Cardinality(T) : list[k] = s[Ascending(K)[k]]
  BY <1>2, <1>3 DEF Subsequence
<1> HIDE DEF list
<1>6. IsSequence(list) /\ Len(list) = Cardinality(T)
  BY <1>2, <1>3, <1>5, SequenceOf
<1>7. ASSUME NEW k \in 1 .. Cardinality(T)
      PROVE  \E j \in DOMAIN s : list[k] = s[j] /\ Ascending(T)[k] = Ascending(S)[j]
  BY <1>1, <1>2, <1>3, <1>5
<1> QED
  BY <1>2, <1>3, <1>4, <1>6, <1>7 DEF list

\* A sequence is one of its elements.
LEMMA ElementIsSequence ==
  ASSUME NEW T, NEW s \in Seq(T)
  PROVE  IsSequence(s)
<1>1. s \in [1 .. Len(s) -> T] /\ Len(s) \in Nat
  OBVIOUS
<1>2. DOMAIN s = 1 .. Len(s) /\ s = [k \in 1 .. Len(s) |-> s[k]]
  BY <1>1
<1> QED
  BY <1>1, <1>2, SequenceOf

\* The list with an entry more, which goes with a larger number.
IsLonger(list, s, S, n, x) ==
  /\ IsSequence(list) /\ Len(list) = Cardinality(S \cup {n})
  /\ Len(list) = Len(s) + 1 /\ Len(s) \in Nat
  /\ \A k \in 1 .. Len(s) : /\ list[k] = s[k]
                            /\ Ascending(S \cup {n})[k] = Ascending(S)[k]
  /\ list[Len(s) + 1] = x /\ Ascending(S \cup {n})[Len(s) + 1] = n

\* That is what Append does.
LEMMA LongerList ==
  ASSUME NEW S \in SUBSET Nat, IsFiniteSet(S), NEW n \in Nat, \A i \in S : i < n,
         NEW s, IsSequence(s), Len(s) = Cardinality(S), NEW x, NEW list, list = Append(s, x)
  PROVE  IsLonger(list, s, S, n, x)
<1>1. /\ Cardinality(S) \in Nat /\ Cardinality(S \cup {n}) = Cardinality(S) + 1
      /\ \A k \in 1 .. Cardinality(S) + 1 :
           Ascending(S \cup {n})[k] = IF k = Cardinality(S) + 1 THEN n ELSE Ascending(S)[k]
  BY AscendingMore
<1> DEFINE Sort == Range(s) \cup {x}
<1>2. s \in Seq(Sort) /\ x \in Sort
  <2>1. s \in [1 .. Len(s) -> Range(s)] /\ Len(s) \in Nat
    BY DEF IsSequence
  <2>2. s \in [1 .. Len(s) -> Sort]
    BY <2>1
  <2> QED
    BY <2>1, <2>2
<1> HIDE DEF Sort
<1>3. /\ list \in Seq(Sort) /\ Len(list) = Len(s) + 1
      /\ \A k \in 1 .. Len(s) : list[k] = s[k]
      /\ list[Len(s) + 1] = x
  BY <1>2, AppendProperties
<1>4. IsSequence(list)
  BY <1>3, ElementIsSequence
<1>5. \A k \in 1 .. Len(s) : k \in 1 .. Cardinality(S) + 1 /\ k # Cardinality(S) + 1
  BY <1>1
<1>6. Len(s) + 1 \in 1 .. Cardinality(S) + 1
  BY <1>1
<1>7. \A k \in 1 .. Len(s) : Ascending(S \cup {n})[k] = Ascending(S)[k]
  BY <1>1, <1>5
<1>8. Ascending(S \cup {n})[Len(s) + 1] = n
  BY <1>1, <1>6
<1> QED
  BY <1>1, <1>3, <1>4, <1>7, <1>8 DEF IsLonger

\* Where the New orders remaining on a side are.
LEMMA RemainingOf ==
  ASSUME accepted \in Seq(Event), NEW key
  PROVE  /\ Len(accepted) \in Nat /\ DOMAIN accepted = 1 .. Len(accepted)
         /\ Remaining(key) \subseteq 1 .. Len(accepted) /\ Remaining(key) \in SUBSET Nat
         /\ IsFiniteSet(Remaining(key)) /\ Cardinality(Remaining(key)) \in Nat
         /\ \A n \in 1 .. Len(accepted) : accepted[n] \in Event
<1>1. /\ Len(accepted) \in Nat /\ DOMAIN accepted = 1 .. Len(accepted)
      /\ \A n \in 1 .. Len(accepted) : accepted[n] \in Event
  BY LenProperties, ElementOfSeq
<1>2. Remaining(key) \subseteq 1 .. Len(accepted)
  BY <1>1 DEF Remaining
<1>3. IsFiniteSet(1 .. Len(accepted))
  BY <1>1, FS_Interval
<1> HIDE DEF Remaining
<1>4. IsFiniteSet(Remaining(key)) /\ Cardinality(Remaining(key)) \in Nat
  BY <1>2, <1>3, FS_Subset, FS_CardinalityType
<1>5. Remaining(key) \in SUBSET Nat
  BY <1>1, <1>2
<1> QED
  BY <1>1, <1>2, <1>4, <1>5

\* The New orders of the side within the window of an event.
Nearby(event) ==
  {n \in Remaining(Fronting!SideOf(event)) :
     Spoofing!Distance(event.ts, accepted[n].ts) <= Lookback}
\* And those of them a new order reacts to.
Leading(event) == {n \in Nearby(event) : Fronting!Reacts(registry, Prior(accepted[n]), event)}

\* A list that goes with positions of the history, entry by entry.
Retells(list, S) ==
  /\ IsSequence(list) /\ Len(list) = Cardinality(S)
  /\ \A k \in 1 .. Len(list) : list[k] = Prior(accepted[Ascending(S)[k]])

\* What the detector keeps for an event are the orders within its window.
LEMMA KeptRetells ==
  ASSUME accepted \in Seq(Event), RecentOK, NEW event \in Event
  PROVE  /\ Nearby(event) \in SUBSET Nat /\ IsFiniteSet(Nearby(event))
         /\ Retells(Fronting!Kept(event), Nearby(event))
<1> DEFINE key == Fronting!SideOf(event)
           S == Remaining(key)
           T == Nearby(event)
           s == recent[key]
           K == {k \in DOMAIN s : Fronting!WithinLookback(s[k], event)}
<1>1. key \in Instruments \X Sides
  BY DEF Fronting!SideOf, Event
<1>2. IsSequence(s) /\ Len(s) = Cardinality(S)
      /\ \A k \in 1 .. Len(s) : s[k] = Prior(accepted[Ascending(S)[k]])
  BY <1>1 DEF RecentOK, RecentOn
<1>3. /\ S \subseteq 1 .. Len(accepted) /\ S \in SUBSET Nat /\ IsFiniteSet(S)
      /\ \A n \in 1 .. Len(accepted) : accepted[n] \in Event
  BY RemainingOf
<1>4. DOMAIN s = 1 .. Cardinality(S)
  BY <1>2, SequenceIs
<1>5. T \in SUBSET S
  BY DEF Nearby
<1>6. \A n \in S : accepted[n].ts \in Int
  BY <1>3 DEF Event
<1>7. Lists(Ascending(S), Cardinality(S), S)
  BY <1>3, AscendingLists
<1>8. \A k \in DOMAIN s : Ascending(S)[k] \in S
  BY <1>4, <1>7 DEF Lists
<1>9. event.ts \in Int /\ Lookback \in Nat
  BY DetectorAssumption DEF Event, Fronting!FrontConfigured
<1>10. \A n \in S : Fronting!WithinLookback(Prior(accepted[n]), event)
                    <=> Spoofing!Distance(event.ts, accepted[n].ts) <= Lookback
  BY <1>6, <1>9 DEF Fronting!WithinLookback, Spoofing!Distance, Prior
<1>11. ASSUME NEW k \in DOMAIN s PROVE k \in K <=> Ascending(S)[k] \in T
  <2>1. Ascending(S)[k] \in S /\ s[k] = Prior(accepted[Ascending(S)[k]])
    BY <1>2, <1>4, <1>8
  <2>2. Fronting!WithinLookback(s[k], event)
        <=> Spoofing!Distance(event.ts, accepted[Ascending(S)[k]].ts) <= Lookback
    BY <1>10, <2>1
  <2> QED
    BY <2>1, <2>2 DEF Nearby
<1>12. K \in SUBSET DOMAIN s
  OBVIOUS
<1>13. Fronting!Kept(event) = Subsequence(s, K)
  BY SameSubsequences DEF Fronting!Kept
<1> HIDE DEF K, T, S, s, key
<1>14. /\ IsFiniteSet(T) /\ Cardinality(T) \in Nat
       /\ IsSequence(Subsequence(s, K)) /\ Len(Subsequence(s, K)) = Cardinality(T)
       /\ \A k \in 1 .. Cardinality(T) : \E j \in DOMAIN s :
            Subsequence(s, K)[k] = s[j] /\ Ascending(T)[k] = Ascending(S)[j]
  BY <1>3, <1>4, <1>5, <1>11, <1>12, TrimmedList, ZenonT(60)
<1>15. ASSUME NEW k \in 1 .. Cardinality(T)
       PROVE  Subsequence(s, K)[k] = Prior(accepted[Ascending(T)[k]])
  BY <1>2, <1>4, <1>14
<1> QED
  BY <1>3, <1>5, <1>13, <1>14, <1>15 DEF Retells, T

\* One alert for each of the positions of S, in order.
AlertsLead(list, S, event, at) ==
  /\ S \in SUBSET Nat /\ IsFiniteSet(S) /\ Cardinality(S) \in Nat
  /\ IsSequence(list) /\ Len(list) = Cardinality(S)
  /\ \A k \in 1 .. Len(list) :
       list[k] = Fronting!FrontAlert(Prior(accepted[Ascending(S)[k]]), event, at)

\* What the detector alerts on a New.
LEMMA FrontAlertsLead ==
  ASSUME accepted \in Seq(Event), RecentOK, NEW event \in Event, NEW at, event.kind = "New"
  PROVE  AlertsLead(Fronting!FrontAlerts(registry, event, at), Leading(event), event, at)
<1> DEFINE S == Nearby(event)
           T == Leading(event)
           s == Fronting!Kept(event)
           K == {k \in DOMAIN s : Fronting!Reacts(registry, s[k], event)}
           large == Subsequence(s, K)
           list == Fronting!FrontAlerts(registry, event, at)
<1>1. S \in SUBSET Nat /\ IsFiniteSet(S) /\ IsSequence(s) /\ Len(s) = Cardinality(S)
      /\ \A k \in 1 .. Len(s) : s[k] = Prior(accepted[Ascending(S)[k]])
  BY KeptRetells DEF Retells
<1>2. DOMAIN s = 1 .. Cardinality(S)
  BY <1>1, SequenceIs
<1>3. \A k \in DOMAIN s : Ascending(S)[k] \in S
  <2>1. Lists(Ascending(S), Cardinality(S), S)
    BY <1>1, AscendingLists
  <2> QED
    BY <1>2, <2>1 DEF Lists
<1>4. T \in SUBSET S
  BY DEF Leading
<1>5. \A k \in DOMAIN s : k \in K <=> Ascending(S)[k] \in T
  BY <1>1, <1>2, <1>3 DEF Leading
<1>6. K \in SUBSET DOMAIN s
  OBVIOUS
<1>7. list = [i \in 1 .. Len(large) |-> Fronting!FrontAlert(large[i], event, at)]
  BY SameSubsequences DEF Fronting!FrontAlerts
<1> HIDE DEF K, T, S, s, list
<1>8. /\ IsFiniteSet(T) /\ Cardinality(T) \in Nat
      /\ IsSequence(large) /\ Len(large) = Cardinality(T)
      /\ \A k \in 1 .. Cardinality(T) : \E j \in DOMAIN s :
            large[k] = s[j] /\ Ascending(T)[k] = Ascending(S)[j]
  BY <1>1, <1>2, <1>4, <1>5, <1>6, TrimmedList, ZenonT(60)
<1> HIDE DEF large
<1>9. IsSequence(list) /\ Len(list) = Cardinality(T)
  BY <1>7, <1>8, SequenceOf
<1>10. ASSUME NEW k \in 1 .. Cardinality(T)
       PROVE  list[k] = Fronting!FrontAlert(Prior(accepted[Ascending(T)[k]]), event, at)
  <2>1. large[k] = Prior(accepted[Ascending(T)[k]])
    BY <1>1, <1>2, <1>8
  <2> QED
    BY <1>7, <1>8, <2>1
<1> QED
  BY <1>1, <1>4, <1>8, <1>9, <1>10 DEF T, list, AlertsLead

\* A list of alerts of one detector.
From(list, detector) == IsSequence(list) /\ \A k \in 1 .. Len(list) : list[k].detector = detector

\* No alert or one is such a list.
LEMMA AtMostOne ==
  ASSUME NEW detector
  PROVE  From(<<>>, detector) /\ \A x : x.detector = detector => From(<<x>>, detector)
<1>1. From(<<>>, detector)
  BY NoAlert DEF From
<1>2. ASSUME NEW x, x.detector = detector PROVE From(<<x>>, detector)
  <2>1. IsSequence(<<x>>) /\ Len(<<x>>) = 1 /\ <<x>>[1] = x
    BY OneAlert
  <2> QED
    BY <1>2, <2>1 DEF From
<1> QED
  BY <1>1, <1>2

\* One such list after another.
LEMMA FromBoth ==
  ASSUME NEW detector, NEW s, NEW t, From(s, detector), From(t, detector)
  PROVE  From(s \o t, detector)
<1>1. IsSequence(s) /\ IsSequence(t) /\ Len(s) \in Nat /\ Len(t) \in Nat
  BY SequenceIs DEF From
<1>2. /\ IsSequence(s \o t) /\ Len(s \o t) = Len(s) + Len(t)
      /\ \A k \in 1 .. Len(s) : (s \o t)[k] = s[k]
      /\ \A k \in Len(s) + 1 .. Len(s) + Len(t) : (s \o t)[k] = t[k - Len(s)]
  BY <1>1, Concatenated
<1>3. ASSUME NEW k \in 1 .. Len(s) + Len(t) PROVE (s \o t)[k].detector = detector
  <2>1. CASE k <= Len(s)
    BY <1>1, <1>2, <2>1 DEF From
  <2>2. CASE k > Len(s)
    <3>1. k \in Len(s) + 1 .. Len(s) + Len(t) /\ k - Len(s) \in 1 .. Len(t)
      BY <1>1, <2>2
    <3>2. (s \o t)[k] = t[k - Len(s)]
      BY <1>2, <3>1
    <3> QED
      BY <3>1, <3>2 DEF From
  <2> QED
    BY <1>1, <2>1, <2>2
<1> QED
  BY <1>2, <1>3 DEF From

\* Each detector returns a list of its own alerts.
LEMMA DetectorLists ==
  ASSUME accepted \in Seq(Event), RecentOK, NEW event \in Event, NEW book, NEW at
  PROVE  /\ From(Baseline!WashAlerts(registry, event, at), "WashTrade")
         /\ From(Spoofing!SpoofAlerts(book, event, at), "SpoofingLayering")
         /\ From(Closing!CloseAlerts(registry, event, at), "MarkingTheClose")
         /\ From(Fronting!FrontAlerts(registry, event, at), "FrontRunning")
         /\ From(Baseline!StatAlerts(event, at), "StatisticalBaseline")
<1>1. From(Baseline!WashAlerts(registry, event, at), "WashTrade")
  BY AtMostOne DEF Baseline!WashAlerts
<1>2. From(Spoofing!SpoofAlerts(book, event, at), "SpoofingLayering")
  BY AtMostOne DEF Spoofing!SpoofAlerts, Spoofing!HandleCancel
<1>3. From(Closing!CloseAlerts(registry, event, at), "MarkingTheClose")
  <2>1. \A s, account :
          From(Closing!CheckAccount(registry, s, account, event, at).alerts, "MarkingTheClose")
    BY AtMostOne DEF Closing!CheckAccount, Closing!CloseAlert
  <2>2. From(Closing!HandleTrade(registry, event, at).alerts, "MarkingTheClose")
    BY <2>1, FromBoth DEF Closing!HandleTrade
  <2> QED
    BY <2>2, AtMostOne DEF Closing!CloseAlerts
<1>4. From(Fronting!FrontAlerts(registry, event, at), "FrontRunning")
  <2>1. CASE event.kind # "New"
    BY <2>1, AtMostOne DEF Fronting!FrontAlerts
  <2>2. CASE event.kind = "New"
    <3> DEFINE list == Fronting!FrontAlerts(registry, event, at)
    <3>1. AlertsLead(list, Leading(event), event, at)
      BY <2>2, FrontAlertsLead
    <3> HIDE DEF list
    <3>2. IsSequence(list) /\ \A k \in 1 .. Len(list) : list[k].detector = "FrontRunning"
      BY <3>1 DEF AlertsLead, Fronting!FrontAlert
    <3> QED
      BY <3>2 DEF From, list
  <2> QED
    BY <2>1, <2>2
<1>5. From(Baseline!StatAlerts(event, at), "StatisticalBaseline")
  BY AtMostOne DEF Baseline!StatAlerts
<1> QED
  BY <1>1, <1>2, <1>3, <1>4, <1>5

\* What is in one list after another.
LEMMA RangeOfBoth ==
  ASSUME NEW s, NEW t, IsSequence(s), IsSequence(t)
  PROVE  Range(s \o t) = Range(s) \cup Range(t)
<1>1. /\ Len(s) \in Nat /\ Len(t) \in Nat /\ DOMAIN s = 1 .. Len(s) /\ DOMAIN t = 1 .. Len(t)
  BY SequenceIs
<1> DEFINE all == s \o t
<1>2. /\ IsSequence(all) /\ Len(all) = Len(s) + Len(t)
      /\ \A k \in 1 .. Len(s) : all[k] = s[k]
      /\ \A k \in Len(s) + 1 .. Len(s) + Len(t) : all[k] = t[k - Len(s)]
  BY Concatenated
<1> HIDE DEF all
<1>3. DOMAIN all = 1 .. Len(s) + Len(t)
  BY <1>2, SequenceIs
<1>4. \A k \in 1 .. Len(s) : k \in DOMAIN all /\ all[k] = s[k]
  BY <1>1, <1>2, <1>3
<1>5. \A k \in 1 .. Len(t) : k + Len(s) \in DOMAIN all /\ all[k + Len(s)] = t[k]
  <2> SUFFICES ASSUME NEW k \in 1 .. Len(t)
               PROVE  k + Len(s) \in DOMAIN all /\ all[k + Len(s)] = t[k]
    OBVIOUS
  <2>1. k + Len(s) \in Len(s) + 1 .. Len(s) + Len(t) /\ (k + Len(s)) - Len(s) = k
    BY <1>1
  <2> QED
    BY <1>1, <1>2, <1>3, <2>1
<1>6. \A k \in DOMAIN all : all[k] \in Range(s) \cup Range(t)
  <2> SUFFICES ASSUME NEW k \in 1 .. Len(s) + Len(t) PROVE all[k] \in Range(s) \cup Range(t)
    BY <1>3
  <2>1. CASE k \in 1 .. Len(s)
    BY <1>1, <1>2, <2>1 DEF Range
  <2>2. CASE k \in Len(s) + 1 .. Len(s) + Len(t)
    <3>1. all[k] = t[k - Len(s)] /\ k - Len(s) \in 1 .. Len(t)
      BY <1>1, <1>2, <2>2
    <3> QED
      BY <1>1, <3>1 DEF Range
  <2> QED
    BY <1>1, <2>1, <2>2
<1>7. Range(s) \cup Range(t) \subseteq Range(all)
  BY <1>1, <1>4, <1>5 DEF Range
<1>8. Range(all) \subseteq Range(s) \cup Range(t)
  BY <1>6 DEF Range
<1> QED
  BY <1>7, <1>8 DEF all

\* The alerts after an accepted event: those before it and those of the five detectors.
LEMMA AlertsAfter ==
  ASSUME ProcessedOK, RecentOK, NEW event \in Event, NEW book, NEW at, Evaluate(event, book, at)
  PROVE  /\ IsSequence(alerts')
         /\ Range(alerts') = Range(alerts)
              \cup Range(Baseline!WashAlerts(registry, event, at))
              \cup Range(Spoofing!SpoofAlerts(book, event, at))
              \cup Range(Closing!CloseAlerts(registry, event, at))
              \cup Range(Fronting!FrontAlerts(registry, event, at))
              \cup Range(Baseline!StatAlerts(event, at))
<1> DEFINE w == Baseline!WashAlerts(registry, event, at)
           s == Spoofing!SpoofAlerts(book, event, at)
           c == Closing!CloseAlerts(registry, event, at)
           f == Fronting!FrontAlerts(registry, event, at)
           b == Baseline!StatAlerts(event, at)
<1>1. IsSequence(w) /\ IsSequence(s) /\ IsSequence(c) /\ IsSequence(f) /\ IsSequence(b)
  BY DetectorLists DEF From, ProcessedOK
<1>2. alerts' = alerts \o w \o s \o c \o f \o b
  BY DEF Evaluate
<1> HIDE DEF w, s, c, f, b
<1>3. IsSequence(alerts \o w) /\ Range(alerts \o w) = Range(alerts) \cup Range(w)
  <2>1. IsSequence(alerts)
    BY DEF ProcessedOK
  <2> QED
    BY <1>1, <2>1, Concatenated, RangeOfBoth
<1>4. IsSequence(alerts \o w \o s) /\ Range(alerts \o w \o s) = Range(alerts) \cup Range(w) \cup Range(s)
  BY <1>1, <1>3, Concatenated, RangeOfBoth
<1>5. /\ IsSequence(alerts \o w \o s \o c)
      /\ Range(alerts \o w \o s \o c) = Range(alerts) \cup Range(w) \cup Range(s) \cup Range(c)
  BY <1>1, <1>4, Concatenated, RangeOfBoth
<1>6. /\ IsSequence(alerts \o w \o s \o c \o f)
      /\ Range(alerts \o w \o s \o c \o f)
           = Range(alerts) \cup Range(w) \cup Range(s) \cup Range(c) \cup Range(f)
  BY <1>1, <1>5, Concatenated, RangeOfBoth
<1>7. /\ IsSequence(alerts \o w \o s \o c \o f \o b)
      /\ Range(alerts \o w \o s \o c \o f \o b)
           = Range(alerts) \cup Range(w) \cup Range(s) \cup Range(c) \cup Range(f) \cup Range(b)
  BY <1>1, <1>6, Concatenated, RangeOfBoth
<1> QED
  BY <1>2, <1>7 DEF w, s, c, f, b

\* The alerts of a detector in a list.
Detected(list, detector) == {k \in 1 .. Len(list) : list[k].detector = detector}
\* What a list of alerts has more of a detector than an earlier one.
Adds(new, old, detector, list) ==
  /\ IsFiniteSet(Detected(new, detector)) /\ IsSequence(list)
  /\ Cardinality(Detected(new, detector)) = Cardinality(Detected(old, detector)) + Len(list)
  /\ \A k \in Detected(old, detector) : \E h \in Detected(new, detector) : new[h] = old[k]
  /\ \A k \in 1 .. Len(list) : \E h \in Detected(new, detector) : new[h] = list[k]
  /\ \A h \in Detected(new, detector) :
       (\E k \in Detected(old, detector) : new[h] = old[k]) \/ \E k \in 1 .. Len(list) : new[h] = list[k]

\* A list has finitely many.
LEMMA DetectedFinite ==
  ASSUME NEW s, IsSequence(s), NEW detector
  PROVE  /\ IsFiniteSet(Detected(s, detector)) /\ Cardinality(Detected(s, detector)) \in Nat
         /\ Detected(s, detector) \subseteq 1 .. Len(s)
<1>1. Len(s) \in Nat
  BY SequenceIs
<1>2. IsFiniteSet(1 .. Len(s)) /\ Detected(s, detector) \subseteq 1 .. Len(s)
  BY <1>1, FS_Interval DEF Detected
<1> QED
  BY <1>2, FS_Subset, FS_CardinalityType

\* Behind a list, the alerts of another detector add none, and its own all of them.
LEMMA DetectedBoth ==
  ASSUME NEW s, NEW t, NEW detector, NEW other, IsSequence(s), From(t, other)
  PROVE  Adds(s \o t, s, detector, IF detector = other THEN t ELSE <<>>)
<1> DEFINE all == s \o t
           D == Detected(s, detector)
           E == Detected(all, detector)
           added == IF detector = other THEN t ELSE <<>>
           N == IF detector = other THEN Len(s) + 1 .. Len(s) + Len(t) ELSE {}
<1>1. IsSequence(t) /\ Len(s) \in Nat /\ Len(t) \in Nat
  BY SequenceIs DEF From
<1>2. /\ IsSequence(all) /\ Len(all) = Len(s) + Len(t)
      /\ \A k \in 1 .. Len(s) : all[k] = s[k]
      /\ \A k \in Len(s) + 1 .. Len(s) + Len(t) : all[k] = t[k - Len(s)]
  BY <1>1, Concatenated
<1> HIDE DEF all
<1>3. \A k \in Len(s) + 1 .. Len(s) + Len(t) : k - Len(s) \in 1 .. Len(t) /\ all[k].detector = other
  BY <1>1, <1>2 DEF From
<1>4. \A k \in 1 .. Len(s) + Len(t) : k \in 1 .. Len(s) \/ k \in Len(s) + 1 .. Len(s) + Len(t)
  BY <1>1
<1>5. \A k \in 1 .. Len(s) : k \in 1 .. Len(s) + Len(t)
  BY <1>1
<1>6. \A k \in Len(s) + 1 .. Len(s) + Len(t) : k \in 1 .. Len(s) + Len(t) /\ k \notin 1 .. Len(s)
  BY <1>1
<1>7. E = D \cup N
  <2>1. \A k : k \in E <=> k \in D \cup N
    BY <1>2, <1>3, <1>4, <1>5, <1>6 DEF Detected
  <2> QED
    BY <2>1
<1>8. D \cap N = {}
  BY <1>6 DEF Detected
<1>9. IsFiniteSet(D) /\ Cardinality(D) \in Nat /\ IsFiniteSet(E)
  BY <1>2, DetectedFinite
<1>10. IsSequence(added) /\ IsFiniteSet(N) /\ Cardinality(N) = Len(added)
  <2>1. CASE detector = other
    <3>1. IsFiniteSet(Len(s) + 1 .. Len(s) + Len(t))
          /\ Cardinality(Len(s) + 1 .. Len(s) + Len(t)) = Len(t)
      <4>1. Len(s) + 1 \in Int /\ Len(s) + Len(t) \in Int
        BY <1>1
      <4>2. (Len(s) + Len(t)) - (Len(s) + 1) + 1 = Len(t)
            /\ (Len(s) + 1 > Len(s) + Len(t) => Len(t) = 0)
        BY <1>1
      <4> QED
        BY <4>1, <4>2, FS_Interval
    <3> QED
      BY <1>1, <2>1, <3>1
  <2>2. CASE detector # other
    BY <2>2, NoAlert, FS_EmptySet
  <2> QED
    BY <2>1, <2>2
<1>11. Cardinality(E) = Cardinality(D) + Len(added)
  <2> HIDE DEF D, N, E, added
  <2>1. Cardinality(D \cap N) = 0
    BY <1>8, FS_EmptySet
  <2>2. Cardinality(D \cup N) = Cardinality(D) + Cardinality(N) - Cardinality(D \cap N)
    BY <1>9, <1>10, FS_Union
  <2>3. Cardinality(N) \in Nat
    BY <1>10, FS_CardinalityType
  <2> QED
    BY <1>7, <1>9, <1>10, <2>1, <2>2, <2>3
<1>12. \A k \in D : k \in E /\ all[k] = s[k]
  BY <1>2, <1>7 DEF Detected
<1>13. \A k \in 1 .. Len(added) : \E h \in E : all[h] = added[k]
  <2>1. SUFFICES ASSUME NEW k \in 1 .. Len(added) PROVE \E h \in E : all[h] = added[k]
    OBVIOUS
  <2>2. detector = other /\ added = t /\ k \in 1 .. Len(t)
    BY <2>1, NoAlert
  <2>3. k + Len(s) \in Len(s) + 1 .. Len(s) + Len(t) /\ (k + Len(s)) - Len(s) = k
    BY <1>1, <2>2
  <2>4. all[k + Len(s)] = t[k]
    BY <1>2, <2>3
  <2>5. k + Len(s) \in E
    BY <1>7, <2>2, <2>3
  <2> QED
    BY <2>2, <2>4, <2>5
<1>14. ASSUME NEW h \in E
       PROVE  (\E k \in D : all[h] = s[k]) \/ \E k \in 1 .. Len(added) : all[h] = added[k]
  <2>1. CASE h \in D
    BY <1>12, <2>1
  <2>2. CASE h \in N
    BY <1>2, <1>3, <2>2
  <2> QED
    BY <1>7, <2>1, <2>2
<1>15. Adds(all, s, detector, added)
  <2> HIDE DEF D, E, N, added
  <2>1. /\ IsFiniteSet(E) /\ IsSequence(added) /\ Cardinality(E) = Cardinality(D) + Len(added)
        /\ \A k \in D : \E h \in E : all[h] = s[k]
        /\ \A k \in 1 .. Len(added) : \E h \in E : all[h] = added[k]
        /\ \A h \in E : (\E k \in D : all[h] = s[k]) \/ \E k \in 1 .. Len(added) : all[h] = added[k]
    BY <1>9, <1>10, <1>11, <1>12, <1>13, <1>14
  <2> QED
    BY <2>1, Zenon DEF Adds, D, E
<1> QED
  BY <1>15 DEF all

\* One such addition and no other.
LEMMA AddsThenNone ==
  ASSUME NEW new, NEW mid, NEW old, NEW detector, NEW list,
         IsFiniteSet(Detected(old, detector)), IsSequence(list),
         \/ Adds(new, mid, detector, <<>>) /\ Adds(mid, old, detector, list)
         \/ Adds(new, mid, detector, list) /\ Adds(mid, old, detector, <<>>)
  PROVE  Adds(new, old, detector, list)
<1>1. Len(<<>>) = 0 /\ (1 .. 0) = {} /\ Cardinality(Detected(old, detector)) \in Nat /\ Len(list) \in Nat
  BY SequenceIs, FS_CardinalityType
<1>2. CASE Adds(new, mid, detector, <<>>) /\ Adds(mid, old, detector, list)
  <2>1. /\ IsFiniteSet(Detected(new, detector))
        /\ Cardinality(Detected(new, detector)) = Cardinality(Detected(old, detector)) + Len(list)
    BY <1>1, <1>2 DEF Adds
  <2>2. \A k \in Detected(old, detector) : \E h \in Detected(new, detector) : new[h] = old[k]
    <3>1. SUFFICES ASSUME NEW k \in Detected(old, detector)
                   PROVE  \E h \in Detected(new, detector) : new[h] = old[k]
      OBVIOUS
    <3>2. PICK g \in Detected(mid, detector) : mid[g] = old[k]
      BY <1>2 DEF Adds
    <3> QED
      BY <1>2, <3>2 DEF Adds
  <2>3. \A k \in 1 .. Len(list) : \E h \in Detected(new, detector) : new[h] = list[k]
    <3>1. SUFFICES ASSUME NEW k \in 1 .. Len(list)
                   PROVE  \E h \in Detected(new, detector) : new[h] = list[k]
      OBVIOUS
    <3>2. PICK g \in Detected(mid, detector) : mid[g] = list[k]
      BY <1>2 DEF Adds
    <3> QED
      BY <1>2, <3>2 DEF Adds
  <2>4. \A h \in Detected(new, detector) :
       (\E k \in Detected(old, detector) : new[h] = old[k]) \/ \E k \in 1 .. Len(list) : new[h] = list[k]
    <3>1. SUFFICES ASSUME NEW h \in Detected(new, detector)
                   PROVE  (\E k \in Detected(old, detector) : new[h] = old[k])
                            \/ \E k \in 1 .. Len(list) : new[h] = list[k]
      OBVIOUS
    <3>2. PICK g \in Detected(mid, detector) : new[h] = mid[g]
      BY <1>1, <1>2 DEF Adds
    <3> QED
      BY <1>2, <3>2 DEF Adds
  <2> QED
    BY <2>1, <2>2, <2>3, <2>4 DEF Adds
<1>3. CASE Adds(new, mid, detector, list) /\ Adds(mid, old, detector, <<>>)
  <2>1. /\ IsFiniteSet(Detected(new, detector))
        /\ Cardinality(Detected(new, detector)) = Cardinality(Detected(old, detector)) + Len(list)
    BY <1>1, <1>3 DEF Adds
  <2>2. \A k \in Detected(old, detector) : \E h \in Detected(new, detector) : new[h] = old[k]
    <3>1. SUFFICES ASSUME NEW k \in Detected(old, detector)
                   PROVE  \E h \in Detected(new, detector) : new[h] = old[k]
      OBVIOUS
    <3>2. PICK g \in Detected(mid, detector) : mid[g] = old[k]
      BY <1>3 DEF Adds
    <3> QED
      BY <1>3, <3>2 DEF Adds
  <2>3. \A k \in 1 .. Len(list) : \E h \in Detected(new, detector) : new[h] = list[k]
    BY <1>3 DEF Adds
  <2>4. \A h \in Detected(new, detector) :
       (\E k \in Detected(old, detector) : new[h] = old[k]) \/ \E k \in 1 .. Len(list) : new[h] = list[k]
    <3>1. SUFFICES ASSUME NEW h \in Detected(new, detector), ~ \E k \in 1 .. Len(list) : new[h] = list[k]
                   PROVE  \E k \in Detected(old, detector) : new[h] = old[k]
      OBVIOUS
    <3>2. PICK g \in Detected(mid, detector) : new[h] = mid[g]
      BY <1>3, <3>1 DEF Adds
    <3>3. PICK k \in Detected(old, detector) : mid[g] = old[k]
      BY <1>1, <1>3 DEF Adds
    <3> QED
      BY <3>2, <3>3
  <2> QED
    BY <2>1, <2>2, <2>3, <2>4 DEF Adds
<1> QED
  BY <1>2, <1>3

\* What an accepted event adds to the alerts of three of the detectors.
LEMMA DetectedAfter ==
  ASSUME ProcessedOK, RecentOK, NEW event \in Event, NEW book, NEW at, Evaluate(event, book, at)
  PROVE  /\ Adds(alerts', alerts, "WashTrade", Baseline!WashAlerts(registry, event, at))
         /\ Adds(alerts', alerts, "FrontRunning", Fronting!FrontAlerts(registry, event, at))
         /\ Adds(alerts', alerts, "StatisticalBaseline", Baseline!StatAlerts(event, at))
<1> DEFINE w == Baseline!WashAlerts(registry, event, at)
           s == Spoofing!SpoofAlerts(book, event, at)
           c == Closing!CloseAlerts(registry, event, at)
           f == Fronting!FrontAlerts(registry, event, at)
           b == Baseline!StatAlerts(event, at)
<1>1. /\ From(w, "WashTrade") /\ From(s, "SpoofingLayering") /\ From(c, "MarkingTheClose")
      /\ From(f, "FrontRunning") /\ From(b, "StatisticalBaseline")
  BY DetectorLists DEF ProcessedOK
<1>2. /\ IsSequence(alerts) /\ IsSequence(w) /\ IsSequence(s) /\ IsSequence(c) /\ IsSequence(f)
      /\ IsSequence(b)
  BY <1>1 DEF ProcessedOK, From
<1>3. alerts' = alerts \o w \o s \o c \o f \o b
  BY DEF Evaluate
<1> HIDE DEF w, s, c, f, b
<1> DEFINE a1 == alerts \o w
           a2 == a1 \o s
           a3 == a2 \o c
           a4 == a3 \o f
           a5 == a4 \o b
<1>4. IsSequence(a1) /\ \A d : Adds(a1, alerts, d, IF d = "WashTrade" THEN w ELSE <<>>)
  BY <1>1, <1>2, Concatenated, DetectedBoth
<1> HIDE DEF a1
<1>5. IsSequence(a2) /\ \A d : Adds(a2, a1, d, IF d = "SpoofingLayering" THEN s ELSE <<>>)
  BY <1>1, <1>2, <1>4, Concatenated, DetectedBoth
<1> HIDE DEF a2
<1>6. IsSequence(a3) /\ \A d : Adds(a3, a2, d, IF d = "MarkingTheClose" THEN c ELSE <<>>)
  BY <1>1, <1>2, <1>5, Concatenated, DetectedBoth
<1> HIDE DEF a3
<1>7. IsSequence(a4) /\ \A d : Adds(a4, a3, d, IF d = "FrontRunning" THEN f ELSE <<>>)
  BY <1>1, <1>2, <1>6, Concatenated, DetectedBoth
<1> HIDE DEF a4
<1>8. \A d : Adds(a5, a4, d, IF d = "StatisticalBaseline" THEN b ELSE <<>>)
  BY <1>1, <1>2, <1>7, DetectedBoth
<1> HIDE DEF a5
<1>9. \A d : /\ IsFiniteSet(Detected(alerts, d)) /\ IsFiniteSet(Detected(a1, d))
             /\ IsFiniteSet(Detected(a2, d)) /\ IsFiniteSet(Detected(a3, d)) /\ IsFiniteSet(Detected(a4, d))
  BY <1>2, <1>4, <1>5, <1>6, <1>7, DetectedFinite
<1>10. IsSequence(<<>>)
  BY NoAlert
<1>11. Adds(a5, alerts, "WashTrade", w)
  <2>1. /\ Adds(a1, alerts, "WashTrade", w) /\ Adds(a2, a1, "WashTrade", <<>>)
        /\ Adds(a3, a2, "WashTrade", <<>>) /\ Adds(a4, a3, "WashTrade", <<>>)
        /\ Adds(a5, a4, "WashTrade", <<>>)
    BY <1>4, <1>5, <1>6, <1>7, <1>8
  <2>2. Adds(a2, alerts, "WashTrade", w)
    BY <1>2, <1>9, <2>1, AddsThenNone
  <2>3. Adds(a3, alerts, "WashTrade", w)
    BY <1>2, <1>9, <2>1, <2>2, AddsThenNone
  <2>4. Adds(a4, alerts, "WashTrade", w)
    BY <1>2, <1>9, <2>1, <2>3, AddsThenNone
  <2> QED
    BY <1>2, <1>9, <2>1, <2>4, AddsThenNone
<1>12. Adds(a5, alerts, "FrontRunning", f)
  <2>1. /\ Adds(a1, alerts, "FrontRunning", <<>>) /\ Adds(a2, a1, "FrontRunning", <<>>)
        /\ Adds(a3, a2, "FrontRunning", <<>>) /\ Adds(a4, a3, "FrontRunning", f)
        /\ Adds(a5, a4, "FrontRunning", <<>>)
    BY <1>4, <1>5, <1>6, <1>7, <1>8
  <2>2. Adds(a2, alerts, "FrontRunning", <<>>)
    BY <1>9, <1>10, <2>1, AddsThenNone
  <2>3. Adds(a3, alerts, "FrontRunning", <<>>)
    BY <1>9, <1>10, <2>1, <2>2, AddsThenNone
  <2>4. Adds(a4, alerts, "FrontRunning", f)
    BY <1>2, <1>9, <2>1, <2>3, AddsThenNone
  <2> QED
    BY <1>2, <1>9, <2>1, <2>4, AddsThenNone
<1>13. Adds(a5, alerts, "StatisticalBaseline", b)
  <2>1. /\ Adds(a1, alerts, "StatisticalBaseline", <<>>) /\ Adds(a2, a1, "StatisticalBaseline", <<>>)
        /\ Adds(a3, a2, "StatisticalBaseline", <<>>) /\ Adds(a4, a3, "StatisticalBaseline", <<>>)
        /\ Adds(a5, a4, "StatisticalBaseline", b)
    BY <1>4, <1>5, <1>6, <1>7, <1>8
  <2>2. Adds(a2, alerts, "StatisticalBaseline", <<>>)
    BY <1>9, <1>10, <2>1, AddsThenNone
  <2>3. Adds(a3, alerts, "StatisticalBaseline", <<>>)
    BY <1>9, <1>10, <2>1, <2>2, AddsThenNone
  <2>4. Adds(a4, alerts, "StatisticalBaseline", <<>>)
    BY <1>9, <1>10, <2>1, <2>3, AddsThenNone
  <2> QED
    BY <1>2, <1>9, <2>1, <2>4, AddsThenNone
<1>14. alerts' = a5
  BY <1>3 DEF a1, a2, a3, a4, a5
<1> QED
  BY <1>11, <1>12, <1>13, <1>14 DEF w, f, b

\* A delivered event keeps the types of the books and of what has been processed.
LEMMA ProcessedStep == FeedOK /\ ProcessedOK /\ RecentOK /\ [Next]_vars => ProcessedOK'
<1> SUFFICES ASSUME FeedOK, ProcessedOK, RecentOK, [Next]_vars PROVE ProcessedOK'
  OBVIOUS
<1>1. CASE UNCHANGED processVars
  BY <1>1 DEF processVars, ProcessedOK, IsSequence, Range
<1>2. ASSUME NEW event, Arrives(event), Process(event) PROVE ProcessedOK'
  <2> DEFINE i == event.instrument
             book == Spoofing!Applied(books[i], event)
             at == sequence[i] + 1
  <2>1. event \in Event /\ i \in Instruments
    BY <1>2 DEF Arrives, Event
  <2>2. book \in SUBSET RestingOrder /\ at \in Nat
    BY <2>1, AppliedTyped DEF ProcessedOK
  <2>3. /\ books' = [books EXCEPT ![i] = book] /\ sequence' = [sequence EXCEPT ![i] = at]
        /\ Skip(event) \/ Evaluate(event, book, at)
    BY <1>2 DEF Process
  <2> HIDE DEF book, at
  <2>4. books' \in [Instruments -> SUBSET RestingOrder]
    BY <2>1, <2>2, <2>3 DEF ProcessedOK
  <2>5. sequence' \in [Instruments -> Nat]
    BY <2>1, <2>2, <2>3 DEF ProcessedOK
  <2>6. CASE Skip(event)
    BY <2>4, <2>5, <2>6 DEF Skip, ProcessedOK, IsSequence, Range
  <2>7. CASE Evaluate(event, book, at)
    <3>1. IsSequence(alerts')
      BY <2>1, <2>7, AlertsAfter
    <3>2. accepted' \in Seq(Event) /\ skipped' \in Nat
      BY <2>1, <2>7, AppendProperties DEF Evaluate, ProcessedOK
    <3> QED
      BY <2>4, <2>5, <3>1, <3>2 DEF ProcessedOK, IsSequence
  <2> QED
    BY <2>3, <2>6, <2>7
<1> QED
  BY <1>1, <1>2, NextSends DEF vars, Deliver, LoseOnTheRing

-----------------------------------------------------------------------------
\* The lifecycle of an order

\* An order that is tracked after an event was placed by it, or was tracked before and
\* keeps its placement, and the event does not end its lifecycle.
Begins(book, event, id) ==
  event.kind \in {"New", "Replace"} /\ id = event.id /\ tracked'[id] = Spoofing!Placement(book, event)
Continues(event, id) ==
  /\ id \in DOMAIN tracked /\ (event.kind \in {"New", "Replace"} => id # event.id)
  /\ event.orig # id \/ event.kind = "Execution"
  /\ tracked'[id].account = tracked[id].account /\ tracked'[id].instrument = tracked[id].instrument
  /\ tracked'[id].side = tracked[id].side /\ tracked'[id].placed = tracked[id].placed
  /\ tracked'[id].left = IF event.kind = "Execution" /\ event.id = id
                         THEN tracked[id].left - event.qty ELSE tracked[id].left

\* What is tracked after an event, order by order.
LEMMA TrackedAfter ==
  ASSUME TrackingOK, NEW event, Arrives(event), NEW book, Tracks(book, event),
         NEW id \in DOMAIN tracked'
  PROVE  Begins(book, event, id) \/ Continues(event, id)
<1> DEFINE p == Spoofing!Placement(book, event)
           erased == Spoofing!Erased(tracked, event.orig)
<1>1. EntriesOK(tracked) /\ IsPlacement(p) /\ event \in Event
  BY PlacementOf DEF TrackingOK, Arrives
<1>2. /\ EntriesOK(erased) /\ DOMAIN erased = DOMAIN tracked \ {event.orig}
      /\ \A x \in DOMAIN tracked \ {event.orig} : erased[x] = tracked[x]
  BY <1>1, ErasedEntries
<1>3. event.kind = "New" => event.orig = event.id
  BY DEF Arrives, IsNew, IsCancel, IsReplace, IsExecution
<1> HIDE DEF p, erased
<1>4. CASE event.kind = "New" /\ tracked' = Spoofing!Entered(tracked, event.id, p)
  <2> DEFINE next == Spoofing!Entered(tracked, event.id, p)
  <2>0. /\ DOMAIN next = DOMAIN tracked \cup {event.id} /\ next[event.id] = p
        /\ \A x \in DOMAIN tracked \ {event.id} : next[x] = tracked[x]
    BY DEF Spoofing!Entered
  <2>1. /\ DOMAIN tracked' = DOMAIN tracked \cup {event.id} /\ tracked'[event.id] = p
        /\ \A x \in DOMAIN tracked \ {event.id} : tracked'[x] = tracked[x]
    BY <1>4, <2>0
  <2>2. CASE id = event.id
    BY <1>4, <2>1, <2>2 DEF Begins, p
  <2>3. CASE id # event.id
    BY <1>3, <1>4, <2>1, <2>3 DEF Continues
  <2> QED
    BY <2>2, <2>3
<1>5. CASE event.kind = "Replace" /\ tracked' = Spoofing!Entered(erased, event.id, p)
  <2> DEFINE next == Spoofing!Entered(erased, event.id, p)
  <2>0. /\ DOMAIN next = DOMAIN erased \cup {event.id} /\ next[event.id] = p
        /\ \A x \in DOMAIN erased \ {event.id} : next[x] = erased[x]
    BY DEF Spoofing!Entered
  <2>1. /\ DOMAIN tracked' = DOMAIN erased \cup {event.id} /\ tracked'[event.id] = p
        /\ \A x \in DOMAIN erased \ {event.id} : tracked'[x] = erased[x]
    BY <1>5, <2>0
  <2>2. CASE id = event.id
    BY <1>5, <2>1, <2>2 DEF Begins, p
  <2>3. CASE id # event.id
    BY <1>2, <1>5, <2>1, <2>3 DEF Continues
  <2> QED
    BY <2>2, <2>3
<1>6. CASE event.kind = "Cancel" /\ tracked' = erased
  BY <1>2, <1>6 DEF Continues
<1>7. CASE event.kind = "Execution" /\ event.id \notin DOMAIN tracked /\ tracked' = tracked
  BY <1>7 DEF Continues
<1>8. CASE event.kind = "Execution" /\ tracked' = Spoofing!Erased(tracked, event.id)
  <2>1. /\ DOMAIN tracked' = DOMAIN tracked \ {event.id}
        /\ \A x \in DOMAIN tracked \ {event.id} : tracked'[x] = tracked[x]
    BY <1>1, <1>8, ErasedEntries
  <2> QED
    BY <1>8, <2>1 DEF Continues
<1>9. CASE event.kind = "Execution" /\ event.id \in DOMAIN tracked
           /\ ~(tracked[event.id].left - event.qty <= 0)
           /\ tracked' = [tracked EXCEPT ![event.id].left = tracked[event.id].left - event.qty]
  <2>1. tracked[event.id].left \in Nat /\ event.qty \in Nat
    BY <1>1, <1>9 DEF EntriesOK, IsPlacement, Event
  <2>2. tracked[event.id].left - event.qty \in Nat
    BY <1>9, <2>1
  <2> DEFINE left == tracked[event.id].left - event.qty
  <2>3. left \in Nat /\ tracked' = [tracked EXCEPT ![event.id].left = left]
    BY <1>9, <2>2
  <2> HIDE DEF left
  <2>4. /\ DOMAIN tracked' = DOMAIN tracked
        /\ tracked'[event.id].left = left /\ tracked'[event.id].account = tracked[event.id].account
        /\ tracked'[event.id].instrument = tracked[event.id].instrument
        /\ tracked'[event.id].side = tracked[event.id].side
        /\ tracked'[event.id].placed = tracked[event.id].placed
        /\ \A x \in DOMAIN tracked \ {event.id} : tracked'[x] = tracked[x]
    BY <1>1, <1>9, <2>3, ReducedEntries
  <2> QED
    BY <1>9, <2>4 DEF Continues, left
<1> QED
  BY <1>4, <1>5, <1>6, <1>7, <1>8, <1>9 DEF Tracks, p, erased

\* An accepted event is the last of the accepted ones.
LEMMA AcceptedGrows ==
  ASSUME accepted \in Seq(Event), NEW event \in Event, accepted' = Append(accepted, event)
  PROVE  /\ Len(accepted) \in Nat /\ accepted' \in Seq(Event) /\ Len(accepted') = Len(accepted) + 1
         /\ DOMAIN accepted = 1 .. Len(accepted) /\ DOMAIN accepted' = 1 .. Len(accepted) + 1
         /\ \A n \in 1 .. Len(accepted) : accepted'[n] = accepted[n]
         /\ accepted'[Len(accepted) + 1] = event
BY AppendProperties, LenProperties

\* A step keeps the placement of every tracked order known.
LEMMA LifecycleStep ==
  FeedOK /\ ProcessedOK /\ TrackingOK /\ LifecycleOK /\ [Next]_vars => LifecycleOK'
<1> SUFFICES ASSUME FeedOK, ProcessedOK, TrackingOK, LifecycleOK, [Next]_vars PROVE LifecycleOK'
  OBVIOUS
<1>1. CASE UNCHANGED <<accepted, tracked>>
  BY <1>1 DEF LifecycleOK, PlacedBy
<1>2. ASSUME NEW event, Arrives(event), NEW book, NEW at, Evaluate(event, book, at),
             NEW id \in DOMAIN tracked'
      PROVE  \E p \in 1 .. Len(accepted') : PlacedBy(id, p)'
  <2> DEFINE n == Len(accepted) + 1
  <2>1. event \in Event /\ accepted \in Seq(Event) /\ accepted' = Append(accepted, event)
    BY <1>2 DEF Arrives, ProcessedOK, Evaluate
  <2>2. /\ Len(accepted) \in Nat /\ Len(accepted') = n
        /\ \A m \in 1 .. Len(accepted) : accepted'[m] = accepted[m]
        /\ accepted'[n] = event
    BY <2>1, AcceptedGrows
  <2>3. Tracks(book, event)
    BY <1>2, EvaluateTracks DEF Evaluate
  <2>4. CASE Begins(book, event, id)
    <3>1. /\ accepted'[n].kind \in {"New", "Replace"} /\ accepted'[n].id = id
          /\ accepted'[n].ts = tracked'[id].placed /\ accepted'[n].account = tracked'[id].account
      BY <2>1, <2>2, <2>4, PlacementOf DEF Begins
    <3>2. n \in 1 .. n /\ \A m \in n + 1 .. n : FALSE
      BY <2>2
    <3> HIDE DEF n
    <3> QED
      BY <2>2, <3>1, <3>2 DEF PlacedBy
  <2>5. CASE Continues(event, id)
    <3>1. PICK p \in 1 .. Len(accepted) : PlacedBy(id, p)
      BY <2>5 DEF LifecycleOK, Continues
    <3>2. /\ accepted'[p] = accepted[p] /\ p \in 1 .. n
          /\ \A m \in p + 1 .. n : m \in p + 1 .. Len(accepted) \/ m = n
          /\ \A m \in p + 1 .. Len(accepted) : m \in 1 .. Len(accepted)
      BY <2>2
    <3>3. \A m \in p + 1 .. n : accepted'[m].orig = id => accepted'[m].kind = "Execution"
      BY <2>2, <2>5, <3>1, <3>2 DEF PlacedBy, Continues
    <3>4. /\ accepted'[p].kind \in {"New", "Replace"} /\ accepted'[p].id = id
          /\ accepted'[p].ts = tracked'[id].placed /\ accepted'[p].account = tracked'[id].account
      BY <2>5, <3>1, <3>2 DEF PlacedBy, Continues
    <3> HIDE DEF n
    <3> QED
      BY <2>2, <3>2, <3>3, <3>4 DEF PlacedBy
  <2> QED
    BY <2>3, <2>4, <2>5, <1>2, TrackedAfter
<1> QED
  BY <1>1, <1>2, NextSends
     DEF LifecycleOK, vars, processVars, detectorVars, Deliver, LoseOnTheRing, Process, Skip

\* The alert is about the lifecycle from the p-th of these events to the c-th.
OneLifecycle(list, a, p, c) ==
  /\ p < c /\ a.start <= a.end
  /\ list[p].kind \in {"New", "Replace"} /\ list[p].ts = a.start
  /\ list[c].kind = "Cancel" /\ list[c].ts = a.end
  /\ a.orders = {list[p].id} /\ a.orders = {list[c].orig}
  /\ a.accounts = {list[p].account}
  /\ \A m \in p + 1 .. c - 1 : list[m].orig \in a.orders => list[m].kind = "Execution"

\* An alert that a cancel raises is about the lifecycle the cancel ends.
LEMMA CancelNamesLifecycle ==
  ASSUME ProcessedOK, TrackingOK, LifecycleOK, NEW event \in Event, NEW book, NEW at,
         accepted' = Append(accepted, event),
         NEW a \in Range(Spoofing!SpoofAlerts(book, event, at))
  PROVE  \E p \in 1 .. Len(accepted) : OneLifecycle(accepted', a, p, Len(accepted) + 1)
<1> DEFINE n == Len(accepted) + 1
           order == tracked[event.orig]
<1>1. /\ Len(accepted) \in Nat /\ accepted'[n] = event
      /\ \A m \in 1 .. Len(accepted) : accepted'[m] = accepted[m]
  BY AcceptedGrows DEF ProcessedOK
<1>2. event.kind = "Cancel" /\ a \in Range(Spoofing!HandleCancel(book, event, at))
  BY DEF Spoofing!SpoofAlerts, Range
<1>3. /\ event.orig \in DOMAIN tracked /\ Spoofing!Coherent(order, event)
      /\ a = [detector |-> "SpoofingLayering", instrument |-> order.instrument,
              accounts |-> {order.account}, orders |-> {event.orig},
              start |-> order.placed, end |-> event.ts, sequence |-> at]
  BY <1>2 DEF Spoofing!HandleCancel, Range
<1>4. /\ a.start = order.placed /\ a.end = event.ts /\ a.orders = {event.orig}
      /\ a.accounts = {order.account} /\ a.start <= a.end
  BY <1>3 DEF Spoofing!Coherent
<1>5. PICK p \in 1 .. Len(accepted) : PlacedBy(event.orig, p)
  BY <1>3 DEF LifecycleOK
<1>6. p < n /\ n - 1 = Len(accepted) /\ \A m \in p + 1 .. Len(accepted) : m \in 1 .. Len(accepted)
  BY <1>1
<1>7. /\ accepted'[p].kind \in {"New", "Replace"} /\ accepted'[p].ts = a.start
      /\ a.orders = {accepted'[p].id} /\ a.accounts = {accepted'[p].account}
  BY <1>1, <1>4, <1>5 DEF PlacedBy
<1>8. \A m \in p + 1 .. Len(accepted) : accepted'[m].orig \in a.orders => accepted'[m].kind = "Execution"
  BY <1>1, <1>4, <1>5, <1>6 DEF PlacedBy
<1> HIDE DEF n
<1>9. OneLifecycle(accepted', a, p, n)
  BY <1>1, <1>2, <1>4, <1>6, <1>7, <1>8 DEF OneLifecycle
<1> QED
  BY <1>9 DEF n

\* A step keeps every spoofing alert about one lifecycle.
LEMMA SpoofingStep ==
  FeedOK /\ ProcessedOK /\ RecentOK /\ TrackingOK /\ LifecycleOK /\ SpoofingAlertsNameOneLifecycle
  /\ [Next]_vars => SpoofingAlertsNameOneLifecycle'
<1> SUFFICES ASSUME FeedOK, ProcessedOK, RecentOK, TrackingOK, LifecycleOK,
                    SpoofingAlertsNameOneLifecycle, [Next]_vars
             PROVE  SpoofingAlertsNameOneLifecycle'
  OBVIOUS
<1>1. CASE UNCHANGED <<accepted, alerts>>
  BY <1>1 DEF SpoofingAlertsNameOneLifecycle, Range
<1>2. ASSUME NEW event, Arrives(event), NEW book, NEW at, Evaluate(event, book, at),
             NEW a \in Range(alerts'), a.detector = "SpoofingLayering"
      PROVE  \E p, c \in DOMAIN accepted' : OneLifecycle(accepted', a, p, c)
  <2> DEFINE n == Len(accepted) + 1
  <2>1. event \in Event /\ accepted \in Seq(Event) /\ accepted' = Append(accepted, event)
    BY <1>2 DEF Arrives, ProcessedOK, Evaluate
  <2>2. /\ Len(accepted) \in Nat /\ DOMAIN accepted = 1 .. Len(accepted) /\ DOMAIN accepted' = 1 .. n
        /\ \A m \in 1 .. Len(accepted) : accepted'[m] = accepted[m]
    BY <2>1, AcceptedGrows
  <2>3. a \in Range(alerts) \cup Range(Spoofing!SpoofAlerts(book, event, at))
    <3>1. \A list, d : From(list, d) /\ d # "SpoofingLayering" => a \notin Range(list)
      BY <1>2, SequenceIs DEF From, Range
    <3>2. accepted \in Seq(Event)
      BY DEF ProcessedOK
    <3> QED
      BY <1>2, <2>1, <3>1, <3>2, AlertsAfter, DetectorLists
  <2>4. CASE a \in Range(alerts)
    <3>1. PICK p, c \in DOMAIN accepted : OneLifecycle(accepted, a, p, c)
      BY <1>2, <2>4 DEF SpoofingAlertsNameOneLifecycle, OneLifecycle
    <3>2. /\ p \in 1 .. Len(accepted) /\ c \in 1 .. Len(accepted) /\ p \in DOMAIN accepted' /\ c \in DOMAIN accepted'
          /\ \A m \in p + 1 .. c - 1 : m \in 1 .. Len(accepted)
      BY <2>2
    <3>3. OneLifecycle(accepted', a, p, c)
      BY <2>2, <3>1, <3>2 DEF OneLifecycle
    <3> QED
      BY <3>2, <3>3
  <2>5. CASE a \in Range(Spoofing!SpoofAlerts(book, event, at))
    <3>1. PICK p \in 1 .. Len(accepted) : OneLifecycle(accepted', a, p, n)
      BY <2>1, <2>5, CancelNamesLifecycle
    <3>2. p \in DOMAIN accepted' /\ n \in DOMAIN accepted'
      BY <2>2
    <3> HIDE DEF n
    <3> QED
      BY <3>1, <3>2
  <2> QED
    BY <2>3, <2>4, <2>5
<1>3. ASSUME NEW event, Arrives(event), NEW book, NEW at, Evaluate(event, book, at)
      PROVE  SpoofingAlertsNameOneLifecycle'
  BY <1>2, <1>3 DEF SpoofingAlertsNameOneLifecycle, OneLifecycle
<1> QED
  BY <1>1, <1>3, NextSends DEF vars, processVars, Deliver, LoseOnTheRing, Process, Skip

-----------------------------------------------------------------------------
\* The recent orders

\* One event more, and which of the earlier New orders remain.
LEMMA RemainingAfter ==
  ASSUME accepted \in Seq(Event), NEW event \in Event, accepted' = Append(accepted, event), NEW key
  PROVE  Remaining(key)' =
           IF event.kind = "New" /\ Fronting!SideOf(event) = key
           THEN Nearby(event) \cup {Len(accepted) + 1} ELSE Remaining(key)
<1>0. PICK n : n = Len(accepted) + 1
  OBVIOUS
<1>1. /\ Len(accepted) \in Nat /\ Len(accepted') = n
      /\ DOMAIN accepted = 1 .. Len(accepted) /\ DOMAIN accepted' = 1 .. n
      /\ \A m \in 1 .. Len(accepted) : accepted'[m] = accepted[m]
      /\ accepted'[n] = event
  BY <1>0, AcceptedGrows
<1>2. \A m \in 1 .. Len(accepted) : m \in 1 .. n /\ m # n
  BY <1>0, <1>1
<1>3. n \in 1 .. n /\ \A m \in 1 .. n : m = n \/ m \in 1 .. Len(accepted)
  BY <1>0, <1>1
<1>4. \A m \in n + 1 .. n : FALSE
  BY <1>0, <1>1
<1>5. \A m \in 1 .. Len(accepted) : \A h \in m + 1 .. n : h = n \/ h \in m + 1 .. Len(accepted)
  BY <1>0, <1>1
<1>6. \A m \in 1 .. Len(accepted) : n \in m + 1 .. n /\ \A h \in m + 1 .. Len(accepted) : h \in m + 1 .. n /\ h \in 1 .. Len(accepted)
  BY <1>0, <1>1
<1> DEFINE joins == event.kind = "New" /\ Fronting!SideOf(event) = key
<1>7. Joins(n, key)' <=> joins
  BY <1>1 DEF Joins, Fronting!SideOf
<1>8. \A m \in 1 .. Len(accepted) : Joins(m, key)' <=> Joins(m, key)
  BY <1>1 DEF Joins
<1> DEFINE Stays(m) == joins => Spoofing!Distance(event.ts, accepted[m].ts) <= Lookback
<1>9. ASSUME NEW m \in 1 .. Len(accepted)
      PROVE  m \in Remaining(key)' <=> m \in Remaining(key) /\ Stays(m)
  <2>1. m \in Remaining(key)' <=> /\ Joins(m, key)'
                                  /\ \A h \in m + 1 .. n :
                                       Joins(h, key)' => Spoofing!Distance(accepted'[h].ts, accepted'[m].ts) <= Lookback
    BY <1>1, <1>2 DEF Remaining
  <2>2. m \in Remaining(key) <=> /\ Joins(m, key)
                                 /\ \A h \in m + 1 .. Len(accepted) :
                                      Joins(h, key) => Spoofing!Distance(accepted[h].ts, accepted[m].ts) <= Lookback
    BY <1>1 DEF Remaining
  <2>3. \A h \in m + 1 .. Len(accepted) : accepted'[h] = accepted[h] /\ (Joins(h, key)' <=> Joins(h, key))
    BY <1>1, <1>6, <1>8
  <2> HIDE DEF joins
  <2>4. accepted'[m] = accepted[m] /\ (Joins(m, key)' <=> Joins(m, key))
    BY <1>1, <1>8
  <2>5. n \in m + 1 .. n /\ accepted'[n] = event
    BY <1>1, <1>6
  <2>6. (\A h \in m + 1 .. n :
          Joins(h, key)' => Spoofing!Distance(accepted'[h].ts, accepted'[m].ts) <= Lookback)
        <=> /\ \A h \in m + 1 .. Len(accepted) :
                 Joins(h, key) => Spoofing!Distance(accepted[h].ts, accepted[m].ts) <= Lookback
            /\ Stays(m)
    BY <1>5, <1>6, <1>7, <2>3, <2>4, <2>5
  <2> QED
    BY <2>1, <2>2, <2>4, <2>6
<1>10. n \in Remaining(key)' <=> joins
  <2>1. n \in DOMAIN accepted' /\ \A m \in n + 1 .. Len(accepted') : FALSE
    BY <1>1, <1>3, <1>4
  <2>2. n \in Remaining(key)' <=> Joins(n, key)'
    BY <2>1 DEF Remaining
  <2> QED
    BY <1>7, <2>2
<1>11. Remaining(key)' \subseteq 1 .. n /\ Remaining(key) \subseteq 1 .. Len(accepted)
  BY <1>1 DEF Remaining
<1>12. CASE joins
  <2>1. Nearby(event) = {m \in Remaining(key) : Spoofing!Distance(event.ts, accepted[m].ts) <= Lookback}
    BY <1>12 DEF Nearby
  <2>2. \A m : m \in Remaining(key)' <=> m \in Nearby(event) \cup {n}
    BY <1>3, <1>9, <1>10, <1>11, <1>12, <2>1
  <2> QED
    BY <1>0, <1>12, <2>2
<1>13. CASE ~joins
  <2>1. \A m : m \in Remaining(key)' <=> m \in Remaining(key)
    BY <1>2, <1>3, <1>9, <1>10, <1>11, <1>13
  <2> QED
    BY <1>13, <2>1
<1> QED
  BY <1>12, <1>13

\* A step keeps what is known of the recent orders.
LEMMA RecentStep == FeedOK /\ ProcessedOK /\ RecentOK /\ [Next]_vars => RecentOK'
<1> SUFFICES ASSUME FeedOK, ProcessedOK, RecentOK, [Next]_vars PROVE RecentOK'
  OBVIOUS
<1> USE DEF Sides
<1>1. CASE UNCHANGED <<accepted, recent>>
  <2>1. ASSUME NEW key PROVE Remaining(key)' = Remaining(key)
    BY <1>1 DEF Remaining, Joins
  <2>2. ASSUME NEW key, RecentOn(recent[key], key) PROVE RecentOn(recent[key], key)'
    BY <1>1, <2>1, <2>2 DEF RecentOn, IsSequence, Range
  <2> QED
    BY <1>1, <2>2 DEF RecentOK
<1>2. ASSUME NEW event, Arrives(event), NEW book, NEW at, Evaluate(event, book, at)
      PROVE  RecentOK'
  <2>0. PICK n, key : n = Len(accepted) + 1 /\ key = Fronting!SideOf(event)
    OBVIOUS
  <2> DEFINE list == Append(Fronting!Kept(event), Prior(event))
  <2>1. event \in Event /\ accepted \in Seq(Event) /\ accepted' = Append(accepted, event)
    BY <1>2 DEF Arrives, ProcessedOK, Evaluate
  <2>2. /\ Len(accepted) \in Nat /\ \A m \in 1 .. Len(accepted) : accepted'[m] = accepted[m]
        /\ accepted'[n] = event
    BY <2>0, <2>1, AcceptedGrows
  <2>3. key \in Instruments \X Sides
    BY <2>0, <2>1 DEF Fronting!SideOf, Event
  <2>4. recent' = IF event.kind # "New" THEN recent ELSE [recent EXCEPT ![key] = list]
    BY <1>2, <2>0 DEF Evaluate, Fronting!EvaluateFront, Prior
  <2>5. recent = [k \in Instruments \X Sides |-> recent[k]]
    BY DEF RecentOK
  <2> HIDE DEF list
  <2>6. recent' = [k \in Instruments \X Sides |-> recent'[k]]
    BY <2>4, <2>5
  <2>7. ASSUME NEW other \in Instruments \X Sides, event.kind # "New" \/ other # key
        PROVE  RecentOn(recent[other], other)'
    <3>1. Remaining(other)' = Remaining(other)
      BY <2>0, <2>1, <2>7, RemainingAfter
    <3>2. recent'[other] = recent[other]
      BY <2>3, <2>4, <2>5, <2>7
    <3>3. RecentOn(recent[other], other)
      BY DEF RecentOK
    <3>4. /\ Remaining(other) \subseteq 1 .. Len(accepted) /\ Remaining(other) \in SUBSET Nat
          /\ IsFiniteSet(Remaining(other))
      BY <2>1, RemainingOf
    <3>5. \A k \in 1 .. Cardinality(Remaining(other)) : Ascending(Remaining(other))[k] \in 1 .. Len(accepted)
      BY <3>4, AscendingLists DEF Lists
    <3>6. \A k \in 1 .. Len(recent[other]) :
            Prior(accepted'[Ascending(Remaining(other))[k]]) = Prior(accepted[Ascending(Remaining(other))[k]])
      BY <2>2, <3>3, <3>5 DEF RecentOn
    <3> QED
      BY <3>1, <3>2, <3>3, <3>6 DEF RecentOn, IsSequence, Range
  <2>8. CASE event.kind = "New"
    <3> DEFINE S == Nearby(event)
               kept == Fronting!Kept(event)
    <3>1. S \in SUBSET Nat /\ IsFiniteSet(S) /\ IsSequence(kept) /\ Len(kept) = Cardinality(S)
          /\ \A k \in 1 .. Len(kept) : kept[k] = Prior(accepted[Ascending(S)[k]])
      BY <2>1, KeptRetells DEF Retells
    <3>2. S \subseteq 1 .. Len(accepted)
      BY <2>1, RemainingOf DEF Nearby
    <3>3. Remaining(key)' = S \cup {n}
      BY <2>0, <2>1, <2>8, RemainingAfter
    <3> HIDE DEF S, kept
    <3>4. n \in Nat /\ \A i \in S : i < n
      BY <2>0, <2>2, <3>2
    <3> DEFINE more == Prior(event)
    <3> HIDE DEF more
    <3>40. list = Append(kept, more)
      BY DEF list, kept, more
    <3>5. /\ IsSequence(list) /\ Len(list) = Cardinality(S \cup {n})
          /\ Len(list) = Len(kept) + 1 /\ Len(kept) \in Nat
          /\ \A k \in 1 .. Len(kept) : list[k] = kept[k] /\ Ascending(S \cup {n})[k] = Ascending(S)[k]
          /\ list[Len(kept) + 1] = more /\ Ascending(S \cup {n})[Len(kept) + 1] = n
      <4>1. /\ S \in SUBSET Nat /\ IsFiniteSet(S) /\ n \in Nat /\ \A i \in S : i < n
            /\ IsSequence(kept) /\ Len(kept) = Cardinality(S)
        BY <3>1, <3>4
      <4> HIDE DEF list
      <4>2. IsLonger(list, kept, S, n, more)
        BY <4>1, <3>40, LongerList
      <4> QED
        BY <4>2 DEF IsLonger
    <3>6. \A k \in 1 .. Len(kept) : Ascending(S)[k] \in 1 .. Len(accepted)
      BY <3>1, <3>2, AscendingLists DEF Lists
    <3>7. ASSUME NEW k \in 1 .. Len(list) PROVE list[k] = Prior(accepted'[Ascending(S \cup {n})[k]])
      <4>1. CASE k = Len(kept) + 1
        BY <2>2, <3>5, <4>1 DEF more
      <4>2. CASE k # Len(kept) + 1
        <5>1. k \in 1 .. Len(kept)
          BY <3>5, <4>2
        <5>2. accepted'[Ascending(S)[k]] = accepted[Ascending(S)[k]]
          BY <2>2, <3>6, <5>1
        <5> QED
          BY <3>1, <3>5, <5>1, <5>2
      <4> QED
        BY <4>1, <4>2
    <3>8. recent'[key] = list
      BY <2>3, <2>4, <2>5, <2>8
    <3>9. RecentOn(recent[key], key)'
      BY <3>3, <3>5, <3>7, <3>8 DEF RecentOn, IsSequence, Range
    <3> QED
      BY <2>6, <2>7, <3>9 DEF RecentOK
  <2>9. CASE event.kind # "New"
    BY <2>6, <2>7, <2>9 DEF RecentOK
  <2> QED
    BY <2>8, <2>9
<1> QED
  BY <1>1, <1>2, NextSends
     DEF vars, processVars, detectorVars, Deliver, LoseOnTheRing, Process, Skip

-----------------------------------------------------------------------------
\* The concurrency samples

\* The placements of an instrument and side that every later event of the instrument found
\* within the density window.
Placing(n, key) ==
  /\ accepted[n].instrument = key[1] /\ accepted[n].side = key[2]
  /\ accepted[n].kind \in {"New", "Replace"}
Sampled(key) ==
  {n \in DOMAIN accepted :
     /\ Placing(n, key)
     /\ \A m \in n + 1 .. Len(accepted) :
          accepted[m].instrument = key[1] => Spoofing!Near(accepted[m].ts, accepted[n].ts)}
IsSampleOf(sample, event) == sample.ts = event.ts /\ sample.account = event.account
SamplesOn(list, key) ==
  /\ IsSequence(list) /\ Len(list) = Cardinality(Sampled(key))
  /\ \A k \in 1 .. Len(list) : IsSampleOf(list[k], accepted[Ascending(Sampled(key))[k]])
SamplesOK == \A key \in Spoofing!SideKeys : SamplesOn(ambient[key].samples, key)

\* What an event does to the samples of an instrument and side.
LEMMA SamplesAfter ==
  ASSUME TrackingOK, NEW event \in Event, NEW book, Spoofing!EvaluateSpoofing(book, event),
         NEW key \in Spoofing!SideKeys
  PROVE  LET trimmed == Spoofing!Trimmed(ambient[key].samples, event.ts) IN
         /\ key[1] # event.instrument => ambient'[key].samples = ambient[key].samples
         /\ key[1] = event.instrument =>
              IF event.kind \in {"New", "Replace"} /\ event.side = key[2]
              THEN \E x : IsSampleOf(x, event) /\ ambient'[key].samples = Append(trimmed, x)
              ELSE ambient'[key].samples = trimmed
<1> DEFINE trimmed == Spoofing!Trimmed(ambient[key].samples, event.ts)
           fresh == Spoofing!UpdateAmbient(book, event)
           here == <<event.instrument, event.side>>
<1>1. /\ fresh = [k \in Spoofing!SideKeys |-> fresh[k]]
      /\ fresh[key].samples = IF key[1] # event.instrument THEN ambient[key].samples ELSE trimmed
      /\ key[1] = event.instrument => "samples" \in DOMAIN fresh[key]
  BY DEF Spoofing!UpdateAmbient, Spoofing!Refreshed
<1>2. key = <<key[1], key[2]>> /\ here \in Spoofing!SideKeys
  BY DEF Spoofing!SideKeys, Event, Sides
<1> HIDE DEF trimmed, fresh, here
<1>3. \/ event.kind \notin {"New", "Replace"} /\ ambient' = fresh
      \/ /\ event.kind \in {"New", "Replace"}
         /\ \E open : ambient' = [fresh EXCEPT ![here].samples =
                        Append(@, [ts |-> event.ts, account |-> event.account, open |-> open])]
  BY DEF Spoofing!EvaluateSpoofing, Spoofing!TrackNew, fresh, here
<1>4. CASE event.kind \notin {"New", "Replace"}
  BY <1>1, <1>3, <1>4 DEF trimmed
<1>5. CASE event.kind \in {"New", "Replace"}
  <2>1. PICK open : ambient' = [fresh EXCEPT ![here].samples =
                        Append(@, [ts |-> event.ts, account |-> event.account, open |-> open])]
    BY <1>3, <1>5
  <2> DEFINE x == [ts |-> event.ts, account |-> event.account, open |-> open]
  <2>2. IsSampleOf(x, event)
    BY DEF IsSampleOf
  <2>3. ambient' = [fresh EXCEPT ![here].samples = Append(fresh[here].samples, x)]
    BY <2>1
  <2> HIDE DEF x
  <2>4. CASE key = here
    <3>2. key[1] = event.instrument /\ key[2] = event.side
      BY <2>4 DEF here
    <3> DEFINE more == Append(fresh[key].samples, x)
    <3>3. ambient' = [fresh EXCEPT ![key].samples = more]
      BY <2>3, <2>4
    <3> HIDE DEF more
    <3>4. key \in DOMAIN fresh /\ "samples" \in DOMAIN fresh[key]
      BY <1>1, <3>2
    <3>5. ambient'[key].samples = more
      BY <3>3, <3>4
    <3>1. ambient'[key].samples = Append(fresh[key].samples, x)
      BY <3>5 DEF more
    <3> QED
      BY <1>1, <1>5, <2>2, <3>1, <3>2 DEF trimmed
  <2>5. CASE key # here
    <3>1. ambient'[key] = fresh[key]
      BY <1>1, <1>2, <2>3, <2>5
    <3>2. key[1] # event.instrument \/ key[2] # event.side
      BY <1>2, <2>5 DEF here
    <3> QED
      BY <1>1, <1>5, <3>1, <3>2 DEF trimmed
  <2> QED
    BY <2>4, <2>5
<1> QED
  BY <1>4, <1>5

\* The placements of the instrument within the density window of an event.
Fresh(event, key) == {n \in Sampled(key) : Spoofing!Near(event.ts, accepted[n].ts)}

\* They are positions of the history.
LEMMA SampledOf ==
  ASSUME accepted \in Seq(Event), NEW key
  PROVE  /\ Sampled(key) \subseteq 1 .. Len(accepted) /\ Sampled(key) \in SUBSET Nat
         /\ IsFiniteSet(Sampled(key))
<1>1. Len(accepted) \in Nat /\ DOMAIN accepted = 1 .. Len(accepted)
  BY LenProperties
<1>2. Sampled(key) \subseteq 1 .. Len(accepted)
  BY <1>1 DEF Sampled
<1>3. IsFiniteSet(1 .. Len(accepted))
  BY <1>1, FS_Interval
<1> HIDE DEF Sampled
<1>4. IsFiniteSet(Sampled(key))
  BY <1>2, <1>3, FS_Subset
<1>5. Sampled(key) \in SUBSET Nat
  BY <1>1, <1>2
<1> QED
  BY <1>2, <1>4, <1>5

\* One event more, and which of the earlier placements every event so far has near.
LEMMA SampledAfter ==
  ASSUME accepted \in Seq(Event), NEW event \in Event, accepted' = Append(accepted, event), NEW key
  PROVE  Sampled(key)' =
           IF key[1] # event.instrument THEN Sampled(key)
           ELSE IF event.kind \in {"New", "Replace"} /\ event.side = key[2]
                THEN Fresh(event, key) \cup {Len(accepted) + 1} ELSE Fresh(event, key)
<1>0. PICK n : n = Len(accepted) + 1
  OBVIOUS
<1>1. /\ Len(accepted) \in Nat /\ Len(accepted') = n
      /\ DOMAIN accepted = 1 .. Len(accepted) /\ DOMAIN accepted' = 1 .. n
      /\ \A m \in 1 .. Len(accepted) : accepted'[m] = accepted[m]
      /\ accepted'[n] = event
  BY <1>0, AcceptedGrows
<1>2. \A m \in 1 .. Len(accepted) : m \in 1 .. n /\ m # n
  BY <1>0, <1>1
<1>3. n \in 1 .. n /\ \A m \in 1 .. n : m = n \/ m \in 1 .. Len(accepted)
  BY <1>0, <1>1
<1>4. \A m \in n + 1 .. n : FALSE
  BY <1>0, <1>1
<1>5. \A m \in 1 .. Len(accepted) : \A h \in m + 1 .. n : h = n \/ h \in m + 1 .. Len(accepted)
  BY <1>0, <1>1
<1>6. \A m \in 1 .. Len(accepted) :
        n \in m + 1 .. n /\ \A h \in m + 1 .. Len(accepted) : h \in m + 1 .. n /\ h \in 1 .. Len(accepted)
  BY <1>0, <1>1
<1> DEFINE placing == /\ event.instrument = key[1] /\ event.side = key[2]
                      /\ event.kind \in {"New", "Replace"}
           Stays(m) == event.instrument = key[1] => Spoofing!Near(event.ts, accepted[m].ts)
<1>7. Placing(n, key)' <=> placing
  BY <1>1 DEF Placing
<1>8. \A m \in 1 .. Len(accepted) : Placing(m, key)' <=> Placing(m, key)
  BY <1>1 DEF Placing
<1>9. ASSUME NEW m \in 1 .. Len(accepted)
      PROVE  m \in Sampled(key)' <=> m \in Sampled(key) /\ Stays(m)
  <2>1. m \in Sampled(key)' <=>
          /\ Placing(m, key)'
          /\ \A h \in m + 1 .. n :
               accepted'[h].instrument = key[1] => Spoofing!Near(accepted'[h].ts, accepted'[m].ts)
    BY <1>1, <1>2 DEF Sampled
  <2>2. m \in Sampled(key) <=>
          /\ Placing(m, key)
          /\ \A h \in m + 1 .. Len(accepted) :
               accepted[h].instrument = key[1] => Spoofing!Near(accepted[h].ts, accepted[m].ts)
    BY <1>1 DEF Sampled
  <2>3. \A h \in m + 1 .. Len(accepted) : accepted'[h] = accepted[h]
    BY <1>1, <1>6
  <2>4. accepted'[m] = accepted[m] /\ (Placing(m, key)' <=> Placing(m, key))
    BY <1>1, <1>8
  <2>5. n \in m + 1 .. n /\ accepted'[n] = event
    BY <1>1, <1>6
  <2>6. (\A h \in m + 1 .. n :
           accepted'[h].instrument = key[1] => Spoofing!Near(accepted'[h].ts, accepted'[m].ts))
        <=> /\ \A h \in m + 1 .. Len(accepted) :
                 accepted[h].instrument = key[1] => Spoofing!Near(accepted[h].ts, accepted[m].ts)
            /\ Stays(m)
    BY <1>5, <1>6, <2>3, <2>4, <2>5
  <2> QED
    BY <2>1, <2>2, <2>4, <2>6
<1>10. n \in Sampled(key)' <=> placing
  <2>1. n \in DOMAIN accepted' /\ \A m \in n + 1 .. Len(accepted') : FALSE
    BY <1>1, <1>3, <1>4
  <2>2. n \in Sampled(key)' <=> Placing(n, key)'
    BY <2>1 DEF Sampled
  <2> QED
    BY <1>7, <2>2
<1>11. Sampled(key)' \subseteq 1 .. n /\ Sampled(key) \subseteq 1 .. Len(accepted)
  BY <1>1 DEF Sampled
<1>12. CASE key[1] # event.instrument
  <2>1. \A m : m \in Sampled(key)' <=> m \in Sampled(key)
    BY <1>2, <1>3, <1>9, <1>10, <1>11, <1>12
  <2> QED
    BY <1>12, <2>1
<1>13. CASE placing
  <2>1. \A m : m \in Sampled(key)' <=> m \in Fresh(event, key) \cup {n}
    BY <1>3, <1>9, <1>10, <1>11, <1>13 DEF Fresh
  <2> QED
    BY <1>0, <1>13, <2>1
<1>14. CASE key[1] = event.instrument /\ ~placing
  <2>1. \A m : m \in Sampled(key)' <=> m \in Fresh(event, key)
    BY <1>2, <1>3, <1>9, <1>10, <1>11, <1>14 DEF Fresh
  <2> QED
    BY <1>14, <2>1
<1> QED
  BY <1>12, <1>13, <1>14

\* A list that goes with positions of the history by time and account.
Samples(list, S) ==
  /\ IsSequence(list) /\ Len(list) = Cardinality(S)
  /\ \A k \in 1 .. Len(list) : IsSampleOf(list[k], accepted[Ascending(S)[k]])

\* What is left after the event trims the samples.
LEMMA TrimmedSamples ==
  ASSUME accepted \in Seq(Event), SamplesOK, NEW event \in Event, NEW key \in Spoofing!SideKeys
  PROVE  /\ Fresh(event, key) \subseteq 1 .. Len(accepted)
         /\ Fresh(event, key) \in SUBSET Nat /\ IsFiniteSet(Fresh(event, key))
         /\ Samples(Spoofing!Trimmed(ambient[key].samples, event.ts), Fresh(event, key))
<1> DEFINE S == Sampled(key)
           T == Fresh(event, key)
           s == ambient[key].samples
           K == {k \in DOMAIN s : Spoofing!Near(event.ts, s[k].ts)}
<1>1. IsSequence(s) /\ Len(s) = Cardinality(S)
      /\ \A k \in 1 .. Len(s) : IsSampleOf(s[k], accepted[Ascending(S)[k]])
  BY DEF SamplesOK, SamplesOn
<1>2. S \subseteq 1 .. Len(accepted) /\ S \in SUBSET Nat /\ IsFiniteSet(S)
  BY SampledOf
<1>3. DOMAIN s = 1 .. Cardinality(S)
  BY <1>1, SequenceIs
<1>4. T \in SUBSET S
  BY DEF Fresh
<1>5. Lists(Ascending(S), Cardinality(S), S)
  BY <1>2, AscendingLists
<1>6. \A k \in DOMAIN s : Ascending(S)[k] \in S
  BY <1>3, <1>5 DEF Lists
<1>7. \A k \in DOMAIN s : k \in K <=> Ascending(S)[k] \in T
  <2>1. \A k \in DOMAIN s : s[k].ts = accepted[Ascending(S)[k]].ts
    BY <1>1, <1>3 DEF IsSampleOf
  <2> QED
    BY <1>6, <2>1 DEF Fresh
<1>8. K \in SUBSET DOMAIN s
  OBVIOUS
<1>9. Spoofing!Trimmed(s, event.ts) = Subsequence(s, K)
  BY SameSubsequences DEF Spoofing!Trimmed
<1> HIDE DEF K, T, S, s
<1>10. /\ IsFiniteSet(T) /\ Cardinality(T) \in Nat
       /\ IsSequence(Subsequence(s, K)) /\ Len(Subsequence(s, K)) = Cardinality(T)
       /\ \A k \in 1 .. Cardinality(T) : \E j \in DOMAIN s :
            Subsequence(s, K)[k] = s[j] /\ Ascending(T)[k] = Ascending(S)[j]
  BY <1>2, <1>3, <1>4, <1>7, <1>8, TrimmedList, ZenonT(60)
<1>11. \A k \in 1 .. Cardinality(T) : IsSampleOf(Subsequence(s, K)[k], accepted[Ascending(T)[k]])
  BY <1>1, <1>3, <1>10
<1>12. Samples(Subsequence(s, K), T)
  BY <1>10, <1>11 DEF Samples
<1>13. T \subseteq 1 .. Len(accepted) /\ T \in SUBSET Nat
  BY <1>2, <1>4
<1> QED
  BY <1>9, <1>10, <1>12, <1>13 DEF T, s

\* A step keeps what is known of the samples.
LEMMA SamplesStep == FeedOK /\ ProcessedOK /\ TrackingOK /\ SamplesOK /\ [Next]_vars => SamplesOK'
<1> SUFFICES ASSUME FeedOK, ProcessedOK, TrackingOK, SamplesOK, [Next]_vars PROVE SamplesOK'
  OBVIOUS
<1>1. CASE UNCHANGED <<accepted, ambient>>
  <2>1. ASSUME NEW key PROVE Sampled(key)' = Sampled(key)
    BY <1>1 DEF Sampled, Placing
  <2>2. ASSUME NEW key, SamplesOn(ambient[key].samples, key) PROVE SamplesOn(ambient[key].samples, key)'
    BY <1>1, <2>1, <2>2 DEF SamplesOn, IsSequence, Range
  <2> QED
    BY <1>1, <2>2 DEF SamplesOK
<1>2. ASSUME NEW event, Arrives(event), NEW book, NEW at, Evaluate(event, book, at),
             NEW key \in Spoofing!SideKeys
      PROVE  SamplesOn(ambient[key].samples, key)'
  <2>0. PICK n : n = Len(accepted) + 1
    OBVIOUS
  <2> DEFINE trimmed == Spoofing!Trimmed(ambient[key].samples, event.ts)
             T == Fresh(event, key)
  <2>1. event \in Event /\ accepted \in Seq(Event) /\ accepted' = Append(accepted, event)
        /\ Spoofing!EvaluateSpoofing(book, event)
    BY <1>2 DEF Arrives, ProcessedOK, Evaluate
  <2>2. /\ Len(accepted) \in Nat /\ \A m \in 1 .. Len(accepted) : accepted'[m] = accepted[m]
        /\ accepted'[n] = event
    BY <2>0, <2>1, AcceptedGrows
  <2>3. /\ key[1] # event.instrument => ambient'[key].samples = ambient[key].samples
        /\ key[1] = event.instrument =>
             IF event.kind \in {"New", "Replace"} /\ event.side = key[2]
             THEN \E x : IsSampleOf(x, event) /\ ambient'[key].samples = Append(trimmed, x)
             ELSE ambient'[key].samples = trimmed
    BY <2>1, SamplesAfter
  <2>4. /\ T \subseteq 1 .. Len(accepted) /\ T \in SUBSET Nat /\ IsFiniteSet(T)
        /\ Samples(trimmed, T)
    BY <2>1, TrimmedSamples
  <2> HIDE DEF trimmed, T
  \* What goes with a set of positions still does after the event.
  <2>5. ASSUME NEW S, S \subseteq 1 .. Len(accepted), S \in SUBSET Nat, IsFiniteSet(S),
               NEW list, Samples(list, S), Sampled(key)' = S, ambient'[key].samples = list
        PROVE  SamplesOn(ambient[key].samples, key)'
    <3>1. \A k \in 1 .. Cardinality(S) : Ascending(S)[k] \in 1 .. Len(accepted)
      BY <2>5, AscendingLists DEF Lists
    <3>2. \A k \in 1 .. Len(list) : IsSampleOf(list[k], accepted'[Ascending(S)[k]])
      BY <2>2, <2>5, <3>1 DEF Samples
    <3> QED
      BY <2>5, <3>2 DEF Samples, SamplesOn, IsSequence, Range
  <2>6. CASE key[1] # event.instrument
    <3>1. Sampled(key)' = Sampled(key)
      BY <2>1, <2>6, SampledAfter
    <3>2. Samples(ambient[key].samples, Sampled(key))
      BY DEF SamplesOK, SamplesOn, Samples
    <3>3. /\ Sampled(key) \subseteq 1 .. Len(accepted) /\ Sampled(key) \in SUBSET Nat
          /\ IsFiniteSet(Sampled(key))
      BY <2>1, SampledOf
    <3> QED
      BY <2>3, <2>5, <2>6, <3>1, <3>2, <3>3
  <2>7. CASE key[1] = event.instrument /\ ~(event.kind \in {"New", "Replace"} /\ event.side = key[2])
    <3>1. Sampled(key)' = T
      BY <2>1, <2>7, SampledAfter DEF T
    <3> QED
      BY <2>3, <2>4, <2>5, <2>7, <3>1
  <2>8. CASE key[1] = event.instrument /\ event.kind \in {"New", "Replace"} /\ event.side = key[2]
    <3>1. Sampled(key)' = T \cup {n}
      BY <2>0, <2>1, <2>8, SampledAfter DEF T
    <3>2. PICK x : IsSampleOf(x, event) /\ ambient'[key].samples = Append(trimmed, x)
      BY <2>3, <2>8
    <3>3. PICK list : list = Append(trimmed, x)
      OBVIOUS
    <3>4. n \in Nat /\ \A i \in T : i < n
      BY <2>0, <2>2, <2>4
    <3>5. IsSequence(trimmed) /\ Len(trimmed) = Cardinality(T)
      BY <2>4 DEF Samples
    <3>6. IsLonger(list, trimmed, T, n, x)
      BY <2>4, <3>3, <3>4, <3>5, LongerList
    <3>7. \A k \in 1 .. Len(trimmed) : Ascending(T)[k] \in 1 .. Len(accepted)
      BY <2>4, <3>5, AscendingLists DEF Lists
    <3>8. ASSUME NEW k \in 1 .. Len(list)
          PROVE  IsSampleOf(list[k], accepted'[Ascending(T \cup {n})[k]])
      <4>1. CASE k = Len(trimmed) + 1
        BY <2>2, <3>2, <3>6, <4>1 DEF IsLonger
      <4>2. CASE k # Len(trimmed) + 1
        <5>1. k \in 1 .. Len(trimmed)
          BY <3>6, <4>2 DEF IsLonger
        <5>2. accepted'[Ascending(T)[k]] = accepted[Ascending(T)[k]]
          BY <2>2, <3>7, <5>1
        <5>3. list[k] = trimmed[k] /\ Ascending(T \cup {n})[k] = Ascending(T)[k]
          BY <3>6, <5>1 DEF IsLonger
        <5> QED
          BY <2>4, <5>1, <5>2, <5>3 DEF Samples
      <4> QED
        BY <4>1, <4>2
    <3>9. ambient'[key].samples = list
      BY <3>2, <3>3
    <3> QED
      BY <3>1, <3>6, <3>8, <3>9 DEF SamplesOn, IsLonger, IsSequence, Range
  <2> QED
    BY <2>6, <2>7, <2>8
<1>3. ASSUME NEW event, Arrives(event), NEW book, NEW at, Evaluate(event, book, at)
      PROVE  SamplesOK'
  BY <1>2, <1>3 DEF SamplesOK
<1> QED
  BY <1>1, <1>3, NextSends
     DEF vars, processVars, detectorVars, Deliver, LoseOnTheRing, Process, Skip

-----------------------------------------------------------------------------
\* Related dealings

\* Two accounts that are not the same are related as the detectors see it when they are
\* kin, in either order.
LEMMA KinAreRelated ==
  ASSUME NEW a, NEW b
  PROVE  /\ Kin(a, b) <=> Kin(b, a)
         /\ Fronting!IsRelated(registry, a, b) <=> a = b \/ Kin(a, b)
         /\ Baseline!IsRelated(registry, a, b) <=> a = b \/ Kin(a, b)
         /\ Closing!IsRelated(registry, a, b) <=> a = b \/ Kin(a, b)
BY DEF Kin, Fronting!IsRelated, Fronting!SameBeneficialOwner, Fronting!AreLinked, Fronting!LinksTo,
       Baseline!IsRelated, Baseline!SameBeneficialOwner, Baseline!AreLinked, Baseline!LinksTo,
       Closing!IsRelated, Closing!SameBeneficialOwner, Closing!AreLinked, Closing!LinksTo

\* The k-th event front-runs the m-th.
FrontRuns(k, m) ==
  /\ m < k /\ accepted[m].kind = "New" /\ accepted[k].kind = "New"
  /\ <<accepted[m].instrument, accepted[m].side>> = <<accepted[k].instrument, accepted[k].side>>
  /\ accepted[m].account # accepted[k].account /\ Kin(accepted[m].account, accepted[k].account)
  /\ accepted[m].qty >= MinLarge /\ 100 * accepted[k].qty <= RatioPercent * accepted[m].qty
  /\ accepted[m].ts <= accepted[k].ts
  /\ \A h \in m + 1 .. k :
       /\ accepted[h].kind = "New"
       /\ <<accepted[h].instrument, accepted[h].side>> = <<accepted[m].instrument, accepted[m].side>>
       => Spoofing!Distance(accepted[h].ts, accepted[m].ts) <= Lookback

\* The pairs are those.
LEMMA PairsAre ==
  /\ FrontRunPairs = {p \in (DOMAIN accepted) \X (DOMAIN accepted) : FrontRuns(p[2], p[1])}
  /\ \A m, k \in DOMAIN accepted : <<m, k>> \in FrontRunPairs <=> FrontRuns(k, m)
  /\ \A p \in FrontRunPairs : p = <<p[1], p[2]>> /\ p[1] \in DOMAIN accepted /\ p[2] \in DOMAIN accepted
<1>1. FrontRunPairs = {p \in (DOMAIN accepted) \X (DOMAIN accepted) : FrontRuns(p[2], p[1])}
  BY DEF FrontRunPairs, FrontRuns
<1> QED
  BY <1>1

\* A New front-runs the orders the detector has it react to.
LEMMA LeadingFrontRuns ==
  ASSUME accepted \in Seq(Event), NEW event \in Event, accepted' = Append(accepted, event),
         registry' = registry, NEW m \in 1 .. Len(accepted), NEW n, n = Len(accepted) + 1
  PROVE  FrontRuns(n, m)' <=> event.kind = "New" /\ m \in Leading(event)
<1> DEFINE key == Fronting!SideOf(event)
<1>1. /\ Len(accepted) \in Nat /\ Len(accepted') = n
      /\ DOMAIN accepted = 1 .. Len(accepted)
      /\ \A h \in 1 .. Len(accepted) : accepted'[h] = accepted[h]
      /\ accepted'[n] = event
  BY AcceptedGrows
<1>2. /\ m < n /\ n \in m + 1 .. n
      /\ \A h \in m + 1 .. n : h = n \/ h \in m + 1 .. Len(accepted)
      /\ \A h \in m + 1 .. Len(accepted) : h \in m + 1 .. n /\ h \in 1 .. Len(accepted)
  BY <1>1
<1>3. accepted[m] \in Event
  BY ElementOfSeq
<1>4. event.ts \in Int /\ accepted[m].ts \in Int
  BY <1>3 DEF Event
<1> DEFINE
      side == <<accepted[m].instrument, accepted[m].side>>
      kin == /\ accepted[m].account # event.account /\ Kin(accepted[m].account, event.account)
             /\ accepted[m].qty >= MinLarge /\ 100 * event.qty <= RatioPercent * accepted[m].qty
             /\ accepted[m].ts <= event.ts
      near == \A h \in m + 1 .. Len(accepted) :
                Joins(h, key) => Spoofing!Distance(accepted[h].ts, accepted[m].ts) <= Lookback
      close1 == Spoofing!Distance(event.ts, accepted[m].ts) <= Lookback
<1>5. \A a, b : Kin(a, b)' <=> Kin(a, b)
  BY DEF Kin
<1>6. FrontRuns(n, m)' <=>
        /\ accepted'[m].kind = "New" /\ accepted'[n].kind = "New"
        /\ <<accepted'[m].instrument, accepted'[m].side>> = <<accepted'[n].instrument, accepted'[n].side>>
        /\ accepted'[m].account # accepted'[n].account /\ Kin(accepted'[m].account, accepted'[n].account)
        /\ accepted'[m].qty >= MinLarge /\ 100 * accepted'[n].qty <= RatioPercent * accepted'[m].qty
        /\ accepted'[m].ts <= accepted'[n].ts
        /\ \A h \in m + 1 .. n :
             /\ accepted'[h].kind = "New"
             /\ <<accepted'[h].instrument, accepted'[h].side>> = <<accepted'[m].instrument, accepted'[m].side>>
             => Spoofing!Distance(accepted'[h].ts, accepted'[m].ts) <= Lookback
  BY <1>2, <1>5 DEF FrontRuns
<1>7. FrontRuns(n, m)' <=>
        /\ accepted[m].kind = "New" /\ event.kind = "New" /\ side = key /\ kin
        /\ \A h \in m + 1 .. n :
             /\ accepted'[h].kind = "New"
             /\ <<accepted'[h].instrument, accepted'[h].side>> = side
             => Spoofing!Distance(accepted'[h].ts, accepted[m].ts) <= Lookback
  BY <1>1, <1>6 DEF Fronting!SideOf
<1>8. ASSUME side = key, event.kind = "New"
      PROVE  (\A h \in m + 1 .. n :
                /\ accepted'[h].kind = "New"
                /\ <<accepted'[h].instrument, accepted'[h].side>> = side
                => Spoofing!Distance(accepted'[h].ts, accepted[m].ts) <= Lookback)
             <=> near /\ close1
  <2>1. \A h \in m + 1 .. Len(accepted) : accepted'[h] = accepted[h]
    BY <1>1, <1>2
  <2>2. <<event.instrument, event.side>> = side
    BY <1>8 DEF Fronting!SideOf
  <2>3. near <=> \A h \in m + 1 .. Len(accepted) :
                   /\ accepted[h].kind = "New"
                   /\ <<accepted[h].instrument, accepted[h].side>> = side
                   => Spoofing!Distance(accepted[h].ts, accepted[m].ts) <= Lookback
    BY <1>8 DEF Joins
  <2> HIDE DEF near, side, key
  <2> QED
    BY <1>1, <1>2, <1>8, <2>1, <2>2, <2>3
<1>9. m \in Leading(event) <=>
        /\ accepted[m].kind = "New" /\ side = key /\ near /\ close1
        /\ Fronting!Reacts(registry, Prior(accepted[m]), event)
  BY <1>1 DEF Leading, Nearby, Remaining, Joins
<1>10. Fronting!Reacts(registry, Prior(accepted[m]), event) <=> kin
  <2>1. /\ Prior(accepted[m]).account = accepted[m].account /\ Prior(accepted[m]).qty = accepted[m].qty
        /\ Prior(accepted[m]).ts = accepted[m].ts
    BY DEF Prior
  <2>2. accepted[m].account # event.account =>
          (Fronting!IsRelated(registry, event.account, accepted[m].account)
             <=> Kin(accepted[m].account, event.account))
    BY KinAreRelated
  <2>3. event.ts >= accepted[m].ts <=> accepted[m].ts <= event.ts
    BY <1>4
  <2> QED
    BY <2>1, <2>2, <2>3 DEF Fronting!Reacts
<1> HIDE DEF near, side, kin, key, close1
<1> QED
  BY <1>7, <1>8, <1>9, <1>10

\* The pairs after an event: a New forms one with each order it reacts to.
LEMMA PairsAfter ==
  ASSUME accepted \in Seq(Event), NEW event \in Event, accepted' = Append(accepted, event),
         registry' = registry, NEW n, n = Len(accepted) + 1
  PROVE  FrontRunPairs' =
           FrontRunPairs \cup (IF event.kind = "New" THEN {<<m, n>> : m \in Leading(event)} ELSE {})
<1>1. /\ Len(accepted) \in Nat /\ Len(accepted') = n
      /\ DOMAIN accepted = 1 .. Len(accepted) /\ DOMAIN accepted' = 1 .. n
      /\ \A h \in 1 .. Len(accepted) : accepted'[h] = accepted[h]
  BY AcceptedGrows
<1>2. \A h \in 1 .. n : h = n \/ h \in 1 .. Len(accepted)
  BY <1>1
<1>3. n \notin 1 .. Len(accepted) /\ n \in 1 .. n /\ \A h \in 1 .. Len(accepted) : h \in 1 .. n
  BY <1>1
<1>4. Leading(event) \subseteq 1 .. Len(accepted)
  BY RemainingOf DEF Leading, Nearby
<1>5. \A a, b : Kin(a, b)' <=> Kin(a, b)
  BY DEF Kin
<1>6. ASSUME NEW m \in 1 .. Len(accepted), NEW k \in 1 .. Len(accepted)
      PROVE  FrontRuns(k, m)' <=> FrontRuns(k, m)
  <2>1. \A h \in m + 1 .. k : h \in 1 .. Len(accepted)
    BY <1>1
  <2>2. accepted'[m] = accepted[m] /\ accepted'[k] = accepted[k]
        /\ \A h \in m + 1 .. k : accepted'[h] = accepted[h]
    BY <1>1, <2>1
  <2> QED
    BY <1>5, <2>2 DEF FrontRuns
<1>7. \A k \in 1 .. n : ~FrontRuns(k, n)'
  <2>1. \A k \in 1 .. n : ~(n < k)
    BY <1>1
  <2> QED
    BY <2>1 DEF FrontRuns
<1>8. \A m \in 1 .. Len(accepted) : FrontRuns(n, m)' <=> event.kind = "New" /\ m \in Leading(event)
  BY LeadingFrontRuns
<1>9. FrontRunPairs' = {p \in (1 .. n) \X (1 .. n) : FrontRuns(p[2], p[1])'}
  <2>1. (FrontRunPairs = {p \in (DOMAIN accepted) \X (DOMAIN accepted) : FrontRuns(p[2], p[1])})'
    BY PairsAre, PTL
  <2> QED
    BY <1>1, <2>1
<1>10. FrontRunPairs = {p \in (1 .. Len(accepted)) \X (1 .. Len(accepted)) : FrontRuns(p[2], p[1])}
  BY <1>1, PairsAre
<1> DEFINE N == IF event.kind = "New" THEN {<<m, n>> : m \in Leading(event)} ELSE {}
<1>11. ASSUME NEW p \in FrontRunPairs' PROVE p \in FrontRunPairs \cup N
  <2>1. PICK m \in 1 .. n, k \in 1 .. n : p = <<m, k>> /\ FrontRuns(k, m)'
    BY <1>9
  <2>2. m \in 1 .. Len(accepted)
    BY <1>2, <1>7, <2>1
  <2>3. CASE k = n
    BY <1>8, <2>1, <2>2, <2>3
  <2>4. CASE k # n
    <3>1. k \in 1 .. Len(accepted) /\ FrontRuns(k, m)
      BY <1>2, <1>6, <2>1, <2>2, <2>4
    <3> QED
      BY <1>10, <2>1, <2>2, <3>1
  <2> QED
    BY <2>3, <2>4
<1>12. ASSUME NEW p \in FrontRunPairs \cup N PROVE p \in FrontRunPairs'
  <2>1. CASE p \in FrontRunPairs
    <3>1. PICK m \in 1 .. Len(accepted), k \in 1 .. Len(accepted) : p = <<m, k>> /\ FrontRuns(k, m)
      BY <1>10, <2>1
    <3> QED
      BY <1>3, <1>6, <1>9, <3>1
  <2>2. CASE p \in N
    <3>1. PICK m \in Leading(event) : p = <<m, n>> /\ event.kind = "New"
      BY <2>2
    <3>2. m \in 1 .. Len(accepted) /\ FrontRuns(n, m)'
      BY <1>4, <1>8, <3>1
    <3> QED
      BY <1>3, <1>9, <3>1, <3>2
  <2> QED
    BY <2>1, <2>2
<1> HIDE DEF N
<1>13. FrontRunPairs' = FrontRunPairs \cup N
  BY <1>11, <1>12
<1> QED
  BY <1>13 DEF N

\* A step keeps the front-running alerts those of the pairs.
LEMMA FrontRunningStep ==
  ASSUME FeedOK, ProcessedOK, RecentOK, FrontRunningIsExact,
         NEW event, Arrives(event), NEW book, NEW at, Evaluate(event, book, at), registry' = registry
  PROVE  FrontRunningIsExact'
<1>0. PICK n : n = Len(accepted) + 1
  OBVIOUS
<1> DEFINE f == Fronting!FrontAlerts(registry, event, at)
           found == Detected(alerts, "FrontRunning")
           found1 == Detected(alerts', "FrontRunning")
           pairs == FrontRunPairs
           N == IF event.kind = "New" THEN {<<m, n>> : m \in Leading(event)} ELSE {}
<1>1. event \in Event /\ accepted \in Seq(Event) /\ accepted' = Append(accepted, event)
  BY DEF Arrives, ProcessedOK, Evaluate
<1>2. /\ Len(accepted) \in Nat /\ DOMAIN accepted = 1 .. Len(accepted) /\ DOMAIN accepted' = 1 .. n
      /\ \A m \in 1 .. Len(accepted) : accepted'[m] = accepted[m]
      /\ accepted'[n] = event
  BY <1>0, <1>1, AcceptedGrows
<1>3. IsSequence(alerts) /\ IsSequence(alerts')
  BY <1>1, AlertsAfter DEF ProcessedOK
<1>4. DOMAIN alerts = 1 .. Len(alerts) /\ DOMAIN alerts' = 1 .. Len(alerts')
  BY <1>3, SequenceIs
<1>5. Of("FrontRunning") = found /\ Of("FrontRunning")' = found1
  BY <1>4 DEF Of, Detected
<1>6. Adds(alerts', alerts, "FrontRunning", f)
  BY <1>1, DetectedAfter
<1>7. FrontRunPairs' = pairs \cup N
  BY <1>0, <1>1, PairsAfter
<1>8. Leading(event) \subseteq 1 .. Len(accepted)
  BY <1>1, RemainingOf DEF Leading, Nearby
<1>9. /\ pairs \in SUBSET ((1 .. Len(accepted)) \X (1 .. Len(accepted))) /\ IsFiniteSet(pairs)
      /\ Cardinality(pairs) \in Nat
      /\ \A p \in pairs : p = <<p[1], p[2]>> /\ p[1] \in 1 .. Len(accepted) /\ p[2] \in 1 .. Len(accepted)
  <2>0. Len(accepted) \in Nat
    BY <1>2
  <2>1. IsFiniteSet(1 .. Len(accepted))
    BY <2>0, FS_Interval
  <2>2. IsFiniteSet((1 .. Len(accepted)) \X (1 .. Len(accepted)))
    BY <2>1, FS_Product
  <2>3. pairs \in SUBSET ((1 .. Len(accepted)) \X (1 .. Len(accepted)))
    BY <1>2 DEF FrontRunPairs
  <2>4. \A p \in pairs : p = <<p[1], p[2]>> /\ p[1] \in 1 .. Len(accepted) /\ p[2] \in 1 .. Len(accepted)
    BY <2>3
  <2> HIDE DEF pairs
  <2> QED
    BY <2>2, <2>3, <2>4, FS_Subset, FS_CardinalityType
<1>10. IsFiniteSet(N) /\ Cardinality(N) = Len(f) /\ Len(f) \in Nat
  <2>1. CASE event.kind = "New"
    <3> DEFINE S == Leading(event)
    <3>1. AlertsLead(f, S, event, at)
      BY <1>1, <2>1, FrontAlertsLead
    <3> HIDE DEF S, f
    <3>2. IsFiniteSet(S) /\ Cardinality(S) \in Nat /\ Len(f) = Cardinality(S)
      BY <3>1 DEF AlertsLead
    <3>3. N = {<<m, n>> : m \in S}
      BY <2>1 DEF S
    <3> HIDE DEF N
    <3> DEFINE map == [m \in S |-> <<m, n>>]
    <3>4. map \in Bijection(S, N)
      BY <3>3 DEF Bijection, Injection, IsInjective, Surjection
    <3> HIDE DEF map
    <3>5. IsFiniteSet(N) /\ Cardinality(N) = Cardinality(S)
      BY <3>2, <3>4, FS_Bijection, Zenon DEF ExistsBijection
    <3> QED
      BY <3>2, <3>5
  <2>2. CASE event.kind # "New"
    BY <2>2, NoAlert, FS_EmptySet DEF Fronting!FrontAlerts
  <2> QED
    BY <2>1, <2>2
<1>11. pairs \cap N = {}
  <2>1. \A p \in N : p[2] = n
    OBVIOUS
  <2>2. n \notin 1 .. Len(accepted)
    BY <1>0, <1>2
  <2> QED
    BY <1>9, <2>1, <2>2
<1>12. Cardinality(found) = Cardinality(pairs)
       /\ \A p \in pairs : \E k \in found : alerts[k].orders = {accepted[p[1]].id, accepted[p[2]].id}
  BY <1>5 DEF FrontRunningIsExact
<1> HIDE DEF N, pairs, found, found1, f
<1>13. Cardinality(pairs \cup N) = Cardinality(pairs) + Len(f)
  <2>1. Cardinality(pairs \cap N) = 0
    BY <1>11, FS_EmptySet
  <2>2. Cardinality(pairs \cup N) = Cardinality(pairs) + Cardinality(N) - Cardinality(pairs \cap N)
    BY <1>9, <1>10, FS_Union
  <2> QED
    BY <1>9, <1>10, <2>1, <2>2
<1>14. Cardinality(found1) = Cardinality(found) + Len(f)
  BY <1>6 DEF Adds, found, found1
<1>15. ASSUME NEW p \in pairs
       PROVE  \E h \in found1 : alerts'[h].orders = {accepted'[p[1]].id, accepted'[p[2]].id}
  <2>1. PICK k \in found : alerts[k].orders = {accepted[p[1]].id, accepted[p[2]].id}
    BY <1>12
  <2>2. PICK h \in found1 : alerts'[h] = alerts[k]
    BY <1>6 DEF Adds, found, found1
  <2>3. accepted'[p[1]] = accepted[p[1]] /\ accepted'[p[2]] = accepted[p[2]]
    BY <1>2, <1>9
  <2> QED
    BY <2>1, <2>2, <2>3
<1>16. ASSUME NEW p \in N
       PROVE  \E h \in found1 : alerts'[h].orders = {accepted'[p[1]].id, accepted'[p[2]].id}
  <2>1. PICK m \in Leading(event) : p = <<m, n>> /\ event.kind = "New"
    BY DEF N
  <2>2. AlertsLead(f, Leading(event), event, at)
    BY <1>1, <2>1, FrontAlertsLead DEF f
  <2>3. PICK k \in 1 .. Len(f) : Ascending(Leading(event))[k] = m
    BY <2>2, AscendingLists DEF AlertsLead, Lists
  <2>4. f[k] = Fronting!FrontAlert(Prior(accepted[m]), event, at)
    BY <2>2, <2>3 DEF AlertsLead
  <2>5. f[k].orders = {accepted[m].id, event.id}
    BY <2>4 DEF Fronting!FrontAlert, Prior
  <2>6. PICK h \in found1 : alerts'[h] = f[k]
    BY <1>6, <2>3 DEF Adds, found1
  <2>7. accepted'[p[1]] = accepted[m] /\ accepted'[p[2]] = event
    BY <1>2, <1>8, <2>1
  <2> QED
    BY <2>5, <2>6, <2>7
<1>17. Cardinality(found1) = Cardinality(FrontRunPairs')
       /\ \A p \in FrontRunPairs' : \E h \in found1 :
            alerts'[h].orders = {accepted'[p[1]].id, accepted'[p[2]].id}
  BY <1>7, <1>12, <1>13, <1>14, <1>15, <1>16
<1> QED
  BY <1>5, <1>17 DEF FrontRunningIsExact

\* The n-th event is an execution between related accounts, or an account and itself.
Deals(n) ==
  /\ accepted[n].kind = "Execution" /\ accepted[n].counterparty # NoAccount
  /\ \/ accepted[n].account = accepted[n].counterparty
     \/ Kin(accepted[n].account, accepted[n].counterparty)
Dealing == {n \in DOMAIN accepted : Deals(n)}

\* A step keeps the wash trades those of the dealings.
LEMMA WashTradesStep ==
  ASSUME FeedOK, ProcessedOK, RecentOK, WashTradesAreExact,
         NEW event, Arrives(event), NEW book, NEW at, Evaluate(event, book, at), registry' = registry
  PROVE  WashTradesAreExact'
<1>0. PICK n : n = Len(accepted) + 1
  OBVIOUS
<1> DEFINE w == Baseline!WashAlerts(registry, event, at)
           found == Detected(alerts, "WashTrade")
           found1 == Detected(alerts', "WashTrade")
           deals == /\ event.kind = "Execution" /\ event.counterparty # NoAccount
                    /\ event.account = event.counterparty \/ Kin(event.account, event.counterparty)
           N == IF deals THEN {n} ELSE {}
<1>1. event \in Event /\ accepted \in Seq(Event) /\ accepted' = Append(accepted, event)
  BY DEF Arrives, ProcessedOK, Evaluate
<1>2. /\ Len(accepted) \in Nat /\ DOMAIN accepted = 1 .. Len(accepted) /\ DOMAIN accepted' = 1 .. n
      /\ \A m \in 1 .. Len(accepted) : accepted'[m] = accepted[m]
      /\ accepted'[n] = event
  BY <1>0, <1>1, AcceptedGrows
<1>3. IsSequence(alerts) /\ IsSequence(alerts')
  BY <1>1, AlertsAfter DEF ProcessedOK
<1>4. DOMAIN alerts = 1 .. Len(alerts) /\ DOMAIN alerts' = 1 .. Len(alerts')
  BY <1>3, SequenceIs
<1>5. Of("WashTrade") = found /\ Of("WashTrade")' = found1
  BY <1>4 DEF Of, Detected
<1>6. Adds(alerts', alerts, "WashTrade", w)
  BY <1>1, DetectedAfter
<1>7. /\ deals => \E x : w = <<x>> /\ event.trade \in x.orders
      /\ ~deals => w = <<>>
  BY KinAreRelated DEF Baseline!WashAlerts
<1>8. /\ n \notin 1 .. Len(accepted)
      /\ \A m \in 1 .. n : m = n \/ m \in 1 .. Len(accepted)
      /\ n \in 1 .. n /\ \A m \in 1 .. Len(accepted) : m \in 1 .. n
  BY <1>0, <1>2
<1>9. Dealing' = Dealing \cup N
  <2>1. \A a, b : Kin(a, b)' <=> Kin(a, b)
    BY DEF Kin
  <2>2. \A m \in 1 .. Len(accepted) : Deals(m)' <=> Deals(m)
    BY <1>2, <2>1 DEF Deals
  <2>3. Deals(n)' <=> deals
    BY <1>2, <2>1 DEF Deals
  <2> HIDE DEF deals
  <2>6. Dealing' = {m \in DOMAIN accepted' : Deals(m)'} /\ Dealing = {m \in DOMAIN accepted : Deals(m)}
    BY DEF Dealing
  <2>7. DOMAIN accepted' = 1 .. n /\ DOMAIN accepted = 1 .. Len(accepted)
    BY <1>2
  <2>4. Dealing' = {m \in 1 .. n : Deals(m)'} /\ Dealing = {m \in 1 .. Len(accepted) : Deals(m)}
    BY <2>6, <2>7
  <2>5. ASSUME NEW m \in Dealing' PROVE m \in Dealing \cup N
    <3>1. m \in 1 .. n /\ Deals(m)'
      BY <2>4
    <3>2. CASE m = n
      BY <2>3, <3>1, <3>2
    <3>3. CASE m \in 1 .. Len(accepted)
      <4>1. Deals(m)
        BY <2>2, <3>1, <3>3
      <4> QED
        BY <2>4, <3>3, <4>1
    <3> QED
      BY <1>8, <3>1, <3>2, <3>3
  <2>8. ASSUME NEW m \in Dealing \cup N PROVE m \in Dealing'
    <3>1. m \in Dealing => m \in 1 .. n /\ Deals(m)'
      <4> SUFFICES ASSUME m \in Dealing PROVE m \in 1 .. n /\ Deals(m)'
        OBVIOUS
      <4>1. m \in 1 .. Len(accepted) /\ Deals(m)
        BY <2>4
      <4>2. Deals(m)'
        BY <2>2, <4>1
      <4> QED
        BY <1>8, <4>1, <4>2
    <3>2. m \in N => m \in 1 .. n /\ Deals(m)'
      BY <1>8, <2>3
    <3> QED
      BY <2>4, <3>1, <3>2
  <2> HIDE DEF N
  <2> QED
    BY <2>5, <2>8
<1>10. Dealing \subseteq 1 .. Len(accepted) /\ IsFiniteSet(Dealing) /\ Cardinality(Dealing) \in Nat
  <2>0. Len(accepted) \in Nat
    BY <1>2
  <2>1. IsFiniteSet(1 .. Len(accepted))
    BY <2>0, FS_Interval
  <2>2. Dealing \subseteq 1 .. Len(accepted)
    BY <1>2 DEF Dealing
  <2> QED
    BY <2>1, <2>2, FS_Subset, FS_CardinalityType
<1>11. Cardinality(Dealing') = Cardinality(Dealing) + Len(w)
  <2>1. CASE deals
    <3>1. Len(w) = 1
      BY <1>7, <2>1
    <3>2. Dealing' = Dealing \cup {n} /\ n \notin Dealing
      BY <1>8, <1>9, <1>10, <2>1
    <3>3. Cardinality(Dealing \cup {n}) = Cardinality(Dealing) + 1
      BY <1>10, <3>2, FS_AddElement
    <3> QED
      BY <3>1, <3>2, <3>3
  <2>2. CASE ~deals
    <3>1. Len(w) = 0
      BY <1>7, <2>2, NoAlert
    <3>2. Dealing' = Dealing
      BY <1>9, <2>2
    <3> QED
      BY <1>10, <3>1, <3>2
  <2> QED
    BY <2>1, <2>2
<1>12. Cardinality(found) = Cardinality(Dealing)
       /\ \A m \in Dealing : \E k \in found : accepted[m].trade \in alerts[k].orders
  BY <1>5 DEF WashTradesAreExact, Dealing, Deals
<1> HIDE DEF found, found1, w, deals
<1>13. Cardinality(found1) = Cardinality(Dealing')
  BY <1>6, <1>11, <1>12 DEF Adds, found, found1
<1>14. ASSUME NEW m \in Dealing PROVE \E h \in found1 : accepted'[m].trade \in alerts'[h].orders
  <2>1. PICK k \in found : accepted[m].trade \in alerts[k].orders
    BY <1>12
  <2>2. PICK h \in found1 : alerts'[h] = alerts[k]
    BY <1>6 DEF Adds, found, found1
  <2> QED
    BY <1>2, <1>10, <2>1, <2>2
<1>15. ASSUME NEW m \in N PROVE \E h \in found1 : accepted'[m].trade \in alerts'[h].orders
  <2>1. deals /\ m = n
    OBVIOUS
  <2>2. PICK x : w = <<x>> /\ event.trade \in x.orders
    BY <1>7, <2>1
  <2>3. 1 \in 1 .. Len(w) /\ w[1] = x
    BY <2>2
  <2>4. PICK h \in found1 : alerts'[h] = x
    BY <1>6, <2>3 DEF Adds, found1
  <2> QED
    BY <1>2, <2>1, <2>2, <2>4
<1>16. Cardinality(found1) = Cardinality(Dealing')
       /\ \A m \in Dealing' : \E h \in found1 : accepted'[m].trade \in alerts'[h].orders
  BY <1>9, <1>13, <1>14, <1>15
<1> QED
  BY <1>5, <1>16 DEF WashTradesAreExact, Dealing, Deals

-----------------------------------------------------------------------------
\* The groups of the close

\* A record of the detector's state.
LEMMA CloseFields ==
  ASSUME NEW s \in CloseStates
  PROVE  /\ s.total \in [Instruments -> Nat] /\ s.volume \in [Closing!AccountKeys -> Nat]
         /\ s.trades \in [Closing!AccountKeys -> Seq(Nat)] /\ s.alerted \subseteq Closing!AccountKeys
         /\ s.group \in [Accounts -> Accounts \cup {NoAccount}]
BY DEF CloseStates

\* Crediting a trade changes volumes, no group.
LEMMA CreditedState ==
  ASSUME close \in CloseStates, NEW event \in Event
  PROVE  /\ Closing!Credited(event) \in CloseStates
         /\ Closing!Credited(event).group = close.group
         /\ Closing!Credited(event).alerted = close.alerted
<1> DEFINE i == event.instrument
           total == [close.total EXCEPT ![i] = close.total[i] + event.qty]
           counted(k) == k[1] = i /\ k[2] \in Closing!Participants(event)
           volume == [k \in Closing!AccountKeys |->
                        IF counted(k) THEN close.volume[k] + event.qty ELSE close.volume[k]]
           trades == [k \in Closing!AccountKeys |->
                        IF counted(k) THEN Append(close.trades[k], event.trade) ELSE close.trades[k]]
<1>1. i \in Instruments /\ event.qty \in Nat /\ event.trade \in Nat
  BY DEF Event
<1>2. /\ close.total \in [Instruments -> Nat] /\ close.volume \in [Closing!AccountKeys -> Nat]
      /\ close.trades \in [Closing!AccountKeys -> Seq(Nat)]
  BY CloseFields
<1>3. total \in [Instruments -> Nat]
  BY <1>1, <1>2
<1>4. volume \in [Closing!AccountKeys -> Nat]
  BY <1>1, <1>2
<1>5. trades \in [Closing!AccountKeys -> Seq(Nat)]
  BY <1>1, <1>2
<1>6. Closing!Credited(event) = [close EXCEPT !.total = total, !.volume = volume, !.trades = trades]
  BY DEF Closing!Credited, CloseStates
<1> HIDE DEF total, volume, trades
<1> QED
  BY <1>3, <1>4, <1>5, <1>6 DEF CloseStates

\* An account that is seen has the root of its group.
LEMMA SeenHasRoot ==
  ASSUME NEW s \in CloseStates
  PROVE  Closing!Seen(s) \subseteq Accounts /\ \A a \in Closing!Seen(s) : s.group[a] \in Accounts
BY CloseFields DEF Closing!Seen

\* Accounts of one group stay in one group when an account is registered.
LEMMA GroupsMerge ==
  ASSUME NEW s \in CloseStates, NEW account \in Accounts
  PROVE  LET known == Closing!RegisterAndGroup(registry, s, account) IN
         /\ known \in CloseStates /\ known.alerted = s.alerted
         /\ Closing!Seen(s) \subseteq Closing!Seen(known) /\ account \in Closing!Seen(known)
         /\ \A x, y \in Closing!Seen(s) : s.group[x] = s.group[y] => known.group[x] = known.group[y]
<1> DEFINE known == Closing!RegisterAndGroup(registry, s, account)
           kin == {s.group[b] : b \in {c \in Closing!Seen(s) : Closing!IsRelated(registry, account, c)}}
           root == IF kin = {} THEN account ELSE CHOOSE r \in kin : TRUE
           group == [a \in Accounts |->
                       IF a = account \/ (s.group[a] # NoAccount /\ s.group[a] \in kin) THEN root
                       ELSE s.group[a]]
<1>1. CASE account \in Closing!Seen(s)
  BY <1>1 DEF Closing!RegisterAndGroup
<1>2. CASE account \notin Closing!Seen(s)
  <2>1. /\ s.group \in [Accounts -> Accounts \cup {NoAccount}]
        /\ Closing!Seen(s) \subseteq Accounts /\ \A a \in Closing!Seen(s) : s.group[a] \in Accounts
    BY CloseFields, SeenHasRoot
  <2>2. root \in Accounts /\ NoAccount \notin Accounts
    BY <2>1, DetectorAssumption DEF Closing!CloseConfigured
  <2>3. known = [s EXCEPT !.group = group]
    BY <1>2 DEF Closing!RegisterAndGroup
  <2> HIDE DEF kin, root
  <2>4. group \in [Accounts -> Accounts \cup {NoAccount}]
    BY <2>1, <2>2
  <2>5. \A x, y \in Closing!Seen(s) : s.group[x] = s.group[y] => group[x] = group[y]
    BY <1>2, <2>1
  <2>6. group[account] # NoAccount /\ \A x \in Closing!Seen(s) : group[x] # NoAccount
    BY <2>1, <2>2 DEF Closing!Seen
  <2> HIDE DEF group
  <2>7. known \in CloseStates /\ known.alerted = s.alerted /\ known.group = group
    BY <2>3, <2>4 DEF CloseStates
  <2> HIDE DEF known
  <2> QED
    BY <2>1, <2>5, <2>6, <2>7 DEF Closing!Seen, known
<1> QED
  BY <1>1, <1>2

\* Alerts of another detector make no difference.
LEMMA GroupsIgnore ==
  ASSUME NEW s, NEW list, IsSequence(list), GroupsOK(s, list),
         NEW other, NEW detector, From(other, detector), detector # "MarkingTheClose"
  PROVE  GroupsOK(s, list \o other)
<1> DEFINE all == list \o other
<1>1. /\ Len(list) \in Nat /\ Len(other) \in Nat /\ Len(all) = Len(list) + Len(other)
      /\ \A k \in 1 .. Len(list) : all[k] = list[k]
      /\ \A k \in Len(list) + 1 .. Len(list) + Len(other) : all[k] = other[k - Len(list)]
  BY SequenceIs, Concatenated DEF From
<1> HIDE DEF all
<1>2. \A k \in 1 .. Len(all) : IsClosing(all[k]) => k \in 1 .. Len(list) /\ all[k] = list[k]
  <2> SUFFICES ASSUME NEW k \in 1 .. Len(all), IsClosing(all[k]), k > Len(list) PROVE FALSE
    BY <1>1
  <2>1. k \in Len(list) + 1 .. Len(list) + Len(other) /\ k - Len(list) \in 1 .. Len(other)
    BY <1>1
  <2>2. all[k].detector = detector
    BY <1>1, <2>1 DEF From
  <2> QED
    BY <2>2 DEF IsClosing
<1> QED
  BY <1>2 DEF GroupsOK, all

\* Alerts stay those of whole groups when groups merge and more accounts are alerted.
LEMMA GroupsCarried ==
  ASSUME NEW s, NEW next, NEW list, GroupsOK(s, list),
         Closing!Seen(s) \subseteq Closing!Seen(next), s.alerted \subseteq next.alerted,
         \A x, y \in Closing!Seen(s) : s.group[x] = s.group[y] => next.group[x] = next.group[y]
  PROVE  GroupsOK(next, list)
<1>1. \A alert : Remembered(s, alert) => Remembered(next, alert)
  BY DEF Remembered
<1> QED
  BY <1>1 DEF GroupsOK

\* One more alert, of accounts no earlier alert of the instrument is about.
LEMMA GroupsAlerted ==
  ASSUME NEW s, NEW list, IsSequence(list), GroupsOK(s, list), NEW alert, Remembered(s, alert),
         \A k \in 1 .. Len(list) : IsClosing(list[k]) /\ list[k].instrument = alert.instrument
           => list[k].accounts \cap alert.accounts = {}
  PROVE  GroupsOK(s, list \o <<alert>>)
<1> DEFINE all == list \o <<alert>>
           n == Len(list) + 1
<1>1. /\ Len(list) \in Nat /\ Len(all) = n
      /\ \A k \in 1 .. Len(list) : all[k] = list[k]
      /\ all[n] = alert
  <2>1. IsSequence(<<alert>>) /\ Len(<<alert>>) = 1 /\ <<alert>>[1] = alert /\ Len(list) \in Nat
    BY OneAlert, SequenceIs
  <2>2. /\ Len(all) = Len(list) + 1 /\ \A k \in 1 .. Len(list) : all[k] = list[k]
        /\ \A k \in Len(list) + 1 .. Len(list) + 1 : all[k] = <<alert>>[k - Len(list)]
    BY <2>1, Concatenated
  <2> HIDE DEF all
  <2>3. all[n] = <<alert>>[n - Len(list)] /\ n - Len(list) = 1
    BY <2>1, <2>2
  <2> QED
    BY <2>1, <2>2, <2>3
<1> HIDE DEF all
<1>2. \A k \in 1 .. n : k = n \/ k \in 1 .. Len(list)
  BY <1>1
<1> HIDE DEF n
<1>3. \A k \in 1 .. n : IsClosing(all[k]) => Remembered(s, all[k])
  BY <1>1, <1>2 DEF GroupsOK
<1>4. ASSUME NEW l \in 1 .. n, NEW m \in 1 .. n, IsClosing(all[l]), IsClosing(all[m]), l # m,
             all[l].instrument = all[m].instrument
      PROVE  all[l].accounts \cap all[m].accounts = {}
  <2>1. CASE l \in 1 .. Len(list) /\ m \in 1 .. Len(list)
    BY <1>1, <1>4, <2>1 DEF GroupsOK
  <2>2. CASE l = n /\ m \in 1 .. Len(list)
    BY <1>1, <1>4, <2>2
  <2>3. CASE m = n /\ l \in 1 .. Len(list)
    BY <1>1, <1>4, <2>3
  <2> QED
    BY <1>2, <1>4, <2>1, <2>2, <2>3
<1> QED
  BY <1>1, <1>3, <1>4 DEF GroupsOK, all

\* check_account alerts a group only when none of its accounts is in an earlier alert.
LEMMA CheckKeepsGroups ==
  ASSUME NEW s \in CloseStates, NEW account \in Accounts, NEW event \in Event, NEW at,
         NEW list, IsSequence(list), GroupsOK(s, list)
  PROVE  LET checked == Closing!CheckAccount(registry, s, account, event, at) IN
         /\ checked.state \in CloseStates /\ IsSequence(checked.alerts)
         /\ IsSequence(list \o checked.alerts) /\ GroupsOK(checked.state, list \o checked.alerts)
<1> DEFINE i == event.instrument
           known == Closing!RegisterAndGroup(registry, s, account)
           members == Closing!GroupMembers(known, account)
           fires == /\ ~Closing!GroupAlerted(known, i, account)
                    /\ Closing!Dominates(Closing!GroupVolume(known, i, account), known.total[i])
           checked == Closing!CheckAccount(registry, s, account, event, at)
           alert == Closing!CloseAlert(known, members, event, at)
           marked == [known EXCEPT !.alerted = known.alerted \cup {<<i, account>>}]
<1>1. /\ known \in CloseStates /\ known.alerted = s.alerted
      /\ Closing!Seen(s) \subseteq Closing!Seen(known) /\ account \in Closing!Seen(known)
      /\ \A x, y \in Closing!Seen(s) : s.group[x] = s.group[y] => known.group[x] = known.group[y]
  BY GroupsMerge
<1>2. i \in Instruments
  BY DEF Event
<1>3. /\ checked.state = IF fires THEN marked ELSE known
      /\ checked.alerts = IF fires THEN <<alert>> ELSE <<>>
  <2>1. checked.state = IF fires THEN marked ELSE known
    BY DEF Closing!CheckAccount
  <2>2. checked.alerts = IF fires THEN <<alert>> ELSE <<>>
    BY DEF Closing!CheckAccount
  <2> QED
    BY <2>1, <2>2
<1>4. /\ members \subseteq Closing!Seen(known) /\ account \in members
      /\ \A x \in members : known.group[x] = known.group[account]
      /\ \A x \in Closing!Seen(known) : known.group[x] = known.group[account] => x \in members
      /\ fires => \A m \in members : <<i, m>> \notin known.alerted
  BY <1>1 DEF Closing!GroupMembers, Closing!GroupAlerted
<1>5. /\ alert.instrument = i /\ alert.accounts = members
  BY DEF Closing!CloseAlert
<1>6. IsSequence(<<>>) /\ IsSequence(<<alert>>) /\ Len(<<>>) = 0 /\ From(<<>>, "None")
  BY NoAlert, OneAlert, AtMostOne
<1> HIDE DEF known, members, fires, checked, alert
<1>7. GroupsOK(known, list)
  BY <1>1, GroupsCarried
<1>8. CASE ~fires
  <2>1. GroupsOK(known, list \o <<>>)
    BY <1>6, <1>7, GroupsIgnore
  <2> QED
    BY <1>1, <1>3, <1>6, <1>8, <2>1, Concatenated DEF checked
<1>9. CASE fires
  <2>1. /\ marked \in CloseStates /\ marked.group = known.group
        /\ marked.alerted = known.alerted \cup {<<i, account>>}
        /\ Closing!Seen(marked) = Closing!Seen(known)
    <3>1. <<i, account>> \in Closing!AccountKeys
      BY <1>2 DEF Closing!AccountKeys
    <3> QED
      BY <1>1, <3>1 DEF CloseStates, Closing!Seen
  <2> HIDE DEF marked
  <2>2. GroupsOK(marked, list)
    BY <1>7, <2>1, GroupsCarried
  <2>3. Remembered(marked, alert)
    BY <1>2, <1>4, <1>5, <2>1 DEF Remembered
  <2>4. ASSUME NEW k \in 1 .. Len(list), IsClosing(list[k]), list[k].instrument = i,
               NEW x \in list[k].accounts, x \in members
        PROVE  FALSE
    <3>1. Remembered(known, list[k])
      BY <1>7, <2>4 DEF GroupsOK
    <3>2. PICK y \in list[k].accounts : <<i, y>> \in known.alerted
      BY <2>4, <3>1 DEF Remembered
    <3>3. y \in Closing!Seen(known) /\ known.group[y] = known.group[x]
      BY <2>4, <3>1 DEF Remembered
    <3>4. y \in members
      <4>1. known.group[x] = known.group[account]
        BY <1>4, <2>4
      <4> QED
        BY <1>4, <3>3, <4>1
    <3> QED
      BY <1>4, <1>9, <3>2, <3>4
  <2>5. GroupsOK(marked, list \o <<alert>>)
    BY <1>5, <2>2, <2>3, <2>4, GroupsAlerted
  <2> QED
    BY <1>3, <1>6, <1>9, <2>1, <2>5, Concatenated DEF checked
<1> QED
  BY <1>8, <1>9

\* The order in which lists are put together makes no difference.
LEMMA ConcatenatedTwice ==
  ASSUME NEW s, NEW t, NEW u, IsSequence(s), IsSequence(t), IsSequence(u)
  PROVE  (s \o t) \o u = s \o (t \o u)
<1> DEFINE S == Range(s) \cup Range(t) \cup Range(u)
<1>1. /\ s \in Seq(Range(s)) /\ t \in Seq(Range(t)) /\ u \in Seq(Range(u))
      /\ Range(s) \subseteq S /\ Range(t) \subseteq S /\ Range(u) \subseteq S
  BY DEF IsSequence
<1> HIDE DEF S
<1>2. \A X, l : X \subseteq S /\ l \in Seq(X) => l \in Seq(S)
  OBVIOUS
<1>3. s \in Seq(S) /\ t \in Seq(S) /\ u \in Seq(S)
  BY <1>1, <1>2
<1> QED
  BY <1>3, ConcatAssociative

\* handle_execution checks the account, then its counterparty, against what the first
\* check has left.
LEMMA TradeKeepsGroups ==
  ASSUME close \in CloseStates, NEW event \in Event, NEW at,
         NEW list, IsSequence(list), GroupsOK(close, list)
  PROVE  LET traded == Closing!HandleTrade(registry, event, at) IN
         /\ traded.state \in CloseStates
         /\ IsSequence(list \o traded.alerts) /\ GroupsOK(traded.state, list \o traded.alerts)
<1> DEFINE credited == Closing!Credited(event)
           first == Closing!CheckAccount(registry, credited, event.account, event, at)
           second == Closing!CheckAccount(registry, first.state, event.counterparty, event, at)
           traded == Closing!HandleTrade(registry, event, at)
<1>1. event.account \in Accounts /\ event.counterparty \in Accounts \cup {NoAccount}
  BY DEF Event
<1>2. credited \in CloseStates /\ GroupsOK(credited, list)
  <2>1. /\ credited \in CloseStates /\ credited.group = close.group
        /\ credited.alerted = close.alerted
    BY CreditedState
  <2>2. Closing!Seen(credited) = Closing!Seen(close)
    BY <2>1 DEF Closing!Seen
  <2> HIDE DEF credited
  <2> QED
    BY <2>1, <2>2, GroupsCarried
<1> HIDE DEF credited
<1>3. /\ first.state \in CloseStates /\ IsSequence(first.alerts)
      /\ IsSequence(list \o first.alerts) /\ GroupsOK(first.state, list \o first.alerts)
  BY <1>1, <1>2, CheckKeepsGroups
<1>4. traded = IF event.counterparty \in {NoAccount, event.account} THEN first
               ELSE [state |-> second.state, alerts |-> first.alerts \o second.alerts]
  BY DEF Closing!HandleTrade, credited
<1>5. CASE event.counterparty \in {NoAccount, event.account}
  BY <1>3, <1>4, <1>5
<1>6. CASE event.counterparty \notin {NoAccount, event.account}
  <2> DEFINE next == first.state
             sofar == list \o first.alerts
             checked == Closing!CheckAccount(registry, next, event.counterparty, event, at)
  <2>1. event.counterparty \in Accounts
    BY <1>1, <1>6
  <2>2. next \in CloseStates /\ IsSequence(sofar) /\ GroupsOK(next, sofar)
    BY <1>3
  <2> HIDE DEF first, next, sofar
  <2>3. /\ checked.state \in CloseStates /\ IsSequence(checked.alerts)
        /\ IsSequence(sofar \o checked.alerts) /\ GroupsOK(checked.state, sofar \o checked.alerts)
    BY <2>1, <2>2, CheckKeepsGroups
  <2>4. checked = second
    BY DEF next
  <2> HIDE DEF second, checked
  <2>5. sofar \o second.alerts = list \o (first.alerts \o second.alerts)
    <3> DEFINE a1 == first.alerts
               a2 == second.alerts
    <3>1. IsSequence(list) /\ IsSequence(a1) /\ IsSequence(a2)
      BY <1>3, <2>3, <2>4
    <3> HIDE DEF a1, a2
    <3>2. (list \o a1) \o a2 = list \o (a1 \o a2)
      BY <3>1, ConcatenatedTwice
    <3> QED
      BY <3>2 DEF sofar, a1, a2
  <2> HIDE DEF traded
  <2>6. traded.state = second.state /\ traded.alerts = first.alerts \o second.alerts
    BY <1>4, <1>6
  <2> QED
    BY <2>3, <2>4, <2>5, <2>6 DEF traded
<1> QED
  BY <1>5, <1>6

\* A step keeps the alerts of whole groups apart.
LEMMA ClosingStep == FeedOK /\ ProcessedOK /\ RecentOK /\ ClosingOK /\ [Next]_vars => ClosingOK'
<1> SUFFICES ASSUME FeedOK, ProcessedOK, RecentOK, ClosingOK, [Next]_vars PROVE ClosingOK'
  OBVIOUS
<1>1. CASE UNCHANGED <<close, alerts>>
  BY <1>1 DEF ClosingOK, GroupsOK, Remembered, Closing!Seen
<1>2. ASSUME NEW event, Arrives(event), NEW book, NEW at, Evaluate(event, book, at)
      PROVE  ClosingOK'
  <2> DEFINE w == Baseline!WashAlerts(registry, event, at)
             s == Spoofing!SpoofAlerts(book, event, at)
             c == Closing!CloseAlerts(registry, event, at)
             f == Fronting!FrontAlerts(registry, event, at)
             b == Baseline!StatAlerts(event, at)
             traded == Closing!HandleTrade(registry, event, at)
  <2>1. /\ From(w, "WashTrade") /\ From(s, "SpoofingLayering") /\ From(c, "MarkingTheClose")
        /\ From(f, "FrontRunning") /\ From(b, "StatisticalBaseline")
    BY <1>2, DetectorLists DEF Arrives, ProcessedOK
  <2>2. event \in Event /\ close \in CloseStates /\ IsSequence(alerts) /\ GroupsOK(close, alerts)
    BY <1>2 DEF Arrives, ClosingOK, ProcessedOK
  <2>3. alerts' = alerts \o w \o s \o c \o f \o b
    BY <1>2 DEF Evaluate
  <2>4. IF Closing!Relevant(event) THEN c = traded.alerts /\ close' = traded.state
        ELSE c = <<>> /\ close' = close
    BY <1>2 DEF Evaluate, Closing!EvaluateClose, Closing!CloseAlerts
  <2> HIDE DEF w, s, c, f, b
  <2>5. IsSequence(alerts \o w) /\ GroupsOK(close, alerts \o w)
    BY <2>1, <2>2, Concatenated, GroupsIgnore DEF From
  <2>6. IsSequence(alerts \o w \o s) /\ GroupsOK(close, alerts \o w \o s)
    BY <2>1, <2>5, Concatenated, GroupsIgnore DEF From
  <2>7. close' \in CloseStates /\ IsSequence(alerts \o w \o s \o c) /\ GroupsOK(close', alerts \o w \o s \o c)
    <3> DEFINE list == alerts \o w \o s
    <3>1. IsSequence(list) /\ GroupsOK(close, list)
      BY <2>6
    <3> HIDE DEF list
    <3>2. CASE Closing!Relevant(event)
      <4>1. /\ traded.state \in CloseStates
            /\ IsSequence(list \o traded.alerts) /\ GroupsOK(traded.state, list \o traded.alerts)
        BY <2>2, <3>1, TradeKeepsGroups
      <4> HIDE DEF traded
      <4> QED
        BY <2>4, <3>2, <4>1 DEF list
    <3>3. CASE ~Closing!Relevant(event)
      <4>1. c = <<>> /\ close' = close /\ From(<<>>, "None")
        BY <2>4, <3>3, AtMostOne
      <4>2. IsSequence(list \o <<>>) /\ GroupsOK(close, list \o <<>>)
        BY <3>1, <4>1, Concatenated, GroupsIgnore DEF From
      <4> QED
        BY <2>2, <4>1, <4>2 DEF list
    <3> QED
      BY <3>2, <3>3
  <2>8. IsSequence(alerts \o w \o s \o c \o f) /\ GroupsOK(close', alerts \o w \o s \o c \o f)
    BY <2>1, <2>7, Concatenated, GroupsIgnore DEF From
  <2>9. GroupsOK(close', alerts \o w \o s \o c \o f \o b)
    BY <2>1, <2>8, GroupsIgnore
  <2>10. close' \in CloseStates /\ GroupsOK(close', alerts')
    BY <2>3, <2>7, <2>9
  <2> QED
    BY <2>10 DEF ClosingOK, GroupsOK, Remembered, Closing!Seen
<1> QED
  BY <1>1, <1>2, NextSends
     DEF vars, processVars, detectorVars, Deliver, LoseOnTheRing, Process, Skip

-----------------------------------------------------------------------------
\* The history of the close

\* The groups are the connected components of the relation on the accounts seen.
ComponentsIn(s) ==
  /\ \A x \in Closing!Seen(s) : s.group[x] \in Closing!Seen(s)
  /\ \A x, y \in Closing!Seen(s) : Kin(x, y) => s.group[x] = s.group[y]
  /\ \A x \in Closing!Seen(s) : \A part \in SUBSET Closing!GroupMembers(s, x) :
       part \notin {{}, Closing!GroupMembers(s, x)} =>
         \E y \in part, z \in Closing!GroupMembers(s, x) \ part : Kin(y, z)

\* The roots of the groups a new account is related to, and the group it joins them in.
KinRoots(s, account) == {s.group[b] : b \in {c \in Closing!Seen(s) : Kin(account, c)}}
Merged(s, account) == {account} \cup {x \in Closing!Seen(s) : s.group[x] \in KinRoots(s, account)}

\* A group that joins a new account with groups each of which it is related to is connected.
LEMMA MergedIsConnected ==
  ASSUME NEW s \in CloseStates, ComponentsIn(s), NEW account \in Accounts,
         account \notin Closing!Seen(s),
         NEW part \in SUBSET Merged(s, account), part # {}, part # Merged(s, account)
  PROVE  \E y \in part, z \in Merged(s, account) \ part : Kin(y, z)
<1> DEFINE kin == KinRoots(s, account)
           M == Merged(s, account)
<1>0. M = {account} \cup {x \in Closing!Seen(s) : s.group[x] \in kin}
      /\ kin = {s.group[b] : b \in {c \in Closing!Seen(s) : Kin(account, c)}}
  BY DEF Merged, KinRoots
<1>3. part \in SUBSET M /\ part # {} /\ part # M
  OBVIOUS
<1> SUFFICES \E y \in part, z \in M \ part : Kin(y, z)
  OBVIOUS
<1> HIDE DEF kin, M
<1>1. CASE \E x \in M \ {account} : /\ part \cap Closing!GroupMembers(s, x) # {}
                                     /\ ~(Closing!GroupMembers(s, x) \subseteq part)
  <2>1. PICK x \in M \ {account} : /\ part \cap Closing!GroupMembers(s, x) # {}
                                   /\ ~(Closing!GroupMembers(s, x) \subseteq part)
    BY <1>1
  <2> DEFINE G == Closing!GroupMembers(s, x)
  <2>2. x \in Closing!Seen(s) /\ s.group[x] \in kin
    BY <1>0, <2>1
  <2>3. G \subseteq M
    BY <1>0, <2>2 DEF Closing!GroupMembers
  <2>4. part \cap G \in SUBSET G /\ part \cap G \notin {{}, G}
    BY <2>1
  <2>5. PICK y \in part \cap G, z \in G \ (part \cap G) : Kin(y, z)
    BY <2>2, <2>4 DEF ComponentsIn
  <2> QED
    BY <2>3, <2>5
<1>2. CASE ~\E x \in M \ {account} : /\ part \cap Closing!GroupMembers(s, x) # {}
                                      /\ ~(Closing!GroupMembers(s, x) \subseteq part)
  <2>1. ASSUME NEW x \in M, x # account
        PROVE  \E b \in M \ {account} : Kin(account, b) /\ (b \in part <=> x \in part)
    <3>1. x \in Closing!Seen(s) /\ s.group[x] \in kin
      BY <1>0, <2>1
    <3>2. PICK b \in Closing!Seen(s) : Kin(account, b) /\ s.group[b] = s.group[x]
      BY <1>0, <3>1
    <3>3. b \in M \ {account} /\ b \in Closing!GroupMembers(s, x) /\ x \in Closing!GroupMembers(s, x)
      BY <1>0, <3>1, <3>2 DEF Closing!GroupMembers
    <3>4. part \cap Closing!GroupMembers(s, x) = {} \/ Closing!GroupMembers(s, x) \subseteq part
      BY <1>2, <2>1
    <3>5. b \in part <=> x \in part
      BY <3>3, <3>4
    <3> QED
      BY <3>2, <3>3, <3>5
  <2>2. CASE account \in part
    <3>1. PICK x \in M : x \notin part
      BY <1>3
    <3>2. PICK b \in M \ {account} : Kin(account, b) /\ (b \in part <=> x \in part)
      BY <2>1, <2>2, <3>1
    <3> QED
      BY <2>2, <3>1, <3>2
  <2>3. CASE account \notin part
    <3>1. PICK x \in M : x \in part
      BY <1>3
    <3>2. PICK b \in M \ {account} : Kin(account, b) /\ (b \in part <=> x \in part)
      BY <2>1, <2>3, <3>1
    <3>3. Kin(b, account)
      BY <3>2, KinAreRelated
    <3>4. account \in M
      BY <1>0
    <3> QED
      BY <2>3, <3>1, <3>2, <3>3, <3>4
  <2> QED
    BY <2>2, <2>3
<1> QED
  BY <1>1, <1>2

\* What registering an account keeps of the rest, and what it makes of the groups.
Registers(s, next, accounts) ==
  /\ next \in CloseStates /\ next.total = s.total /\ next.volume = s.volume
  /\ Closing!Seen(next) = Closing!Seen(s) \cup accounts
  /\ ComponentsIn(next)

\* register_and_group() keeps the groups the components.
LEMMA RegisterKeepsComponents ==
  ASSUME NEW s \in CloseStates, ComponentsIn(s), NEW account \in Accounts
  PROVE  Registers(s, Closing!RegisterAndGroup(registry, s, account), {account})
<1> DEFINE known == Closing!RegisterAndGroup(registry, s, account)
           related == {c \in Closing!Seen(s) : Closing!IsRelated(registry, account, c)}
           kin == {s.group[b] : b \in related}
           root == IF kin = {} THEN account ELSE CHOOSE r \in kin : TRUE
           group == [a \in Accounts |->
                       IF a = account \/ (s.group[a] # NoAccount /\ s.group[a] \in kin) THEN root
                       ELSE s.group[a]]
           M == {account} \cup {x \in Closing!Seen(s) : s.group[x] \in kin}
<1>1. CASE account \in Closing!Seen(s)
  BY <1>1 DEF Closing!RegisterAndGroup, Registers
<1>2. CASE account \notin Closing!Seen(s)
  <2>1. /\ s.group \in [Accounts -> Accounts \cup {NoAccount}]
        /\ Closing!Seen(s) \subseteq Accounts /\ \A a \in Closing!Seen(s) : s.group[a] \in Accounts
        /\ NoAccount \notin Accounts
        /\ \A x \in Accounts : x \notin Closing!Seen(s) => s.group[x] = NoAccount
    BY CloseFields, SeenHasRoot, DetectorAssumption DEF Closing!CloseConfigured, Closing!Seen
  <2>2. related = {c \in Closing!Seen(s) : Kin(account, c)}
    BY <1>2, KinAreRelated
  <2>3. kin \subseteq Closing!Seen(s) /\ kin \subseteq Accounts
    BY <2>1 DEF ComponentsIn
  <2>4. kin = {s.group[b] : b \in {c \in Closing!Seen(s) : Kin(account, c)}}
    BY <2>2
  <2>5. known = [s EXCEPT !.group = group]
    BY <1>2 DEF Closing!RegisterAndGroup
  <2>6. (kin = {} => root = account) /\ (kin # {} => root \in kin)
    OBVIOUS
  <2> HIDE DEF root, related
  <2>7. \A x \in Accounts :
          group[x] = IF x \in M THEN root ELSE s.group[x]
    BY <2>1
  <2>8. group \in [Accounts -> Accounts \cup {NoAccount}]
    BY <2>1, <2>3, <2>6
  <2> HIDE DEF group
  <2>9. /\ known \in CloseStates /\ known.group = group
        /\ known.total = s.total /\ known.volume = s.volume
    BY <2>5, <2>8 DEF CloseStates
  <2> HIDE DEF known, kin
  <2>10. M \subseteq Accounts /\ account \in M /\ M \subseteq Closing!Seen(s) \cup {account}
    BY <2>1
  <2>11. root \in Accounts /\ root \in Closing!Seen(s) \cup {account}
    BY <2>3, <2>6
  <2>12. \A x \in Closing!Seen(s) : x \notin M => s.group[x] # root
    <3> SUFFICES ASSUME NEW x \in Closing!Seen(s), x \notin M, s.group[x] = root PROVE FALSE
      OBVIOUS
    <3>1. s.group[x] \notin kin
      OBVIOUS
    <3>2. root = account
      BY <2>6, <3>1
    <3>3. s.group[x] \in Closing!Seen(s)
      BY DEF ComponentsIn
    <3> QED
      BY <1>2, <3>2, <3>3
  <2>13. \A x \in Closing!Seen(s) \cup {account} : group[x] \in Closing!Seen(s) \cup {account}
    BY <2>1, <2>7, <2>11 DEF ComponentsIn
  <2>14. Closing!Seen(known) = Closing!Seen(s) \cup {account}
    <3>1. \A x \in Accounts : x \notin Closing!Seen(s) \cup {account} => group[x] = NoAccount
      BY <2>1, <2>7, <2>10
    <3>2. \A x \in Closing!Seen(s) \cup {account} : x \in Accounts /\ group[x] # NoAccount
      BY <2>1, <2>11, <2>13
    <3> QED
      BY <2>9, <3>1, <3>2 DEF Closing!Seen
  <2>15. \A x, y \in Closing!Seen(s) \cup {account} : Kin(x, y) => group[x] = group[y]
    <3> SUFFICES ASSUME NEW x \in Closing!Seen(s) \cup {account},
                        NEW y \in Closing!Seen(s) \cup {account}, Kin(x, y)
                 PROVE  group[x] = group[y]
      OBVIOUS
    <3>1. CASE x \in Closing!Seen(s) /\ y \in Closing!Seen(s)
      <4>1. s.group[x] = s.group[y]
        BY <3>1 DEF ComponentsIn
      <4>2. x \in M <=> y \in M
        BY <1>2, <3>1, <4>1
      <4> HIDE DEF M
      <4> QED
        BY <2>1, <2>7, <3>1, <4>1, <4>2
    <3>2. CASE x = account /\ y \in Closing!Seen(s)
      <4>1. y \in M
        BY <2>4, <3>2
      <4> HIDE DEF M
      <4> QED
        BY <2>1, <2>7, <2>10, <3>2, <4>1
    <3>3. CASE y = account /\ x \in Closing!Seen(s)
      <4>1. Kin(account, x)
        BY <3>3, KinAreRelated
      <4>2. x \in M
        BY <2>4, <3>3, <4>1
      <4> HIDE DEF M
      <4> QED
        BY <2>1, <2>7, <2>10, <3>3, <4>2
    <3> QED
      BY <3>1, <3>2, <3>3
  <2>16. ASSUME NEW x \in Closing!Seen(s) \cup {account}
         PROVE  Closing!GroupMembers(known, x) = IF x \in M THEN M ELSE Closing!GroupMembers(s, x)
    <3>1. Closing!GroupMembers(known, x) = {y \in Closing!Seen(s) \cup {account} : group[y] = group[x]}
      BY <2>9, <2>14 DEF Closing!GroupMembers
    <3>2. CASE x \in M
      <4>1. group[x] = root /\ \A y \in Closing!Seen(s) \cup {account} : group[y] = root <=> y \in M
        <5> HIDE DEF M
        <5>1. \A y \in Closing!Seen(s) \cup {account} : y \in Accounts
          BY <2>1
        <5>2. \A y \in Closing!Seen(s) \cup {account} : y \notin M => y \in Closing!Seen(s)
          BY <2>10
        <5> QED
          BY <2>7, <2>12, <3>2, <5>1, <5>2
      <4> HIDE DEF M
      <4> QED
        BY <2>10, <3>1, <3>2, <4>1
    <3>3. CASE x \notin M
      <4>1. x \in Closing!Seen(s) /\ group[x] = s.group[x]
        BY <2>1, <2>7, <2>10, <3>3
      <4>2. ASSUME NEW y \in Closing!Seen(s) \cup {account}
            PROVE  group[y] = group[x] <=> y \in Closing!Seen(s) /\ s.group[y] = s.group[x]
        <5>1. CASE y \in M
          <6>1. group[y] = root
            BY <2>7, <2>10, <5>1
          <6>2. group[y] # group[x]
            BY <2>12, <3>3, <4>1, <6>1
          <6>3. ~(y \in Closing!Seen(s) /\ s.group[y] = s.group[x])
            BY <1>2, <3>3, <4>1, <5>1
          <6> QED
            BY <6>2, <6>3
        <5>2. CASE y \notin M
          <6>1. y \in Closing!Seen(s) /\ y \in Accounts
            BY <2>1, <5>2
          <6> HIDE DEF M
          <6> QED
            BY <2>7, <4>1, <5>2, <6>1
        <5> QED
          BY <5>1, <5>2
      <4>3. Closing!GroupMembers(s, x) = {y \in Closing!Seen(s) : s.group[y] = s.group[x]}
        BY DEF Closing!GroupMembers
      <4> HIDE DEF M
      <4> QED
        BY <3>1, <3>3, <4>2, <4>3
    <3> QED
      BY <3>2, <3>3
  <2>17. ASSUME NEW x \in Closing!Seen(s) \cup {account},
                NEW part \in SUBSET Closing!GroupMembers(known, x),
                part \notin {{}, Closing!GroupMembers(known, x)}
         PROVE  \E y \in part, z \in Closing!GroupMembers(known, x) \ part : Kin(y, z)
    <3>1. CASE x \in M
      <4>1. Closing!GroupMembers(known, x) = M
        BY <2>16, <3>1
      <4>2. M = Merged(s, account)
        BY <2>4 DEF Merged, KinRoots
      <4> HIDE DEF M
      <4>3. part \in SUBSET M /\ part # {} /\ part # M
        BY <2>17, <4>1
      <4>4. \E y \in part, z \in M \ part : Kin(y, z)
        BY <1>2, <4>2, <4>3, MergedIsConnected
      <4> QED
        BY <4>1, <4>4
    <3>2. CASE x \notin M
      <4>1. Closing!GroupMembers(known, x) = Closing!GroupMembers(s, x) /\ x \in Closing!Seen(s)
        BY <2>10, <2>16, <3>2
      <4> HIDE DEF M
      <4> QED
        BY <2>17, <4>1 DEF ComponentsIn
    <3> QED
      BY <3>1, <3>2
  <2>18. ComponentsIn(known)
    <3> HIDE DEF M
    <3> QED
      BY <2>9, <2>13, <2>14, <2>15, <2>17 DEF ComponentsIn
  <2> QED
    BY <2>9, <2>14, <2>18 DEF Registers, known
<1> QED
  BY <1>1, <1>2

\* So does check_account().
LEMMA CheckKeepsComponents ==
  ASSUME NEW s \in CloseStates, ComponentsIn(s), NEW account \in Accounts, NEW event \in Event, NEW at
  PROVE  Registers(s, Closing!CheckAccount(registry, s, account, event, at).state, {account})
<1> DEFINE i == event.instrument
           known == Closing!RegisterAndGroup(registry, s, account)
           marked == [known EXCEPT !.alerted = known.alerted \cup {<<i, account>>}]
           next == Closing!CheckAccount(registry, s, account, event, at).state
<1>1. Registers(s, known, {account})
  BY RegisterKeepsComponents
<1>2. next \in {known, marked}
  BY DEF Closing!CheckAccount
<1>3. <<i, account>> \in Closing!AccountKeys
  BY DEF Closing!AccountKeys, Event
<1> HIDE DEF known
<1>4. /\ marked \in CloseStates /\ marked.group = known.group
      /\ marked.total = known.total /\ marked.volume = known.volume
  BY <1>1, <1>3 DEF CloseStates, Registers
<1> HIDE DEF marked, next
<1>5. Closing!Seen(marked) = Closing!Seen(known)
      /\ \A x : Closing!GroupMembers(marked, x) = Closing!GroupMembers(known, x)
  BY <1>4 DEF Closing!Seen, Closing!GroupMembers
<1>6. Registers(s, marked, {account})
  BY <1>1, <1>4, <1>5 DEF Registers, ComponentsIn
<1> QED
  BY <1>1, <1>2, <1>6 DEF next

\* And handle_execution(), which credits the trade first.
LEMMA TradeKeepsComponents ==
  ASSUME close \in CloseStates, ComponentsIn(close), NEW event \in Event, NEW at
  PROVE  Registers(Closing!Credited(event), Closing!HandleTrade(registry, event, at).state,
                   Closing!Participants(event))
         /\ Closing!Seen(Closing!Credited(event)) = Closing!Seen(close)
<1> DEFINE credited == Closing!Credited(event)
           first == Closing!CheckAccount(registry, credited, event.account, event, at).state
           second == Closing!CheckAccount(registry, first, event.counterparty, event, at).state
           traded == Closing!HandleTrade(registry, event, at).state
<1>1. event.account \in Accounts /\ event.counterparty \in Accounts \cup {NoAccount}
      /\ NoAccount \notin Accounts
  BY DetectorAssumption DEF Event, Closing!CloseConfigured
<1>2. credited \in CloseStates /\ credited.group = close.group
  BY CreditedState
<1>3. traded = IF event.counterparty \in {NoAccount, event.account} THEN first ELSE second
  BY DEF Closing!HandleTrade
<1>4. Closing!Participants(event)
        = IF event.counterparty \in {NoAccount, event.account} THEN {event.account}
          ELSE {event.account, event.counterparty}
  BY DEF Closing!Participants
<1> HIDE DEF credited, traded
<1>5. Closing!Seen(credited) = Closing!Seen(close)
      /\ \A x : Closing!GroupMembers(credited, x) = Closing!GroupMembers(close, x)
  BY <1>2 DEF Closing!Seen, Closing!GroupMembers
<1>6. ComponentsIn(credited)
  BY <1>2, <1>5 DEF ComponentsIn
<1>7. Registers(credited, first, {event.account})
  BY <1>1, <1>2, <1>6, CheckKeepsComponents
<1> HIDE DEF first
<1>8. event.counterparty \in Accounts => Registers(first, second, {event.counterparty})
  BY <1>7, CheckKeepsComponents DEF Registers
<1> HIDE DEF second
<1>9. event.counterparty \in Accounts => Registers(credited, second, {event.account, event.counterparty})
  BY <1>7, <1>8 DEF Registers
<1>10. Registers(credited, traded, Closing!Participants(event))
  BY <1>1, <1>3, <1>4, <1>7, <1>9
<1> QED
  BY <1>5, <1>10 DEF credited, traded

\* A trade in the window before the close of an instrument.
InTheWindow(n, i) ==
  /\ accepted[n].kind = "Execution" /\ accepted[n].instrument = i /\ i \in DOMAIN CloseTime
  /\ CloseTime[i] - WindowDuration <= accepted[n].ts /\ accepted[n].ts <= CloseTime[i]

\* The accounts of a trade, and those that traded in a window.
Traders(n) == {accepted[n].account, accepted[n].counterparty} \ {NoAccount}
Traded == UNION {Traders(n) : n \in UNION {WindowTrades(i) : i \in Instruments}}

\* The trades of an account in the window.
TradesOf(i, a) == {n \in WindowTrades(i) : TakesPart(n, a)}

\* The windows of a trade more.
LEMMA WindowTradesAfter ==
  ASSUME accepted \in Seq(Event), NEW event \in Event, accepted' = Append(accepted, event),
         NEW i \in Instruments, NEW n, n = Len(accepted) + 1
  PROVE  /\ WindowTrades(i) \subseteq 1 .. Len(accepted)
         /\ WindowTrades(i)' = WindowTrades(i)
              \cup (IF Closing!Relevant(event) /\ event.instrument = i THEN {n} ELSE {})
         /\ \A a \in Accounts :
              TradesOf(i, a)' = TradesOf(i, a)
                \cup (IF Closing!Relevant(event) /\ event.instrument = i /\ a \in Closing!Participants(event)
                      THEN {n} ELSE {})
<1> DEFINE relevant == Closing!Relevant(event) /\ event.instrument = i
           N == IF relevant THEN {n} ELSE {}
           w == WindowTrades(i)
           l == Len(accepted)
<1>1. /\ l \in Nat /\ DOMAIN accepted = 1 .. l /\ DOMAIN accepted' = 1 .. n
      /\ \A m \in 1 .. l : accepted'[m] = accepted[m]
      /\ accepted'[n] = event
  BY AcceptedGrows
<1>2. /\ WindowTrades(i) = {m \in DOMAIN accepted : InTheWindow(m, i)}
      /\ WindowTrades(i)' = {m \in DOMAIN accepted' : InTheWindow(m, i)'}
  BY DEF WindowTrades, InTheWindow
<1>3. InTheWindow(n, i)' <=> relevant
  BY <1>1 DEF InTheWindow, Closing!Relevant, Closing!InWindow
<1>4. \A m \in 1 .. l : InTheWindow(m, i)' <=> InTheWindow(m, i)
  BY <1>1 DEF InTheWindow
<1>5. \A m \in 1 .. n : m = n \/ m \in 1 .. l
  BY <1>1
<1>6. n \in 1 .. n /\ n \notin 1 .. l /\ \A m \in 1 .. l : m \in 1 .. n
  BY <1>1
<1>7. w \subseteq 1 .. l
  BY <1>1, <1>2
<1> HIDE DEF relevant
<1>8. WindowTrades(i)' = w \cup N
  <2>1. ASSUME NEW m \in WindowTrades(i)' PROVE m \in w \cup N
    <3>1. m \in 1 .. n /\ InTheWindow(m, i)'
      BY <1>1, <1>2
    <3>2. CASE m = n
      BY <1>3, <3>1, <3>2
    <3>3. CASE m \in 1 .. l
      BY <1>1, <1>2, <1>4, <3>1, <3>3
    <3> QED
      BY <1>5, <3>1, <3>2, <3>3
  <2>2. ASSUME NEW m \in w PROVE m \in WindowTrades(i)'
    BY <1>1, <1>2, <1>4, <1>6
  <2>3. ASSUME NEW m \in N PROVE m \in WindowTrades(i)'
    BY <1>1, <1>2, <1>3, <1>6
  <2> HIDE DEF w, N
  <2> QED
    BY <2>1, <2>2, <2>3
<1>9. ASSUME NEW a \in Accounts
      PROVE  TradesOf(i, a)' = TradesOf(i, a) \cup (IF relevant /\ a \in Closing!Participants(event) THEN {n} ELSE {})
  <2>1. \A m \in 1 .. l : TakesPart(m, a)' <=> TakesPart(m, a)
    BY <1>1 DEF TakesPart
  <2>2. TakesPart(n, a)' <=> a \in Closing!Participants(event)
    <3>1. NoAccount \notin Accounts
      BY DetectorAssumption DEF Closing!CloseConfigured
    <3> QED
      BY <1>1, <3>1 DEF TakesPart, Closing!Participants
  <2>3. /\ TradesOf(i, a)' = {m \in WindowTrades(i)' : TakesPart(m, a)'}
        /\ TradesOf(i, a) = {m \in w : TakesPart(m, a)}
    BY DEF TradesOf
  <2> HIDE DEF w
  <2> QED
    BY <1>6, <1>7, <1>8, <2>1, <2>2, <2>3
<1> QED
  BY <1>7, <1>8, <1>9 DEF relevant

\* g has one number more than f.
HasOneMore(g, f, l) ==
  /\ l \in Nat /\ g[l + 1] \in Nat
  /\ \A m \in 1 .. l : f[m] \in Nat /\ g[m] = f[m]

\* The sum of earlier numbers stays, and grows by the new one.
SumGrows(g, f, l, S) ==
  /\ IsFiniteSet(S) /\ SumFunctionOnSet(f, S) \in Nat
  /\ SumFunctionOnSet(g, S) = SumFunctionOnSet(f, S)
  /\ SumFunctionOnSet(g, S \cup {l + 1}) = SumFunctionOnSet(f, S) + g[l + 1]

\* So it is for every set of earlier numbers.
LEMMA SumsGrow ==
  ASSUME NEW l, NEW f, NEW g, HasOneMore(g, f, l), NEW S \in SUBSET (1 .. l)
  PROVE  SumGrows(g, f, l, S)
<1> DEFINE n == l + 1
<1>0. l \in Nat /\ g[n] \in Nat /\ \A m \in 1 .. l : f[m] \in Nat /\ g[m] = f[m]
  BY DEF HasOneMore
<1>1. IsFiniteSet(S) /\ n \notin S
  <2>1. IsFiniteSet(1 .. l) /\ n \notin 1 .. l
    BY <1>0, FS_Interval
  <2> QED
    BY <2>1, FS_Subset
<1> HIDE DEF n
<1>2. SumFunctionOnSet(f, S) \in Nat
  BY <1>0, <1>1, SumType
<1>3. SumFunctionOnSet(g, S) = SumFunctionOnSet(f, S)
  <2>1. \A x \in S : g[x] = f[x]
    BY <1>0
  <2> QED
    BY <1>1, <2>1, SumOfTheSame
<1>4. SumFunctionOnSet(g, S \cup {n}) = SumFunctionOnSet(g, S) + g[n]
  <2>1. \A x \in S \cup {n} : g[x] \in Nat
    BY <1>0
  <2> QED
    BY <1>1, <2>1, SumMore
<1> QED
  BY <1>1, <1>2, <1>3, <1>4 DEF n, SumGrows

\* The quantities and their squares, with those of an event more.
LEMMA QuantitiesGrow ==
  ASSUME accepted \in Seq(Event), NEW event \in Event, accepted' = Append(accepted, event)
  PROVE  /\ Len(accepted) \in Nat
         /\ \A m \in 1 .. Len(accepted) : /\ Quantities[m] \in Nat /\ Quantities'[m] = Quantities[m]
                                          /\ Squares[m] \in Nat /\ Squares'[m] = Squares[m]
         /\ Quantities'[Len(accepted) + 1] = event.qty /\ event.qty \in Nat
         /\ Squares'[Len(accepted) + 1] = event.qty * event.qty /\ event.qty * event.qty \in Nat
<1> DEFINE n == Len(accepted) + 1
<1>1. /\ Len(accepted) \in Nat /\ DOMAIN accepted = 1 .. Len(accepted) /\ DOMAIN accepted' = 1 .. n
      /\ \A m \in 1 .. Len(accepted) : accepted'[m] = accepted[m]
      /\ accepted'[n] = event
  BY AcceptedGrows
<1>2. \A m \in 1 .. Len(accepted) : m \in DOMAIN accepted /\ m \in DOMAIN accepted'
  BY <1>1
<1>3. \A m \in 1 .. Len(accepted) : accepted[m].qty \in Nat
  <2>1. \A m \in 1 .. Len(accepted) : accepted[m] \in Event
    BY ElementOfSeq
  <2> QED
    BY <2>1 DEF Event
<1>4. \A q \in Nat : q * q \in Nat
  OBVIOUS
<1>5. \A m \in 1 .. Len(accepted) : Quantities[m] = accepted[m].qty
  BY <1>2 DEF Quantities
<1>6. \A m \in 1 .. Len(accepted) : Quantities'[m] = accepted'[m].qty
  BY <1>2 DEF Quantities
<1>7. \A m \in 1 .. Len(accepted) : Squares[m] = accepted[m].qty * accepted[m].qty
  BY <1>2 DEF Squares
<1>8. \A m \in 1 .. Len(accepted) : Squares'[m] = accepted'[m].qty * accepted'[m].qty
  BY <1>2 DEF Squares
<1>9. event.qty \in Nat /\ n \in DOMAIN accepted'
  BY <1>1 DEF Event
<1>10. Quantities'[n] = event.qty
  BY <1>1, <1>9 DEF Quantities
<1>11. Squares'[n] = event.qty * event.qty
  BY <1>1, <1>9 DEF Squares
<1>12. \A m \in 1 .. Len(accepted) : /\ Quantities[m] \in Nat /\ Quantities'[m] = Quantities[m]
                                     /\ Squares[m] \in Nat /\ Squares'[m] = Squares[m]
  BY <1>1, <1>3, <1>4, <1>5, <1>6, <1>7, <1>8
<1> QED
  BY <1>1, <1>4, <1>9, <1>10, <1>11, <1>12

\* The volumes and the squares of earlier events, and with the new one.
LEMMA VolumesGrow ==
  ASSUME accepted \in Seq(Event), NEW event \in Event, accepted' = Append(accepted, event),
         NEW S \in SUBSET (1 .. Len(accepted))
  PROVE  /\ IsFiniteSet(S) /\ VolumeOf(S) \in Nat
         /\ SumFunctionOnSet(Quantities', S) = VolumeOf(S)
         /\ SumFunctionOnSet(Quantities', S \cup {Len(accepted) + 1}) = VolumeOf(S) + event.qty
         /\ SumFunctionOnSet(Squares, S) \in Nat
         /\ SumFunctionOnSet(Squares', S) = SumFunctionOnSet(Squares, S)
         /\ SumFunctionOnSet(Squares', S \cup {Len(accepted) + 1})
              = SumFunctionOnSet(Squares, S) + event.qty * event.qty
<1>1. PICK l : l = Len(accepted)
  OBVIOUS
<1>2. PICK f, g : f = Quantities /\ g = Quantities'
  OBVIOUS
<1>3. PICK h, k : h = Squares /\ k = Squares'
  OBVIOUS
<1>4. /\ l \in Nat /\ \A m \in 1 .. l : f[m] \in Nat /\ g[m] = f[m]
      /\ g[l + 1] = event.qty /\ g[l + 1] \in Nat
  BY <1>1, <1>2, QuantitiesGrow
<1>5. /\ \A m \in 1 .. l : h[m] \in Nat /\ k[m] = h[m]
      /\ k[l + 1] = event.qty * event.qty /\ k[l + 1] \in Nat
  BY <1>1, <1>3, QuantitiesGrow
<1>6. S \in SUBSET (1 .. l)
  BY <1>1
<1>7. SumGrows(g, f, l, S)
  <2>1. HasOneMore(g, f, l)
    BY <1>4 DEF HasOneMore
  <2> QED
    BY <1>6, <2>1, SumsGrow
<1>8. SumGrows(k, h, l, S)
  <2>1. HasOneMore(k, h, l)
    BY <1>4, <1>5 DEF HasOneMore
  <2> QED
    BY <1>6, <2>1, SumsGrow
<1> QED
  BY <1>1, <1>2, <1>3, <1>4, <1>5, <1>7, <1>8 DEF VolumeOf, SumGrows

\* Crediting a trade adds its quantity to the total, and to the volume of its accounts.
LEMMA CreditedVolumes ==
  ASSUME close \in CloseStates, NEW event \in Event
  PROVE  /\ \A i \in Instruments : Closing!Credited(event).total[i]
              = IF i = event.instrument THEN close.total[i] + event.qty ELSE close.total[i]
         /\ \A i \in Instruments, a \in Accounts : Closing!Credited(event).volume[<<i, a>>]
              = IF i = event.instrument /\ a \in Closing!Participants(event)
                THEN close.volume[<<i, a>>] + event.qty ELSE close.volume[<<i, a>>]
<1> DEFINE i0 == event.instrument
           total == [close.total EXCEPT ![i0] = close.total[i0] + event.qty]
           counted(k) == k[1] = i0 /\ k[2] \in Closing!Participants(event)
           volume == [k \in Closing!AccountKeys |->
                        IF counted(k) THEN close.volume[k] + event.qty ELSE close.volume[k]]
           trades == [k \in Closing!AccountKeys |->
                        IF counted(k) THEN Append(close.trades[k], event.trade) ELSE close.trades[k]]
           credited == Closing!Credited(event)
<1>1. close.total \in [Instruments -> Nat] /\ i0 \in Instruments
  BY CloseFields DEF Event
<1>2. credited = [close EXCEPT !.total = total, !.volume = volume, !.trades = trades]
  BY DEF Closing!Credited, CloseStates
<1>3. \A i \in Instruments : total[i] = IF i = i0 THEN close.total[i] + event.qty ELSE close.total[i]
  BY <1>1
<1>4. \A i \in Instruments, a \in Accounts : volume[<<i, a>>]
        = IF i = i0 /\ a \in Closing!Participants(event)
          THEN close.volume[<<i, a>>] + event.qty ELSE close.volume[<<i, a>>]
  BY DEF Closing!AccountKeys
<1> HIDE DEF total, volume, trades, credited
<1>5. credited.total = total /\ credited.volume = volume
  BY <1>2 DEF CloseStates
<1> QED
  BY <1>3, <1>4, <1>5 DEF credited

\* The volumes of an instrument.
VolumesOf(i) ==
  /\ close.total[i] = VolumeOf(WindowTrades(i))
  /\ \A a \in Accounts : close.volume[<<i, a>>] = VolumeOf(TradesOf(i, a))

\* A trade of the window keeps them those of its trades.
LEMMA VolumesStep ==
  ASSUME accepted \in Seq(Event), close \in CloseStates, NEW event \in Event,
         accepted' = Append(accepted, event), NEW i \in Instruments, VolumesOf(i),
         IF Closing!Relevant(event)
         THEN /\ close'.total = Closing!Credited(event).total
              /\ close'.volume = Closing!Credited(event).volume
         ELSE close' = close
  PROVE  VolumesOf(i)'
<1>1. PICK w : w = WindowTrades(i)
  OBVIOUS
<1>2. PICK n : n = Len(accepted) + 1
  OBVIOUS
<1> DEFINE here == Closing!Relevant(event) /\ event.instrument = i
           takes(a) == a \in Closing!Participants(event)
<1>3. /\ w \in SUBSET (1 .. Len(accepted))
      /\ WindowTrades(i)' = w \cup (IF here THEN {n} ELSE {})
      /\ \A a \in Accounts :
           TradesOf(i, a)' = TradesOf(i, a) \cup (IF here /\ takes(a) THEN {n} ELSE {})
  BY <1>1, <1>2, WindowTradesAfter
<1>4. /\ VolumeOf(WindowTrades(i))' = SumFunctionOnSet(Quantities', WindowTrades(i)')
      /\ \A a : VolumeOf(TradesOf(i, a))' = SumFunctionOnSet(Quantities', TradesOf(i, a)')
  BY DEF VolumeOf
<1>5. close'.total[i] = IF here THEN close.total[i] + event.qty ELSE close.total[i]
  BY CreditedVolumes
<1>6. \A a \in Accounts :
        close'.volume[<<i, a>>] = IF here /\ takes(a) THEN close.volume[<<i, a>>] + event.qty
                                  ELSE close.volume[<<i, a>>]
  BY CreditedVolumes
<1> HIDE DEF here, takes
<1>7. close'.total[i] = VolumeOf(WindowTrades(i))'
  <2>1. /\ SumFunctionOnSet(Quantities', w) = VolumeOf(w)
        /\ SumFunctionOnSet(Quantities', w \cup {n}) = VolumeOf(w) + event.qty
    BY <1>2, <1>3, VolumesGrow
  <2>2. close.total[i] = VolumeOf(w)
    BY <1>1 DEF VolumesOf
  <2>3. CASE here
    <3>1. WindowTrades(i)' = w \cup {n}
      BY <1>3, <2>3
    <3> QED
      BY <1>4, <1>5, <2>1, <2>2, <2>3, <3>1
  <2>4. CASE ~here
    <3>1. WindowTrades(i)' = w
      BY <1>3, <2>4
    <3> QED
      BY <1>4, <1>5, <2>1, <2>2, <2>4, <3>1
  <2> QED
    BY <2>3, <2>4
<1>8. ASSUME NEW a \in Accounts PROVE close'.volume[<<i, a>>] = VolumeOf(TradesOf(i, a))'
  <2>0. PICK t : t = TradesOf(i, a)
    OBVIOUS
  <2>1. t \in SUBSET (1 .. Len(accepted))
    BY <1>1, <1>3, <2>0 DEF TradesOf
  <2>2. /\ SumFunctionOnSet(Quantities', t) = VolumeOf(t)
        /\ SumFunctionOnSet(Quantities', t \cup {n}) = VolumeOf(t) + event.qty
    BY <1>2, <2>1, VolumesGrow
  <2>3. close.volume[<<i, a>>] = VolumeOf(t)
    BY <2>0 DEF VolumesOf
  <2>4. CASE here /\ takes(a)
    <3>1. TradesOf(i, a)' = t \cup {n}
      BY <1>3, <2>0, <2>4
    <3> QED
      BY <1>4, <1>6, <2>2, <2>3, <2>4, <3>1
  <2>5. CASE ~(here /\ takes(a))
    <3>1. TradesOf(i, a)' = t
      BY <1>3, <2>0, <2>5
    <3> QED
      BY <1>4, <1>6, <2>2, <2>3, <2>5, <3>1
  <2> QED
    BY <2>4, <2>5
<1> QED
  BY <1>7, <1>8 DEF VolumesOf

\* The accounts that traded in a window, with those of a trade more.
LEMMA TradedAfter ==
  ASSUME accepted \in Seq(Event), NEW event \in Event, accepted' = Append(accepted, event)
  PROVE  Traded' = Traded \cup (IF Closing!Relevant(event) THEN Closing!Participants(event) ELSE {})
<1>1. PICK n : n = Len(accepted) + 1
  OBVIOUS
<1>2. /\ \A m \in 1 .. Len(accepted) : accepted'[m] = accepted[m]
      /\ accepted'[n] = event /\ n \notin 1 .. Len(accepted)
  BY <1>1, AcceptedGrows
<1>3. \A i \in Instruments :
        /\ WindowTrades(i) \subseteq 1 .. Len(accepted)
        /\ WindowTrades(i)' = WindowTrades(i)
             \cup (IF Closing!Relevant(event) /\ event.instrument = i THEN {n} ELSE {})
  BY <1>1, WindowTradesAfter
<1>4. Traders(n)' = Closing!Participants(event)
  <2>1. event.account # NoAccount
    BY DetectorAssumption DEF Event, Closing!CloseConfigured
  <2> QED
    BY <1>2, <2>1 DEF Traders, Closing!Participants
<1>5. \A m \in 1 .. Len(accepted) : Traders(m)' = Traders(m)
  BY <1>2 DEF Traders
<1>6. event.instrument \in Instruments
  BY DEF Event
<1>7. /\ \A x : x \in Traded <=> \E i \in Instruments : \E m \in WindowTrades(i) : x \in Traders(m)
      /\ \A x : x \in Traded' <=> \E i \in Instruments : \E m \in WindowTrades(i)' : x \in Traders(m)'
  BY DEF Traded
<1>8. ASSUME NEW x \in Traded'
      PROVE  x \in Traded \/ (Closing!Relevant(event) /\ x \in Closing!Participants(event))
  <2>1. PICK i \in Instruments : \E m \in WindowTrades(i)' : x \in Traders(m)'
    BY <1>7
  <2>2. PICK m \in WindowTrades(i)' : x \in Traders(m)'
    BY <2>1
  <2>3. CASE m \in WindowTrades(i)
    BY <1>3, <1>5, <1>7, <2>2, <2>3
  <2>4. CASE m \notin WindowTrades(i)
    BY <1>3, <1>4, <2>2, <2>4
  <2> QED
    BY <2>3, <2>4
<1>9. ASSUME NEW x \in Traded PROVE x \in Traded'
  <2>1. PICK i \in Instruments : \E m \in WindowTrades(i) : x \in Traders(m)
    BY <1>7
  <2>2. PICK m \in WindowTrades(i) : x \in Traders(m)
    BY <2>1
  <2>3. m \in WindowTrades(i)' /\ x \in Traders(m)'
    BY <1>3, <1>5, <2>2
  <2> QED
    BY <1>7, <2>3
<1>10. ASSUME Closing!Relevant(event), NEW x \in Closing!Participants(event) PROVE x \in Traded'
  <2>1. n \in WindowTrades(event.instrument)' /\ x \in Traders(n)'
    BY <1>3, <1>4, <1>6, <1>10
  <2> QED
    BY <1>6, <1>7, <2>1
<1> QED
  BY <1>8, <1>9, <1>10

\* The volumes and the groups are those of the history.
CloseHistoryOK ==
  ComponentsIn(close) /\ Closing!Seen(close) = Traded /\ \A i \in Instruments : VolumesOf(i)

\* A step keeps them so.
LEMMA CloseHistoryStep ==
  ASSUME FeedOK, ProcessedOK, ClosingOK, CloseHistoryOK, [Next]_vars
  PROVE  CloseHistoryOK'
<1>1. CASE UNCHANGED <<accepted, close, registry>>
  <2>1. \A x, y : Kin(x, y)' <=> Kin(x, y)
    BY <1>1 DEF Kin
  <2>2. ComponentsIn(close)'
    BY <1>1, <2>1 DEF CloseHistoryOK, ComponentsIn, Closing!Seen, Closing!GroupMembers
  <2>3. (Closing!Seen(close) = Traded)'
    BY <1>1 DEF CloseHistoryOK, Traded, Traders, WindowTrades, Closing!Seen
  <2>4. \A i \in Instruments : VolumesOf(i)'
    BY <1>1 DEF CloseHistoryOK, VolumesOf, VolumeOf, Quantities, WindowTrades, TradesOf, TakesPart
  <2> QED
    BY <2>2, <2>3, <2>4 DEF CloseHistoryOK
<1>2. ASSUME NEW event, Arrives(event), NEW book, NEW at, Evaluate(event, book, at), registry' = registry
      PROVE  CloseHistoryOK'
  <2>1. /\ event \in Event /\ accepted \in Seq(Event) /\ accepted' = Append(accepted, event)
        /\ close \in CloseStates
    BY <1>2 DEF Arrives, ProcessedOK, ClosingOK, Evaluate
  <2>2. \A x, y : Kin(x, y)' <=> Kin(x, y)
    BY <1>2 DEF Kin
  <2>3. close' = IF Closing!Relevant(event) THEN Closing!HandleTrade(registry, event, at).state ELSE close
    BY <1>2 DEF Evaluate, Closing!EvaluateClose
  <2>4. PICK next : next = close'
    OBVIOUS
  <2>5. Closing!Relevant(event) => Registers(Closing!Credited(event), next, Closing!Participants(event))
                                   /\ Closing!Seen(Closing!Credited(event)) = Closing!Seen(close)
    BY <2>1, <2>3, <2>4, TradeKeepsComponents DEF CloseHistoryOK
  <2>6. ComponentsIn(next)
    BY <2>3, <2>4, <2>5 DEF Registers, CloseHistoryOK
  <2>7. ComponentsIn(close)'
    BY <2>2, <2>4, <2>6 DEF ComponentsIn, Closing!Seen, Closing!GroupMembers
  <2>8. Closing!Seen(next)
          = Closing!Seen(close) \cup (IF Closing!Relevant(event) THEN Closing!Participants(event) ELSE {})
    BY <2>3, <2>4, <2>5 DEF Registers
  <2>9. Closing!Seen(close)' = Closing!Seen(next)
    BY <2>4 DEF Closing!Seen
  <2>10. (Closing!Seen(close) = Traded)'
    <3>1. Closing!Seen(close) = Traded
      BY DEF CloseHistoryOK
    <3>2. Traded' = Traded \cup (IF Closing!Relevant(event) THEN Closing!Participants(event) ELSE {})
      BY <2>1, TradedAfter
    <3> QED
      BY <2>8, <2>9, <3>1, <3>2
  <2>11. ASSUME NEW i \in Instruments PROVE VolumesOf(i)'
    <3>1. IF Closing!Relevant(event)
          THEN /\ close'.total = Closing!Credited(event).total
               /\ close'.volume = Closing!Credited(event).volume
          ELSE close' = close
      BY <2>3, <2>4, <2>5 DEF Registers
    <3>2. VolumesOf(i)
      BY DEF CloseHistoryOK
    <3> QED
      BY <2>1, <3>1, <3>2, VolumesStep
  <2> QED
    BY <2>7, <2>10, <2>11 DEF CloseHistoryOK
<1> QED
  BY <1>1, <1>2, NextSends
     DEF vars, processVars, detectorVars, Deliver, LoseOnTheRing, Process, Skip

-----------------------------------------------------------------------------
\* The statistical baseline

\* A division without a rest.
LEMMA ExactDivision ==
  ASSUME NEW b \in Nat \ {0}, NEW q \in Int
  PROVE  (b * q) \div b = q
OBVIOUS

\* A number with no rest is a multiple.
LEMMA MultipleOf ==
  ASSUME NEW b \in Nat \ {0}, NEW a \in Int, a % b = 0
  PROVE  \E q \in Int : a = b * q
<1>1. PICK q \in Int : q = a \div b
  OBVIOUS
<1>2. a = b * q + (a % b)
  BY <1>1
<1>3. a = b * q
  BY <1>2
<1> QED
  BY <1>3

\* The running values of n quantities with the sum s and the sum of squares q.
Known(n, u, m, m2, s, q) ==
  /\ n \in Nat /\ {u, m, m2, s, q} \subseteq Int
  /\ n * m = s * u /\ q * u * u = m2 + n * m * m /\ u % (n + 1) = 0

\* With the quantity v more the mean moves by d.
MovesBy(n, u, m, s, v, d) ==
  /\ (v * u - m) \div (n + 1) = d
  /\ v * u - m = (n + 1) * d
  /\ (n + 1) * (m + d) = (s + v) * u

\* And the squares with it.
SquaresMoveTo(n, u, m, m2, q, v, d) ==
  (q + v * v) * u * u = (m2 + (v * u - m) * (v * u - (m + d))) + (n + 1) * (m + d) * (m + d)

\* Welford's mean: with one value more, the running mean is the mean.
LEMMA MeanOfMore ==
  ASSUME NEW n, NEW u, NEW m, NEW m2, NEW s, NEW q, Known(n, u, m, m2, s, q), NEW v \in Int
  PROVE  \E d \in Int : MovesBy(n, u, m, s, v, d)
<1>0. /\ n \in Nat /\ u \in Int /\ m \in Int /\ s \in Int
      /\ n * m = s * u /\ u % (n + 1) = 0
  BY DEF Known
<1>1. PICK w \in Int : u = (n + 1) * w
  <2>1. n + 1 \in Nat \ {0}
    BY <1>0
  <2> QED
    BY <1>0, <2>1, MultipleOf, Zenon
<1>2. PICK d \in Int : d = (s + v) * w - m
  BY <1>0
<1>3. (n + 1) * (m + d) = (s + v) * u
  <2>1. (n + 1) * ((s + v) * w) = (s + v) * ((n + 1) * w)
    BY <1>0
  <2>2. m + d = (s + v) * w
    BY <1>0, <1>2
  <2>3. (n + 1) * (m + d) = (n + 1) * ((s + v) * w)
    BY <1>0, <2>2, Zenon
  <2>4. (s + v) * u = (s + v) * ((n + 1) * w)
    BY <1>0, <1>1, Zenon
  <2> QED
    BY <1>0, <2>1, <2>3, <2>4, Zenon
<1>4. (n + 1) * (m + d) = n * m + m + (n + 1) * d
  BY <1>0
<1>5. (s + v) * u = s * u + v * u
  BY <1>0
<1>6. v * u - m = (n + 1) * d
  <2> DEFINE a == (n + 1) * d
             b == n * m
             c == s * u
             e == v * u
             f == (n + 1) * (m + d)
             g == (s + v) * u
  <2>1. a \in Int /\ b \in Int /\ c \in Int /\ e \in Int
    BY <1>0
  <2>2. f = b + m + a /\ g = c + e /\ f = g /\ b = c
    BY <1>0, <1>3, <1>4, <1>5
  <2> HIDE DEF a, b, c, e, f, g
  <2>3. e - m = a
    BY <1>0, <2>1, <2>2
  <2> QED
    BY <1>0, <2>3 DEF a, e
<1>7. ((n + 1) * d) \div (n + 1) = d
  BY <1>0, ExactDivision
<1> QED
  BY <1>3, <1>6, <1>7, Zenon DEF MovesBy

\* And the running squares are the squared deviations.
LEMMA SquaresOfMore ==
  ASSUME NEW n, NEW u, NEW m, NEW m2, NEW s, NEW q, Known(n, u, m, m2, s, q), NEW v \in Int,
         NEW d \in Int, MovesBy(n, u, m, s, v, d)
  PROVE  SquaresMoveTo(n, u, m, m2, q, v, d)
<1>0. /\ n \in Nat /\ u \in Int /\ m \in Int /\ q \in Int /\ m2 \in Int
      /\ v * u - m = (n + 1) * d /\ q * u * u = m2 + n * m * m
  BY DEF Known, MovesBy
<1> DEFINE x == v * u
           D == (n + 1) * d
<1>1. (q + v * v) * u * u = q * u * u + x * x
  BY <1>0
<1>2. x \in Int /\ D \in Int
  BY <1>0
<1>3. x = m + D
  BY <1>0, <1>2
<1>4. D = n * d + d
  BY <1>0
<1>5. (x - m) * (x - (m + d)) = D * (D - d)
  <2> HIDE DEF x, D
  <2>1. x - m = D /\ x - (m + d) = D - d
    BY <1>0, <1>2, <1>3
  <2> QED
    BY <1>0, <2>1
<1>6. D * (D - d) = D * (n * d)
  <2> HIDE DEF D
  <2>1. D - d = n * d
    BY <1>0, <1>2, <1>4
  <2> QED
    BY <1>0, <2>1
<1>7. x * x = m * m + 2 * m * D + D * D
  <2> HIDE DEF x, D
  <2> QED
    BY <1>0, <1>2, <1>3
<1>8. (n + 1) * (m + d) * (m + d) = n * m * m + m * m + 2 * m * D + D * d
  BY <1>0
<1>9. D * D = D * (n * d) + D * d
  <2> HIDE DEF D
  <2>1. D * D = D * (n * d + d)
    BY <1>0, <1>4
  <2>2. n * d \in Int
    BY <1>0
  <2>3. D * (n * d + d) = D * (n * d) + D * d
    BY <1>0, <1>2, <2>2
  <2> QED
    BY <1>0, <2>1, <2>3
<1> DEFINE a == q * u * u
           b == n * m * m
           c == m * m
           e == 2 * m * D
           f == D * (n * d)
           g == D * d
           y == (x - m) * (x - (m + d))
           z == (n + 1) * (m + d) * (m + d)
           l == (q + v * v) * u * u
<1>10. a \in Int /\ b \in Int /\ c \in Int /\ e \in Int /\ f \in Int /\ g \in Int
  BY <1>0
<1>11. l = a + x * x /\ x * x = c + e + D * D /\ D * D = f + g /\ y = f /\ z = b + c + e + g
       /\ a = m2 + b
  BY <1>0, <1>1, <1>5, <1>6, <1>7, <1>8, <1>9
<1>12. l = m2 + y + z
  <2> HIDE DEF a, b, c, e, f, g, y, z, l, x, D
  <2> QED
    BY <1>0, <1>2, <1>10, <1>11
<1> QED
  BY <1>0, <1>12 DEF SquaresMoveTo

\* An outlier by the running values is one by the sums.
LEMMA SameOutliers ==
  ASSUME NEW n \in Nat \ {0}, NEW u \in Nat \ {0}, NEW m \in Int, NEW v \in Int, NEW s \in Int,
         NEW q \in Int, NEW m2 \in Int, NEW t \in Int,
         n * m = s * u, q * u * u = m2 + n * m * m, t = n * q - s * s
  PROVE  /\ n * m2 = t * u * u
         /\ n * (v * u - m) = (n * v - s) * u
         /\ m2 > 0 <=> t > 0
<1>1. n * (q * u * u) = n * m2 + (n * m) * (n * m)
  <2>1. n * (m2 + n * m * m) = n * m2 + (n * m) * (n * m)
    OBVIOUS
  <2> QED
    BY <2>1
<1>2. t * u * u = n * (q * u * u) - (s * u) * (s * u)
  OBVIOUS
<1>3. n * m2 = t * u * u
  <2> DEFINE a == n * (q * u * u)
             b == n * m2
             c == (n * m) * (n * m)
             e == (s * u) * (s * u)
             f == t * u * u
  <2>1. a \in Int /\ b \in Int /\ c \in Int
    OBVIOUS
  <2>2. c = e
    OBVIOUS
  <2>3. a = b + c /\ f = a - e
    BY <1>1, <1>2
  <2> HIDE DEF a, b, c, e, f
  <2>4. b = f
    BY <2>1, <2>2, <2>3
  <2> QED
    BY <2>4 DEF b, f
<1>4. n * (v * u - m) = (n * v - s) * u
  <2>1. n * (v * u - m) = n * v * u - n * m
    OBVIOUS
  <2>2. (n * v - s) * u = n * v * u - s * u
    OBVIOUS
  <2> QED
    BY <2>1, <2>2
<1>5. m2 > 0 <=> t > 0
  <2>1. u * u > 0 /\ u * u \in Int
    OBVIOUS
  <2>2. n * m2 = t * (u * u)
    BY <1>3
  <2>3. m2 > 0 => n * m2 > 0
    OBVIOUS
  <2>4. m2 <= 0 => n * m2 <= 0
    OBVIOUS
  <2>5. t > 0 => t * (u * u) > 0
    BY <2>1
  <2>6. t <= 0 => t * (u * u) <= 0
    BY <2>1
  <2> QED
    BY <2>2, <2>3, <2>4, <2>5, <2>6
<1> QED
  BY <1>3, <1>4, <1>5

\* The score reaches the threshold by the running values when it does by the sums.
LEMMA SameScores ==
  ASSUME NEW n \in Nat \ {0}, NEW u \in Nat \ {0}, NEW e \in Int, NEW o \in Int, NEW m2 \in Int, NEW t \in Int,
         NEW z \in Nat, n * m2 = t * u * u, n * e = o * u
  PROVE  e * e * (n - 1) >= z * z * m2 <=> o * o * (n - 1) >= z * z * n * t
<1> DEFINE A == e * e * (n - 1)
           B == z * z * m2
           C == o * o * (n - 1)
           D == z * z * n * t
           U == u * u
           N == n * n
<1>1. N * A = U * C
  <2>1. N * A = (n * e) * (n * e) * (n - 1)
    OBVIOUS
  <2>2. U * C = (o * u) * (o * u) * (n - 1)
    OBVIOUS
  <2> QED
    BY <2>1, <2>2
<1>2. N * B = U * D
  <2>1. N * B = z * z * n * (n * m2)
    OBVIOUS
  <2>2. U * D = z * z * n * (t * u * u)
    OBVIOUS
  <2> QED
    BY <2>1, <2>2
<1>3. A \in Int /\ B \in Int /\ C \in Int /\ D \in Int /\ U \in Int /\ N \in Int /\ U > 0 /\ N > 0
  OBVIOUS
<1> SUFFICES A >= B <=> C >= D
  OBVIOUS
<1> HIDE DEF A, B, C, D, U, N
<1>4. A >= B <=> N * A >= N * B
  BY <1>3
<1>5. C >= D <=> U * C >= U * D
  BY <1>3
<1> QED
  BY <1>1, <1>2, <1>4, <1>5

\* A record of the detector that agrees with the number of orders, the sum of their
\* quantities and the sum of the squares of these.
IsWelford(s, n, v, q) ==
  /\ s.count = n /\ n * s.mean = v * Unit
  /\ q * Unit * Unit = s.m2 + n * s.mean * s.mean
  /\ n <= 1 => s.m2 = 0

Welfords == [count : Nat, mean : Int, m2 : Int]

\* update() takes one quantity more into account.
LEMMA UpdateIsWelford ==
  ASSUME NEW s \in Welfords, NEW n \in Nat, NEW v \in Nat, NEW q \in Nat, IsWelford(s, n, v, q),
         NEW x \in Nat, Unit % (n + 1) = 0
  PROVE  Baseline!Update(s, x) \in Welfords /\ IsWelford(Baseline!Update(s, x), n + 1, v + x, q + x * x)
<1> DEFINE m == s.mean
           m2 == s.m2
           t == Baseline!Update(s, x)
<1>1. m \in Int /\ m2 \in Int /\ Unit \in Int /\ s.count = n
  BY DetectorAssumption DEF Baseline!BaselineConfigured, Welfords, IsWelford
<1>2. n * m = v * Unit /\ q * Unit * Unit = m2 + n * m * m /\ (n <= 1 => m2 = 0)
  BY DEF IsWelford
<1> HIDE DEF m, m2
<1>3. Known(n, Unit, m, m2, v, q) /\ x \in Int
  BY <1>1, <1>2 DEF Known
<1>4. \E d \in Int : MovesBy(n, Unit, m, v, x, d)
  BY <1>3, MeanOfMore, Zenon
<1>5. PICK d \in Int : MovesBy(n, Unit, m, v, x, d)
  BY <1>4, Zenon
<1>6. /\ (x * Unit - m) \div (n + 1) = d
      /\ (n + 1) * (m + d) = (v + x) * Unit
      /\ x * Unit - m = (n + 1) * d
      /\ (q + x * x) * Unit * Unit
           = (m2 + (x * Unit - m) * (x * Unit - (m + d))) + (n + 1) * (m + d) * (m + d)
  <2>1. SquaresMoveTo(n, Unit, m, m2, q, x, d)
    BY <1>3, <1>5, SquaresOfMore, Zenon
  <2> QED
    BY <1>5, <2>1, Zenon DEF MovesBy, SquaresMoveTo
<1>7. t = [count |-> n + 1, mean |-> m + d, m2 |-> m2 + (x * Unit - m) * (x * Unit - (m + d))]
  BY <1>1, <1>6 DEF Baseline!Update, m, m2
<1> HIDE DEF t
<1>8. t.count = n + 1 /\ t.mean = m + d /\ t.m2 = m2 + (x * Unit - m) * (x * Unit - (m + d))
  BY <1>7
<1>9. m2 + (x * Unit - m) * (x * Unit - (m + d)) \in Int /\ m + d \in Int
  BY <1>1, <1>5
<1>10. n + 1 <= 1 => t.m2 = 0
  <2> SUFFICES ASSUME n = 0 PROVE m2 + (x * Unit - m) * (x * Unit - (m + d)) = 0
    BY <1>8
  <2>1. m2 = 0
    BY <1>2
  <2>2. x * Unit - (m + d) = 0
    <3>1. x * Unit - m = d
      BY <1>5, <1>6
    <3> QED
      BY <1>1, <3>1
  <2> QED
    BY <1>1, <2>1, <2>2
<1>11. IsWelford(t, n + 1, v + x, q + x * x)
  BY <1>8, <1>10, <1>6 DEF IsWelford
<1>12. t \in Welfords
  BY <1>9, <1>7 DEF Welfords
<1> QED
  BY <1>11, <1>12 DEF t

\* An outlier, by the number, the sum and the sum of the squares.
OutlierAmong(n, x, v, q) ==
  /\ n >= MinSamples /\ n * q - v * v > 0
  /\ (n * x - v) * (n * x - v) * (n - 1) >= ZScore * ZScore * n * (n * q - v * v)

\* The detector finds the same outliers by its running values.
LEMMA OutlierByTheSums ==
  ASSUME NEW s \in Welfords, NEW n \in Nat, NEW v \in Nat, NEW q \in Nat, IsWelford(s, n, v, q), NEW x \in Nat
  PROVE  s.count >= MinSamples /\ Baseline!Outlier(s, x) <=> OutlierAmong(n, x, v, q)
<1> DEFINE m == s.mean
           m2 == s.m2
           e == x * Unit - m
           o == n * x - v
           t == n * q - v * v
<1>1. m \in Int /\ m2 \in Int /\ Unit \in Nat \ {0} /\ ZScore \in Nat /\ s.count = n /\ MinSamples \in Nat \ {0}
  BY DetectorAssumption DEF Baseline!BaselineConfigured, Welfords, IsWelford
<1>2. n * m = v * Unit /\ q * Unit * Unit = m2 + n * m * m /\ (n <= 1 => m2 = 0)
  BY DEF IsWelford
<1>3. Baseline!Outlier(s, x) <=> n > 1 /\ m2 > 0 /\ e * e * (n - 1) >= ZScore * ZScore * m2
  BY <1>1 DEF Baseline!Outlier
<1>4. e \in Int /\ o \in Int /\ t \in Int
  BY <1>1
<1>5. CASE n = 0
  <2>1. ~(n >= MinSamples) /\ ~(s.count >= MinSamples)
    BY <1>1, <1>5
  <2> QED
    BY <2>1 DEF OutlierAmong
<1>6. CASE n # 0
  <2> HIDE DEF m, m2
  <2>1. /\ n * m2 = t * Unit * Unit
        /\ n * e = o * Unit
        /\ m2 > 0 <=> t > 0
    <3>1. n \in Nat \ {0}
      BY <1>6
    <3> QED
      BY <1>1, <1>2, <1>4, <3>1, SameOutliers
  <2> HIDE DEF e, o, t
  <2>2. e * e * (n - 1) >= ZScore * ZScore * m2 <=> o * o * (n - 1) >= ZScore * ZScore * n * t
    <3>1. n \in Nat \ {0}
      BY <1>6
    <3> QED
      BY <1>1, <1>4, <2>1, <3>1, SameScores
  <2>3. OutlierAmong(n, x, v, q)
          <=> n >= MinSamples /\ t > 0 /\ o * o * (n - 1) >= ZScore * ZScore * n * t
    BY DEF OutlierAmong, o, t
  <2>4. t > 0 => n > 1
    BY <1>1, <1>2, <1>6, <2>1
  <2> QED
    BY <1>1, <1>3, <2>1, <2>2, <2>3, <2>4
<1> QED
  BY <1>5, <1>6

\* The n-th event is a New order of the account and instrument.
Counts(key, n) == accepted[n].kind = "New" /\ <<accepted[n].account, accepted[n].instrument>> = key

\* The orders seen up to an earlier event stay the same, and the event more joins its key.
LEMMA SeenAfter ==
  ASSUME accepted \in Seq(Event), NEW event \in Event, accepted' = Append(accepted, event),
         NEW key, NEW n, n = Len(accepted) + 1
  PROVE  /\ \A m \in 0 .. Len(accepted) : Seen(key, m) \subseteq 1 .. Len(accepted) /\ Seen(key, m)' = Seen(key, m)
         /\ Seen(key, n)' = Seen(key, Len(accepted))
              \cup (IF event.kind = "New" /\ <<event.account, event.instrument>> = key THEN {n} ELSE {})
<1> DEFINE l == Len(accepted)
           joins == event.kind = "New" /\ <<event.account, event.instrument>> = key
           N == IF joins THEN {n} ELSE {}
<1>1. /\ l \in Nat /\ \A m \in 1 .. l : accepted'[m] = accepted[m]
      /\ accepted'[n] = event
  BY AcceptedGrows
<1>2. \A m : /\ Seen(key, m) = {j \in 1 .. m : Counts(key, j)}
             /\ Seen(key, m)' = {j \in 1 .. m : Counts(key, j)'}
  BY DEF Seen, Counts
<1>3. \A m \in 1 .. l : Counts(key, m)' <=> Counts(key, m)
  BY <1>1 DEF Counts
<1>4. Counts(key, n)' <=> joins
  BY <1>1 DEF Counts
<1>5. \A m \in 0 .. l : \A j \in 1 .. m : j \in 1 .. l
  BY <1>1
<1>6. /\ \A m \in 1 .. n : m = n \/ m \in 1 .. l
      /\ n \in 1 .. n /\ \A m \in 1 .. l : m \in 1 .. n
  BY <1>1
<1> HIDE DEF joins, l
<1>7. \A m \in 0 .. l : Seen(key, m) \subseteq 1 .. l /\ Seen(key, m)' = Seen(key, m)
  BY <1>2, <1>3, <1>5
<1>8. Seen(key, n)' = Seen(key, l) \cup N
  <2>1. ASSUME NEW m \in Seen(key, n)' PROVE m \in Seen(key, l) \cup N
    <3>1. m \in 1 .. n /\ Counts(key, m)'
      BY <1>2
    <3>2. CASE m = n
      BY <1>4, <3>1, <3>2
    <3>3. CASE m \in 1 .. l
      BY <1>2, <1>3, <3>1, <3>3
    <3> QED
      BY <1>6, <3>1, <3>2, <3>3
  <2>2. ASSUME NEW m \in Seen(key, l) PROVE m \in Seen(key, n)'
    BY <1>2, <1>3, <1>6
  <2>3. ASSUME NEW m \in N PROVE m \in Seen(key, n)'
    BY <1>2, <1>4, <1>6
  <2> HIDE DEF N
  <2> QED
    BY <2>1, <2>2, <2>3
<1> QED
  BY <1>7, <1>8 DEF joins, l

\* The number of some events, the sum of their quantities and that of the squares.
Summed(s, ns) == IsWelford(s, Cardinality(ns), VolumeOf(ns), SumFunctionOnSet(Squares, ns))

\* The records of the detector are those of the orders seen.
StatsOK ==
  /\ stats \in [Baseline!StatsKeys -> Welfords] /\ Len(accepted) <= Len(published)
  /\ \A key \in Baseline!StatsKeys : Summed(stats[key], Seen(key, Len(accepted)))

\* A step keeps them so.
LEMMA StatsStep == FeedOK /\ ProcessedOK /\ StatsOK /\ [Next]_vars => StatsOK'
<1> SUFFICES ASSUME FeedOK, ProcessedOK, StatsOK, [Next]_vars PROVE StatsOK'
  OBVIOUS
<1>1. ASSUME NEW event, Arrives(event), published' = Append(published, event)
      PROVE  Len(published) \in Nat /\ Len(published') = Len(published) + 1
  BY <1>1, AppendProperties, LenProperties DEF FeedOK, Arrives
<1>2. ASSUME UNCHANGED <<accepted, stats>>, Len(published) <= Len(published') PROVE StatsOK'
  <2>1. Len(accepted)' <= Len(published)'
    BY <1>2, LenProperties DEF StatsOK, ProcessedOK
  <2>2. \A key \in Baseline!StatsKeys : Summed(stats[key], Seen(key, Len(accepted)))'
    BY <1>2 DEF StatsOK, Summed, Seen, VolumeOf, Quantities, Squares
  <2> QED
    BY <1>2, <2>1, <2>2 DEF StatsOK
<1>3. ASSUME NEW event, Arrives(event), NEW book, NEW at, Evaluate(event, book, at),
             Len(published) < feed.length, Len(published') = Len(published) + 1
      PROVE  StatsOK'
  <2>1. /\ event \in Event /\ accepted \in Seq(Event) /\ accepted' = Append(accepted, event)
        /\ feed \in Feeds
    BY <1>3 DEF Arrives, ProcessedOK, Evaluate, FeedOK
  <2>2. PICK n : n = Len(accepted) + 1
    OBVIOUS
  <2>3. Len(accepted) \in Nat /\ Len(accepted') = n
    BY <2>1, <2>2, AcceptedGrows
  <2>4. Len(published) \in Nat /\ feed.length \in Nat /\ Len(accepted) <= Len(published)
    BY <2>1, FeedsAssumption, LenProperties DEF FeedOK, StatsOK
  <2>5. n <= feed.length /\ Len(accepted') <= Len(published')
    BY <1>3, <2>2, <2>3, <2>4
  <2>6. event.qty \in Nat /\ <<event.account, event.instrument>> \in Baseline!StatsKeys
    BY <2>1 DEF Event, Baseline!StatsKeys
  <2>7. ASSUME NEW key \in Baseline!StatsKeys
        PROVE  stats'[key] \in Welfords /\ Summed(stats[key], Seen(key, Len(accepted)))'
    <3> DEFINE joins == event.kind = "New" /\ <<event.account, event.instrument>> = key
    <3>1. PICK S : S = Seen(key, Len(accepted))
      OBVIOUS
    <3>2. S \in SUBSET (1 .. Len(accepted)) /\ Seen(key, n)' = S \cup (IF joins THEN {n} ELSE {})
      <4>1. Len(accepted) \in 0 .. Len(accepted)
        BY <2>3
      <4> QED
        BY <2>1, <2>2, <3>1, <4>1, SeenAfter
    <3>3. PICK s : s = stats[key]
      OBVIOUS
    <3>4. PICK v : v = VolumeOf(S)
      OBVIOUS
    <3>5. PICK q : q = SumFunctionOnSet(Squares, S)
      OBVIOUS
    <3>6. /\ IsFiniteSet(S) /\ v \in Nat /\ q \in Nat
          /\ SumFunctionOnSet(Quantities', S) = v
          /\ SumFunctionOnSet(Quantities', S \cup {n}) = v + event.qty
          /\ SumFunctionOnSet(Squares', S) = q
          /\ SumFunctionOnSet(Squares', S \cup {n}) = q + event.qty * event.qty
      <4>1. /\ IsFiniteSet(S) /\ VolumeOf(S) \in Nat
            /\ SumFunctionOnSet(Quantities', S) = VolumeOf(S)
            /\ SumFunctionOnSet(Quantities', S \cup {Len(accepted) + 1}) = VolumeOf(S) + event.qty
            /\ SumFunctionOnSet(Squares, S) \in Nat
            /\ SumFunctionOnSet(Squares', S) = SumFunctionOnSet(Squares, S)
            /\ SumFunctionOnSet(Squares', S \cup {Len(accepted) + 1})
                 = SumFunctionOnSet(Squares, S) + event.qty * event.qty
        BY <2>1, <3>2, VolumesGrow
      <4> QED
        BY <2>2, <3>4, <3>5, <4>1
    <3>7. PICK c : c = Cardinality(S)
      OBVIOUS
    <3>8. s \in Welfords /\ IsWelford(s, c, v, q)
      BY <3>1, <3>3, <3>4, <3>5, <3>7 DEF StatsOK, Summed
    <3>9. c \in Nat /\ c <= Len(accepted) /\ n \notin S
      <4>1. IsFiniteSet(1 .. Len(accepted)) /\ Cardinality(1 .. Len(accepted)) = Len(accepted)
        <5>1. PICK l : l = Len(accepted)
          OBVIOUS
        <5>2. l \in Int /\ 1 \in Int /\ ~(1 > l /\ l # 0)
          BY <2>3, <5>1
        <5>3. IsFiniteSet(1 .. l) /\ Cardinality(1 .. l) = IF 1 > l THEN 0 ELSE l - 1 + 1
          BY <5>2, FS_Interval, Zenon
        <5>4. Cardinality(1 .. l) = l
          BY <5>2, <5>3
        <5> QED
          BY <5>1, <5>3, <5>4
      <4>2. c <= Cardinality(1 .. Len(accepted))
        BY <3>2, <3>7, <4>1, FS_Subset
      <4>3. n \notin 1 .. Len(accepted)
        BY <2>2, <2>3
      <4> QED
        BY <3>2, <3>6, <3>7, <4>1, <4>2, <4>3, FS_CardinalityType
    <3>10. PICK T : T = S \cup (IF joins THEN {n} ELSE {})
      OBVIOUS
    <3>11. /\ Seen(key, Len(accepted))' = T
           /\ VolumeOf(Seen(key, Len(accepted)))' = SumFunctionOnSet(Quantities', T)
           /\ SumFunctionOnSet(Squares, Seen(key, Len(accepted)))' = SumFunctionOnSet(Squares', T)
      <4>1. Seen(key, Len(accepted))' = Seen(key, n)'
        BY <2>3 DEF Seen
      <4> QED
        BY <3>2, <3>10, <4>1 DEF VolumeOf
    <3>12. stats'[key] = IF joins THEN Baseline!Update(s, event.qty) ELSE s
      <4>1. stats \in [Baseline!StatsKeys -> Welfords]
        BY DEF StatsOK
      <4>2. stats' = IF event.kind # "New" THEN stats
                     ELSE [stats EXCEPT ![<<event.account, event.instrument>>]
                             = Baseline!Update(@, event.qty)]
        BY <1>3 DEF Evaluate, Baseline!EvaluateBaseline
      <4> QED
        BY <2>6, <3>3, <4>1, <4>2
    <3> HIDE DEF joins
    <3>13. CASE joins
      <4>1. T = S \cup {n}
        BY <3>10, <3>13
      <4>2. Cardinality(T) = c + 1
        BY <3>6, <3>7, <3>9, <4>1, FS_AddElement
      <4>3. Unit % (c + 1) = 0
        <5>1. c + 1 \in 1 .. feed.length
          BY <2>2, <2>3, <2>4, <2>5, <3>9
        <5> QED
          BY <2>1, <5>1, UnitAssumption
      <4>4. /\ Baseline!Update(s, event.qty) \in Welfords
            /\ IsWelford(Baseline!Update(s, event.qty), c + 1, v + event.qty, q + event.qty * event.qty)
        BY <2>6, <3>6, <3>8, <3>9, <4>3, UpdateIsWelford
      <4>5. IsWelford(stats'[key], Cardinality(T), SumFunctionOnSet(Quantities', T), SumFunctionOnSet(Squares', T))
        BY <3>6, <3>12, <3>13, <4>1, <4>2, <4>4
      <4> QED
        BY <3>11, <3>12, <3>13, <4>4, <4>5 DEF Summed, IsWelford
    <3>14. CASE ~joins
      <4>1. T = S
        BY <3>10, <3>14
      <4>2. IsWelford(stats'[key], Cardinality(T), SumFunctionOnSet(Quantities', T), SumFunctionOnSet(Squares', T))
        BY <3>6, <3>7, <3>8, <3>12, <3>14, <4>1
      <4> QED
        BY <3>8, <3>11, <3>12, <3>14, <4>2 DEF Summed, IsWelford
    <3> QED
      BY <3>13, <3>14
  <2>8. stats' \in [Baseline!StatsKeys -> Welfords]
    <3>1. stats' = [key \in Baseline!StatsKeys |-> stats'[key]]
      BY <1>3 DEF StatsOK, Evaluate, Baseline!EvaluateBaseline
    <3> QED
      BY <2>7, <3>1
  <2> QED
    BY <2>5, <2>7, <2>8 DEF StatsOK
<1>4. \A x \in Nat : x <= x /\ x <= x + 1
  OBVIOUS
<1>5. Len(published) \in Nat
  BY LenProperties DEF FeedOK
<1>6. CASE UNCHANGED vars
  <2>1. UNCHANGED <<accepted, stats>> /\ published' = published
    BY <1>6 DEF vars, processVars, detectorVars
  <2> QED
    BY <1>2, <1>4, <1>5, <2>1
<1>7. ASSUME NEW event, Arrives(event), published' = Append(published, event), Len(published) < feed.length,
             Deliver(event) \/ LoseOnTheRing(event)
      PROVE  StatsOK'
  <2>1. Len(published') = Len(published) + 1 /\ Len(published) <= Len(published')
    BY <1>1, <1>4, <1>5, <1>7
  <2>2. CASE UNCHANGED <<accepted, stats>>
    BY <1>2, <2>1, <2>2
  <2>3. ASSUME NEW book, NEW at, Evaluate(event, book, at) PROVE StatsOK'
    BY <1>3, <1>7, <2>1, <2>3
  <2> QED
    BY <1>7, <2>2, <2>3 DEF Deliver, LoseOnTheRing, Process, Skip, processVars, detectorVars
<1> QED
  BY <1>6, <1>7, NextSends

\* The squares of a record, by the sums.
LEMMA WelfordSquares ==
  ASSUME NEW s \in Welfords, NEW n \in Nat, NEW v \in Nat, NEW q \in Nat, IsWelford(s, n, v, q)
  PROVE  /\ s.count = n /\ n * s.mean = v * Unit
         /\ n * s.m2 = (n * q - v * v) * Unit * Unit
<1> DEFINE m == s.mean
           m2 == s.m2
           t == n * q - v * v
<1>1. m \in Int /\ m2 \in Int /\ Unit \in Nat \ {0} /\ t \in Int
  BY DetectorAssumption DEF Baseline!BaselineConfigured, Welfords
<1>2. s.count = n /\ n * m = v * Unit /\ q * Unit * Unit = m2 + n * m * m
  BY DEF IsWelford
<1> HIDE DEF m, m2
<1>3. n * m2 = t * Unit * Unit
  <2>1. CASE n \in Nat \ {0}
    BY <1>1, <1>2, <2>1, SameOutliers
  <2>2. CASE n = 0
    <3>1. v * Unit = 0
      BY <1>1, <1>2, <2>2
    <3>2. v = 0
      BY <1>1, <3>1
    <3> QED
      BY <1>1, <2>2, <3>2
  <2> QED
    BY <2>1, <2>2
<1> QED
  BY <1>2, <1>3 DEF m, m2

\* The sums over some of the events are numbers.
LEMMA SumsOfTheSeen ==
  ASSUME accepted \in Seq(Event), NEW S \in SUBSET (1 .. Len(accepted))
  PROVE  VolumeOf(S) \in Nat /\ SumFunctionOnSet(Squares, S) \in Nat /\ Cardinality(S) \in Nat
<1>0. Len(accepted) \in Nat
  BY LenProperties
<1>1. IsFiniteSet(1 .. Len(accepted))
  BY <1>0, FS_Interval
<1>2. IsFiniteSet(S) /\ Cardinality(S) \in Nat
  BY <1>1, FS_Subset, FS_CardinalityType
<1>3. \A m \in S : Quantities[m] \in Nat /\ Squares[m] \in Nat
  <2>1. \A m \in 1 .. Len(accepted) : accepted[m] \in Event /\ m \in DOMAIN accepted
    BY ElementOfSeq, LenProperties
  <2>2. \A m \in S : accepted[m].qty \in Nat /\ m \in DOMAIN accepted
    BY <2>1 DEF Event
  <2>3. \A m \in S : Quantities[m] = accepted[m].qty /\ Squares[m] = accepted[m].qty * accepted[m].qty
    BY <2>2 DEF Quantities, Squares
  <2>4. \A q \in Nat : q * q \in Nat
    OBVIOUS
  <2> QED
    BY <2>2, <2>3, <2>4
<1>4. VolumeOf(S) \in Nat
  BY <1>2, <1>3, SumType DEF VolumeOf
<1>5. SumFunctionOnSet(Squares, S) \in Nat
  BY <1>2, <1>3, SumType
<1> QED
  BY <1>2, <1>4, <1>5

\* An outlier of the history, by the orders before it.
LEMMA OutlierIs ==
  \A n : IsOutlier(n) <=> /\ accepted[n].kind = "New"
                          /\ OutlierAmong(Cardinality(Before(n)), accepted[n].qty, VolumeOf(Before(n)),
                                          SumFunctionOnSet(Squares, Before(n)))
BY DEF IsOutlier, OutlierAmong, Spread

\* An event that is an outlier among some events.
OutlierOf(event, S) ==
  /\ event.kind = "New"
  /\ OutlierAmong(Cardinality(S), event.qty, VolumeOf(S), SumFunctionOnSet(Squares, S))

\* The outliers stay, and the event more is one if it is among the orders seen.
LEMMA OutliersAfter ==
  ASSUME accepted \in Seq(Event), NEW event \in Event, accepted' = Append(accepted, event),
         NEW n, n = Len(accepted) + 1
  PROVE  /\ \A m \in 1 .. Len(accepted) : IsOutlier(m)' <=> IsOutlier(m)
         /\ IsOutlier(n)' <=> OutlierOf(event, Seen(<<event.account, event.instrument>>, Len(accepted)))
<1>1. /\ Len(accepted) \in Nat /\ \A m \in 1 .. Len(accepted) : accepted'[m] = accepted[m]
      /\ accepted'[n] = event
  BY AcceptedGrows
<1>2. \A m : IsOutlier(m)' <=> /\ accepted'[m].kind = "New"
                               /\ OutlierAmong(Cardinality(Before(m)'), accepted'[m].qty, VolumeOf(Before(m))',
                                               SumFunctionOnSet(Squares', Before(m)'))
  BY DEF IsOutlier, OutlierAmong, Spread
<1>3. \A m : VolumeOf(Before(m))' = SumFunctionOnSet(Quantities', Before(m)')
  BY DEF VolumeOf
<1>4. ASSUME NEW m \in 1 .. n, NEW event1, event1 = accepted'[m], NEW S,
             S = Seen(<<event1.account, event1.instrument>>, m - 1)
      PROVE  /\ Before(m)' = S /\ VolumeOf(Before(m))' = VolumeOf(S)
             /\ SumFunctionOnSet(Squares', Before(m)') = SumFunctionOnSet(Squares, S)
  <2>1. PICK key : key = <<event1.account, event1.instrument>>
    OBVIOUS
  <2>2. m - 1 \in 0 .. Len(accepted)
    BY <1>1
  <2>3. Seen(key, m - 1) \subseteq 1 .. Len(accepted) /\ Seen(key, m - 1)' = Seen(key, m - 1)
    BY <2>2, SeenAfter
  <2>4. Before(m)' = Seen(key, m - 1)'
    BY <1>4, <2>1 DEF Before, Seen
  <2>5. S = Seen(key, m - 1) /\ S \in SUBSET (1 .. Len(accepted))
    BY <1>4, <2>1, <2>3
  <2>6. /\ SumFunctionOnSet(Quantities', S) = VolumeOf(S)
        /\ SumFunctionOnSet(Squares', S) = SumFunctionOnSet(Squares, S)
    BY <2>5, VolumesGrow
  <2> QED
    BY <1>3, <2>3, <2>4, <2>5, <2>6
<1>5. ASSUME NEW m \in 1 .. Len(accepted) PROVE IsOutlier(m)' <=> IsOutlier(m)
  <2>1. PICK event1 : event1 = accepted'[m]
    OBVIOUS
  <2>2. PICK S : S = Seen(<<event1.account, event1.instrument>>, m - 1)
    OBVIOUS
  <2>3. m \in 1 .. n /\ event1 = accepted[m]
    BY <1>1, <2>1
  <2>4. /\ Before(m)' = S /\ VolumeOf(Before(m))' = VolumeOf(S)
        /\ SumFunctionOnSet(Squares', Before(m)') = SumFunctionOnSet(Squares, S)
    BY <1>4, <2>1, <2>2, <2>3
  <2>5. Before(m) = S
    BY <2>2, <2>3 DEF Before
  <2>6. IsOutlier(m) <=> /\ event1.kind = "New"
                         /\ OutlierAmong(Cardinality(S), event1.qty, VolumeOf(S), SumFunctionOnSet(Squares, S))
    BY <2>3, <2>5, OutlierIs
  <2>7. IsOutlier(m)' <=> /\ event1.kind = "New"
                          /\ OutlierAmong(Cardinality(S), event1.qty, VolumeOf(S), SumFunctionOnSet(Squares, S))
    BY <1>2, <2>1, <2>4
  <2> QED
    BY <2>6, <2>7
<1>6. IsOutlier(n)' <=> OutlierOf(event, Seen(<<event.account, event.instrument>>, Len(accepted)))
  <2>1. PICK S : S = Seen(<<event.account, event.instrument>>, Len(accepted))
    OBVIOUS
  <2>2. n \in 1 .. n /\ n - 1 = Len(accepted)
    BY <1>1
  <2>3. /\ Before(n)' = S /\ VolumeOf(Before(n))' = VolumeOf(S)
        /\ SumFunctionOnSet(Squares', Before(n)') = SumFunctionOnSet(Squares, S)
    BY <1>1, <1>4, <2>1, <2>2
  <2> QED
    BY <1>1, <1>2, <2>1, <2>3 DEF OutlierOf
<1> QED
  BY <1>5, <1>6

\* The orders alerted are the outliers of the history.
AlertedOrders == {alerts[n].orders : n \in Of("StatisticalBaseline")}
Outliers == {n \in DOMAIN accepted : IsOutlier(n)}
OutlyingOrders == {{accepted[n].id} : n \in Outliers}
OutliersAlerted == AlertedOrders = OutlyingOrders

\* An accepted event alerts its order if it is an outlier, and keeps the earlier ones.
LEMMA OutliersStep ==
  ASSUME FeedOK, ProcessedOK, RecentOK, StatsOK, OutliersAlerted,
         NEW event, Arrives(event), NEW book, NEW at, Evaluate(event, book, at)
  PROVE  OutliersAlerted'
<1>0. PICK n : n = Len(accepted) + 1
  OBVIOUS
<1> DEFINE b == Baseline!StatAlerts(event, at)
           found == Detected(alerts, "StatisticalBaseline")
           found1 == Detected(alerts', "StatisticalBaseline")
<1>1. event \in Event /\ accepted \in Seq(Event) /\ accepted' = Append(accepted, event)
  BY DEF Arrives, ProcessedOK, Evaluate
<1>2. /\ Len(accepted) \in Nat /\ DOMAIN accepted = 1 .. Len(accepted) /\ DOMAIN accepted' = 1 .. n
      /\ \A m \in 1 .. Len(accepted) : accepted'[m] = accepted[m]
      /\ accepted'[n] = event
  BY <1>0, <1>1, AcceptedGrows
<1>3. IsSequence(alerts) /\ IsSequence(alerts')
  BY <1>1, AlertsAfter DEF ProcessedOK
<1>4. DOMAIN alerts = 1 .. Len(alerts) /\ DOMAIN alerts' = 1 .. Len(alerts')
  BY <1>3, SequenceIs
<1>5. Of("StatisticalBaseline") = found /\ Of("StatisticalBaseline")' = found1
  BY <1>4 DEF Of, Detected
<1>6. Adds(alerts', alerts, "StatisticalBaseline", b)
  BY <1>1, DetectedAfter
<1>7. PICK S : S = Seen(<<event.account, event.instrument>>, Len(accepted))
  OBVIOUS
<1> DEFINE outlier == OutlierOf(event, S)
<1>8. /\ outlier => \E x : b = <<x>> /\ x.orders = {event.id}
      /\ ~outlier => b = <<>>
  <2>1. PICK s : s = stats[<<event.account, event.instrument>>]
    OBVIOUS
  <2>2. <<event.account, event.instrument>> \in Baseline!StatsKeys /\ event.qty \in Nat
    BY <1>1 DEF Event, Baseline!StatsKeys
  <2>3. s \in Welfords /\ Summed(s, S)
    BY <1>7, <2>1, <2>2 DEF StatsOK
  <2>4. S \in SUBSET (1 .. Len(accepted))
    <3>1. Len(accepted) \in 0 .. Len(accepted)
      BY <1>2
    <3> QED
      BY <1>1, <1>7, <3>1, SeenAfter
  <2>5. VolumeOf(S) \in Nat /\ SumFunctionOnSet(Squares, S) \in Nat /\ Cardinality(S) \in Nat
    BY <1>1, <2>4, VolumesGrow, FS_CardinalityType
  <2>6. s.count >= MinSamples /\ Baseline!Outlier(s, event.qty)
          <=> OutlierAmong(Cardinality(S), event.qty, VolumeOf(S), SumFunctionOnSet(Squares, S))
    BY <2>2, <2>3, <2>5, OutlierByTheSums DEF Summed
  <2>7. outlier <=> event.kind = "New" /\ s.count >= MinSamples /\ Baseline!Outlier(s, event.qty)
    BY <2>6 DEF OutlierOf
  <2> HIDE DEF outlier
  <2> QED
    BY <2>1, <2>7 DEF Baseline!StatAlerts
<1>9. /\ \A m \in 1 .. Len(accepted) : IsOutlier(m)' <=> IsOutlier(m)
      /\ IsOutlier(n)' <=> outlier
  BY <1>0, <1>1, <1>7, OutliersAfter
<1>10. {alerts[k].orders : k \in found} = {{accepted[m].id} : m \in {m \in 1 .. Len(accepted) : IsOutlier(m)}}
  BY <1>2, <1>5 DEF OutliersAlerted, AlertedOrders, OutlyingOrders, Outliers
<1> HIDE DEF outlier, b, found, found1
<1>11. /\ \A m \in 1 .. n : m = n \/ m \in 1 .. Len(accepted)
       /\ n \in 1 .. n /\ \A m \in 1 .. Len(accepted) : m \in 1 .. n
  BY <1>0, <1>2
<1>12. ASSUME NEW h \in found1
       PROVE  \E m \in 1 .. n : IsOutlier(m)' /\ alerts'[h].orders = {accepted'[m].id}
  <2>1. CASE \E k \in found : alerts'[h] = alerts[k]
    <3>1. PICK k \in found : alerts'[h] = alerts[k]
      BY <2>1
    <3>2. PICK m \in 1 .. Len(accepted) : IsOutlier(m) /\ alerts[k].orders = {accepted[m].id}
      BY <1>10
    <3> QED
      BY <1>2, <1>9, <1>11, <3>1, <3>2
  <2>2. CASE \E k \in 1 .. Len(b) : alerts'[h] = b[k]
    <3>1. outlier
      BY <1>8, <2>2, NoAlert
    <3>2. PICK x : b = <<x>> /\ x.orders = {event.id}
      BY <1>8, <3>1
    <3>3. Len(b) = 1 /\ b[1] = x
      BY <3>2
    <3>4. alerts'[h] = x
      BY <2>2, <3>3
    <3> QED
      BY <1>2, <1>9, <1>11, <3>1, <3>2, <3>4
  <2> QED
    BY <1>6, <2>1, <2>2 DEF Adds, found, found1
<1>13. ASSUME NEW m \in 1 .. n, IsOutlier(m)'
       PROVE  \E h \in found1 : alerts'[h].orders = {accepted'[m].id}
  <2>1. CASE m \in 1 .. Len(accepted)
    <3>1. IsOutlier(m)
      BY <1>9, <1>13, <2>1
    <3>2. PICK k \in found : alerts[k].orders = {accepted[m].id}
      BY <1>10, <2>1, <3>1
    <3>3. PICK h \in found1 : alerts'[h] = alerts[k]
      BY <1>6 DEF Adds, found, found1
    <3> QED
      BY <1>2, <2>1, <3>2, <3>3
  <2>2. CASE m = n
    <3>1. PICK x : b = <<x>> /\ x.orders = {event.id}
      BY <1>8, <1>9, <1>13, <2>2
    <3>2. 1 \in 1 .. Len(b) /\ b[1] = x
      BY <3>1
    <3>3. PICK h \in found1 : alerts'[h] = x
      BY <1>6, <3>2 DEF Adds, found1
    <3> QED
      BY <1>2, <2>2, <3>1, <3>3
  <2> QED
    BY <1>11, <2>1, <2>2
<1>14. {alerts'[k].orders : k \in found1} = {{accepted'[m].id} : m \in {m \in 1 .. n : IsOutlier(m)'}}
  <2> DEFINE X == {m \in 1 .. n : IsOutlier(m)'}
  <2>1. \A h \in found1 : \E m \in X : alerts'[h].orders = {accepted'[m].id}
    BY <1>12
  <2>2. \A m \in X : \E h \in found1 : alerts'[h].orders = {accepted'[m].id}
    BY <1>13
  <2> HIDE DEF X
  <2> DEFINE A == {alerts'[k].orders : k \in found1}
             B == {{accepted'[m].id} : m \in X}
  <2>3. ASSUME NEW x \in A PROVE x \in B
    <3>1. PICK h \in found1 : x = alerts'[h].orders
      BY DEF A
    <3> QED
      BY <2>1, <3>1
  <2>4. ASSUME NEW x \in B PROVE x \in A
    <3>1. PICK m \in X : x = {accepted'[m].id}
      BY DEF B
    <3> QED
      BY <2>2, <3>1
  <2>5. A = B
    <3> HIDE DEF A, B
    <3> QED
      BY <2>3, <2>4
  <2> QED
    BY <2>5 DEF X
<1>15. AlertedOrders' = {alerts'[k].orders : k \in found1}
  BY <1>5 DEF AlertedOrders
<1>16. Outliers' = {m \in 1 .. n : IsOutlier(m)'}
  BY <1>2 DEF Outliers
<1>17. OutlyingOrders' = {{accepted'[m].id} : m \in Outliers'}
  BY DEF OutlyingOrders
<1> QED
  BY <1>14, <1>15, <1>16, <1>17 DEF OutliersAlerted

-----------------------------------------------------------------------------
\* Unique ids

\* An id is placed once.
LEMMA PlacedOnceStep == UniqueIds /\ FeedOK /\ PlacedOnce /\ [Next]_vars => PlacedOnce'
<1> SUFFICES ASSUME UniqueIds, FeedOK, PlacedOnce, [Next]_vars PROVE PlacedOnce'
  OBVIOUS
<1>1. CASE UNCHANGED vars
  BY <1>1 DEF vars, PlacedOnce, Placed
<1>2. ASSUME NEW event, Arrives(event), published' = Append(published, event) PROVE PlacedOnce'
  <2> DEFINE n == Len(published) + 1
             added == IF event.kind \in {"New", "Replace"} THEN {n} ELSE {}
  <2>1. /\ \A m \in 1 .. Len(published) : published'[m] = published[m]
        /\ published'[n] = event
        /\ Placed' = Placed \cup added
    BY <1>2, PublishedGrows
  <2>2. /\ Placed \subseteq 1 .. Len(published)
        /\ \A m \in Placed : published'[m] = published[m] /\ published[m].id \in 1 .. FreshId - 1
    BY <2>1, PublishedEvents DEF Placed
  <2>3. event.kind \in {"New", "Replace"} => event.id = FreshId
    BY <1>2 DEF Arrives, IsNew, IsCancel, IsReplace, IsExecution, UniqueIds, FeedOK
  <2>4. FreshId \notin 1 .. FreshId - 1
    BY PublishedEvents
  <2> HIDE DEF n
  <2> QED
    BY <2>1, <2>2, <2>3, <2>4 DEF PlacedOnce
<1> QED
  BY <1>1, <1>2, NextSends

\* What a follow-up event says of the order it concerns is what is tracked of it.
LEMMA FollowUpsAgree ==
  ASSUME UniqueIds, FeedOK, PlacedOnce, OriginOK, NEW event, Arrives(event),
         NEW id \in DOMAIN tracked,
         \/ event.kind \in {"Cancel", "Replace"} /\ id = event.orig
         \/ event.kind = "Execution" /\ id = event.id
  PROVE  tracked[id].instrument = event.instrument /\ tracked[id].side = event.side
<1>1. PICK n \in Placed : published[n].id = id /\ About(event, n)
  BY DEF Arrives, IsNew, IsCancel, IsReplace, IsExecution
<1>2. PICK m \in Placed : /\ published[m].id = id
                          /\ Spoofing!KeyOf(tracked[id]) = Spoofing!KeyOf(published[m])
  BY DEF OriginOK
<1>3. m = n
  BY <1>1, <1>2 DEF PlacedOnce
<1> QED
  BY <1>1, <1>2, <1>3 DEF Spoofing!KeyOf, About

\* A tracked order stays the one published under its id.
LEMMA OriginStep ==
  FeedOK /\ TrackingOK /\ OriginOK /\ [Next]_vars => OriginOK'
<1> SUFFICES ASSUME FeedOK, TrackingOK, OriginOK, [Next]_vars PROVE OriginOK'
  OBVIOUS
<1>1. CASE UNCHANGED vars
  BY <1>1 DEF vars, processVars, detectorVars, OriginOK, Placed
<1>2. ASSUME NEW event, Arrives(event), published' = Append(published, event),
             Deliver(event) \/ LoseOnTheRing(event), NEW id \in DOMAIN tracked'
      PROVE  \E n \in Placed' : /\ published'[n].id = id
                                /\ Spoofing!KeyOf(tracked'[id]) = Spoofing!KeyOf(published'[n])
  <2> DEFINE last == Len(published) + 1
  <2>1. /\ \A m \in 1 .. Len(published) : published'[m] = published[m]
        /\ published'[last] = event /\ Placed \subseteq Placed'
        /\ Placed' = Placed \cup (IF event.kind \in {"New", "Replace"} THEN {last} ELSE {})
    BY <1>2, PublishedGrows
  <2>2. Placed \subseteq 1 .. Len(published)
    BY PublishedEvents DEF Placed
  <2>3. CASE id \in DOMAIN tracked /\ Spoofing!KeyOf(tracked'[id]) = Spoofing!KeyOf(tracked[id])
    BY <2>1, <2>2, <2>3 DEF OriginOK
  <2>4. CASE UNCHANGED tracked
    BY <1>2, <2>3, <2>4
  <2>5. ASSUME NEW book, Tracks(book, event)
        PROVE  \E n \in Placed' : /\ published'[n].id = id
                                  /\ Spoofing!KeyOf(tracked'[id]) = Spoofing!KeyOf(published'[n])
    <3>1. CASE Begins(book, event, id)
      <4>1. event \in Event
        BY <1>2 DEF Arrives
      <4>2. Spoofing!KeyOf(tracked'[id]) = Spoofing!KeyOf(event) /\ last \in Placed'
        BY <2>1, <3>1, <4>1, PlacementOf DEF Begins, Spoofing!KeyOf
      <4> HIDE DEF last
      <4> QED
        BY <2>1, <3>1, <4>2 DEF Begins
    <3>2. CASE Continues(event, id)
      BY <2>3, <3>2 DEF Continues, Spoofing!KeyOf
    <3> QED
      BY <1>2, <2>5, <3>1, <3>2, TrackedAfter
  <2> QED
    BY <1>2, <2>4, <2>5, EvaluateTracks
       DEF Deliver, LoseOnTheRing, Process, Skip, Evaluate, processVars, detectorVars
<1> QED
  BY <1>1, <1>2, NextSends DEF OriginOK

\* An order that leaves the book and is no longer tracked.
LEMMA ErasedMirrors ==
  ASSUME NEW book, NEW entries, EntriesOK(entries), NEW i, Mirrors(book, entries, i), NEW id
  PROVE  Mirrors(book \ Spoofing!Named(book, id), Spoofing!Erased(entries, id), i)
<1> DEFINE rest == book \ Spoofing!Named(book, id)
           erased == Spoofing!Erased(entries, id)
<1>1. /\ DOMAIN erased = DOMAIN entries \ {id}
      /\ \A x \in DOMAIN entries \ {id} : erased[x] = entries[x]
  BY ErasedEntries
<1>2. rest \subseteq book /\ \A o \in book : o \in rest <=> o.id # id
  BY DEF Spoofing!Named
<1> HIDE DEF rest, erased
<1>3. \A o \in rest : /\ o.id \in DOMAIN erased /\ erased[o.id].instrument = i
                      /\ erased[o.id].side = o.side /\ erased[o.id].left = o.qty
  BY <1>1, <1>2 DEF Mirrors
<1>4. \A x \in DOMAIN erased : erased[x].instrument = i => \E o \in rest : o.id = x
  BY <1>1, <1>2 DEF Mirrors
<1>5. \A o, p \in rest : o.id = p.id => o = p
  BY <1>2 DEF Mirrors
<1> QED
  BY <1>3, <1>4, <1>5 DEF Mirrors, rest, erased

\* An order that joins the book and is tracked from then on.
LEMMA EnteredMirrors ==
  ASSUME NEW book, NEW entries, EntriesOK(entries), NEW i, Mirrors(book, entries, i),
         NEW id, id \notin DOMAIN entries, NEW p, IsPlacement(p),
         NEW o, o.id = id, o.side = p.side, o.qty = p.left
  PROVE  Mirrors(IF p.instrument = i THEN book \cup {o} ELSE book, Spoofing!Entered(entries, id, p), i)
<1> DEFINE entered == Spoofing!Entered(entries, id, p)
<1>1. /\ DOMAIN entered = DOMAIN entries \cup {id} /\ entered[id] = p
      /\ \A x \in DOMAIN entries : entered[x] = entries[x] /\ x # id
  BY DEF Spoofing!Entered
<1>2. \A q \in book : q.id \in DOMAIN entries /\ q.id # id
  BY DEF Mirrors
<1> HIDE DEF entered
<1>3. CASE p.instrument = i
  <2>1. \A q \in book \cup {o} : /\ q.id \in DOMAIN entered /\ entered[q.id].instrument = i
                                 /\ entered[q.id].side = q.side /\ entered[q.id].left = q.qty
    BY <1>1, <1>3 DEF Mirrors
  <2>2. \A x \in DOMAIN entered : entered[x].instrument = i => \E q \in book \cup {o} : q.id = x
    BY <1>1 DEF Mirrors
  <2>3. \A q, r \in book \cup {o} : q.id = r.id => q = r
    BY <1>2 DEF Mirrors
  <2> QED
    BY <1>3, <2>1, <2>2, <2>3 DEF Mirrors, entered
<1>4. CASE p.instrument # i
  BY <1>1, <1>4 DEF Mirrors, entered
<1> QED
  BY <1>3, <1>4

\* An order that is filled in part.
LEMMA ReducedMirrors ==
  ASSUME NEW book, NEW entries, EntriesOK(entries), NEW i, Mirrors(book, entries, i),
         NEW old \in book, NEW left \in Nat, NEW next, next = [entries EXCEPT ![old.id].left = left],
         NEW less, less.id = old.id, less.side = old.side, less.qty = left
  PROVE  Mirrors((book \ {old}) \cup {less}, next, i)
<1> DEFINE id == old.id
           rest == (book \ {old}) \cup {less}
<1>1. id \in DOMAIN entries /\ entries[id].instrument = i /\ entries[id].side = old.side
  BY DEF Mirrors
<1>2. /\ DOMAIN next = DOMAIN entries /\ next[id].left = left /\ next[id].instrument = entries[id].instrument
      /\ next[id].side = entries[id].side
      /\ \A x \in DOMAIN entries \ {id} : next[x] = entries[x]
  BY <1>1, ReducedEntries
<1>3. \A o \in rest : o = less \/ (o \in book /\ o.id # id)
  BY DEF Mirrors
<1>4. \A o \in book : o # old => o \in rest
  OBVIOUS
<1>5. less \in rest
  OBVIOUS
<1> HIDE DEF id, rest
<1>6. less.id = id /\ less.side = old.side /\ less.qty = left /\ old.id = id
  BY DEF id
<1>7. \A o \in rest : /\ o.id \in DOMAIN next /\ next[o.id].instrument = i
                      /\ next[o.id].side = o.side /\ next[o.id].left = o.qty
  BY <1>1, <1>2, <1>3, <1>6 DEF Mirrors
<1>8. \A x \in DOMAIN next : next[x].instrument = i => \E o \in rest : o.id = x
  BY <1>1, <1>2, <1>4, <1>5, <1>6 DEF Mirrors
<1>9. \A o, p \in rest : o.id = p.id => o = p
  BY <1>3, <1>6 DEF Mirrors
<1> QED
  BY <1>7, <1>8, <1>9 DEF Mirrors, rest

\* The book of another instrument is none the wiser.
LEMMA OthersMirror ==
  ASSUME NEW book, NEW entries, NEW next, NEW i, Mirrors(book, entries, i), DOMAIN next = DOMAIN entries,
         \A x \in DOMAIN entries : next[x].instrument = entries[x].instrument,
         \A x \in DOMAIN entries : entries[x].instrument = i => next[x] = entries[x]
  PROVE  Mirrors(book, next, i)
BY DEF Mirrors

\* Without an order of that id, nothing leaves.
LEMMA NobodyNamed ==
  ASSUME NEW book, NEW entries, NEW i, Mirrors(book, entries, i), NEW id,
         id \in DOMAIN entries => entries[id].instrument # i
  PROVE  book \ Spoofing!Named(book, id) = book
BY DEF Mirrors, Spoofing!Named

\* The order with an id is the only one.
LEMMA OnlyOneNamed ==
  ASSUME NEW book, NEW entries, NEW i, Mirrors(book, entries, i), NEW old \in book
  PROVE  Spoofing!Named(book, old.id) = {old}
BY DEF Mirrors, Spoofing!Named

\* No order rests under the id that is given out next.
LEMMA FreshIdIsFree ==
  ASSUME FeedOK, TrackingOK, MirrorOK, NEW i \in Instruments
  PROVE  \A book \in SUBSET books[i] : ~Spoofing!Resting(book, FreshId)
BY FreeIds DEF MirrorOK, Mirrors, Spoofing!Resting, Spoofing!Named

\* A New is added to its book and tracked.
LEMMA NewMirrors ==
  ASSUME UniqueIds, FeedOK, TrackingOK, MirrorOK, NEW event, Arrives(event), event.kind = "New",
         tracked' = Spoofing!Entered(tracked, event.id,
                      Spoofing!Placement(Spoofing!Applied(books[event.instrument], event), event)),
         NEW j \in Instruments
  PROVE  Mirrors(IF j = event.instrument THEN Spoofing!Applied(books[j], event) ELSE books[j], tracked', j)
<1> DEFINE p == Spoofing!Placement(Spoofing!Applied(books[event.instrument], event), event)
           o == Spoofing!Entry(event)
<1>1. event \in Event /\ event.id = FreshId
  BY DEF Arrives, IsNew, IsCancel, IsReplace, IsExecution, UniqueIds, FeedOK
<1>2. EntriesOK(tracked) /\ Mirrors(books[j], tracked, j) /\ event.id \notin DOMAIN tracked
  BY <1>1, FreeIds DEF TrackingOK, MirrorOK
<1>3. /\ IsPlacement(p) /\ p.instrument = event.instrument /\ p.side = event.side /\ p.left = event.qty
  BY <1>1, PlacementOf
<1>4. o.id = event.id /\ o.side = event.side /\ o.qty = event.qty
  BY DEF Spoofing!Entry
<1>5. tracked' = Spoofing!Entered(tracked, event.id, p)
  OBVIOUS
<1>6. Spoofing!Applied(books[j], event) = books[j] \cup {o}
  BY <1>1, FreshIdIsFree DEF Spoofing!Applied, Spoofing!Insert
<1> HIDE DEF p, o
<1>7. Mirrors(IF p.instrument = j THEN books[j] \cup {o} ELSE books[j],
              Spoofing!Entered(tracked, event.id, p), j)
  BY <1>2, <1>3, <1>4, EnteredMirrors
<1> QED
  BY <1>3, <1>5, <1>6, <1>7

\* A Cancel takes the order out of its book and out of what is tracked.
LEMMA CancelMirrors ==
  ASSUME UniqueIds, FeedOK, TrackingOK, PlacedOnce, OriginOK, MirrorOK,
         NEW event, Arrives(event), event.kind \in {"Cancel", "Replace"}, NEW j \in Instruments
  PROVE  Mirrors(IF j = event.instrument THEN books[j] \ Spoofing!Named(books[j], event.orig)
                 ELSE books[j], Spoofing!Erased(tracked, event.orig), j)
<1>1. EntriesOK(tracked) /\ Mirrors(books[j], tracked, j)
  BY DEF TrackingOK, MirrorOK
<1>2. Mirrors(books[j] \ Spoofing!Named(books[j], event.orig), Spoofing!Erased(tracked, event.orig), j)
  BY <1>1, ErasedMirrors
<1>3. CASE j = event.instrument
  BY <1>2, <1>3
<1>4. CASE j # event.instrument
  <2>1. event.orig \in DOMAIN tracked => tracked[event.orig].instrument # j
    BY <1>4, FollowUpsAgree
  <2>2. books[j] \ Spoofing!Named(books[j], event.orig) = books[j]
    BY <1>1, <2>1, NobodyNamed
  <2> QED
    BY <1>2, <1>4, <2>2
<1> QED
  BY <1>3, <1>4

\* What a Replace that is accepted does to the book: the old order gives way to one with
\* the fresh id on the same side.
LEMMA ReplaceAmends ==
  ASSUME UniqueIds, FeedOK, ProcessedOK, TrackingOK, PlacedOnce, OriginOK, MirrorOK,
         NEW event, Arrives(event), event.kind = "Replace",
         Spoofing!Resting(books[event.instrument], event.orig)
  PROVE  Spoofing!Applied(books[event.instrument], event)
           = (books[event.instrument] \ Spoofing!Named(books[event.instrument], event.orig))
               \cup {Spoofing!Entry(event)}
<1> DEFINE b == books[event.instrument]
           old == Spoofing!OrderOf(b, event.orig)
           rest == b \ {old}
<1>1. event \in Event /\ event.instrument \in Instruments /\ event.id = FreshId
  BY DEF Arrives, Event, IsNew, IsCancel, IsReplace, IsExecution
<1>2. b \in SUBSET RestingOrder /\ Mirrors(b, tracked, event.instrument)
  BY <1>1 DEF ProcessedOK, MirrorOK
<1>3. old \in b /\ old.id = event.orig
  BY <1>2, OrderNamed
<1>4. Spoofing!Named(b, event.orig) = {old}
  BY <1>2, <1>3, OnlyOneNamed
<1>5. old.side = event.side
  <2>1. event.orig \in DOMAIN tracked /\ tracked[event.orig].side = old.side
    BY <1>2, <1>3 DEF Mirrors
  <2> QED
    BY <2>1, FollowUpsAgree
<1>6. Spoofing!Insert(rest, event) = rest \cup {Spoofing!Entry(event)}
  <2>1. ~Spoofing!Resting(rest, event.id)
    BY <1>1, FreshIdIsFree
  <2> QED
    BY <2>1 DEF Spoofing!Insert
<1>7. [Spoofing!Entry(event) EXCEPT !.side = old.side] = Spoofing!Entry(event)
  BY <1>5 DEF Spoofing!Entry
<1>8. Spoofing!Amend(b, event) = rest \cup {Spoofing!Entry(event)}
  BY <1>6, <1>7 DEF Spoofing!Amend
<1> HIDE DEF old
<1> QED
  BY <1>4, <1>8 DEF Spoofing!Applied

\* An accepted Replace moves what is tracked to the new order.
LEMMA ReplaceMirrors ==
  ASSUME UniqueIds, FeedOK, ProcessedOK, TrackingOK, PlacedOnce, OriginOK, MirrorOK,
         NEW event, Arrives(event), event.kind = "Replace",
         Spoofing!Resting(books[event.instrument], event.orig),
         tracked' = Spoofing!Entered(Spoofing!Erased(tracked, event.orig), event.id,
                      Spoofing!Placement(Spoofing!Applied(books[event.instrument], event), event)),
         NEW j \in Instruments
  PROVE  Mirrors(IF j = event.instrument THEN Spoofing!Applied(books[j], event) ELSE books[j], tracked', j)
<1> DEFINE p == Spoofing!Placement(Spoofing!Applied(books[event.instrument], event), event)
           o == Spoofing!Entry(event)
           erased == Spoofing!Erased(tracked, event.orig)
           rest == IF j = event.instrument THEN books[j] \ Spoofing!Named(books[j], event.orig)
                   ELSE books[j]
<1>1. event \in Event /\ event.id = FreshId
  BY DEF Arrives, IsNew, IsCancel, IsReplace, IsExecution
<1>2. Mirrors(rest, erased, j)
  <2>1. Mirrors(IF j = event.instrument THEN books[j] \ Spoofing!Named(books[j], event.orig)
                ELSE books[j], Spoofing!Erased(tracked, event.orig), j)
    BY CancelMirrors
  <2> QED
    BY <2>1
<1>3. EntriesOK(erased) /\ event.id \notin DOMAIN erased
  <2>1. EntriesOK(erased) /\ DOMAIN erased = DOMAIN tracked \ {event.orig}
    BY ErasedEntries DEF TrackingOK
  <2>2. event.id \notin DOMAIN tracked
    BY <1>1, FreeIds
  <2> QED
    BY <2>1, <2>2
<1>4. /\ IsPlacement(p) /\ p.instrument = event.instrument /\ p.side = event.side /\ p.left = event.qty
  BY <1>1, PlacementOf
<1>5. o.id = event.id /\ o.side = event.side /\ o.qty = event.qty
  BY DEF Spoofing!Entry
<1>6. j = event.instrument => Spoofing!Applied(books[j], event) = rest \cup {o}
  BY ReplaceAmends
<1>7. j # event.instrument => rest = books[j]
  OBVIOUS
<1>8. tracked' = Spoofing!Entered(erased, event.id, p)
  OBVIOUS
<1> HIDE DEF p, o, erased, rest
<1>9. Mirrors(IF p.instrument = j THEN rest \cup {o} ELSE rest, Spoofing!Entered(erased, event.id, p), j)
  BY <1>2, <1>3, <1>4, <1>5, EnteredMirrors
<1> QED
  BY <1>4, <1>6, <1>7, <1>8, <1>9

\* An accepted fill takes the same quantity from the order and from what is tracked of it.
LEMMA ExecutionMirrors ==
  ASSUME UniqueIds, FeedOK, ProcessedOK, TrackingOK, PlacedOnce, OriginOK, MirrorOK,
         NEW event, Arrives(event), event.kind = "Execution",
         ~Spoofing!Rejects(books[event.instrument], event), NEW book, Tracks(book, event),
         NEW j \in Instruments
  PROVE  Mirrors(IF j = event.instrument THEN Spoofing!Applied(books[j], event) ELSE books[j], tracked', j)
<1> DEFINE i == event.instrument
           b == books[i]
           old == Spoofing!OrderOf(b, event.id)
           left == old.qty - event.qty
           less == [old EXCEPT !.qty = left]
<1>1. event \in Event /\ i \in Instruments
  BY DEF Arrives, Event
<1>2. b \in SUBSET RestingOrder /\ Mirrors(b, tracked, i) /\ Mirrors(books[j], tracked, j)
      /\ EntriesOK(tracked)
  BY <1>1 DEF ProcessedOK, MirrorOK, TrackingOK
<1>3. Spoofing!Resting(b, event.id) /\ ~Spoofing!Overfills(b, event)
  BY DEF Spoofing!Rejects
<1>4. old \in b /\ old.id = event.id
  BY <1>2, <1>3, OrderNamed
<1>5. old \in RestingOrder /\ old.qty \in Nat /\ event.qty \in Nat
  BY <1>1, <1>2, <1>4 DEF RestingOrder, Event
<1>6. left \in Nat /\ (left <= 0 <=> old.qty = event.qty)
  BY <1>3, <1>5 DEF Spoofing!Overfills
<1>7. /\ event.id \in DOMAIN tracked /\ tracked[event.id].left = old.qty
      /\ tracked[event.id].instrument = i
  BY <1>2, <1>4 DEF Mirrors
<1>8. Spoofing!Named(b, event.id) = {old}
  BY <1>2, <1>4, OnlyOneNamed
<1>9. Spoofing!Applied(b, event) = IF old.qty = event.qty THEN b \ {old} ELSE (b \ {old}) \cup {less}
  BY <1>3 DEF Spoofing!Applied, Spoofing!Fill, Spoofing!Rejects
<1>10. less.id = event.id /\ less.side = old.side /\ less.qty = left
  BY <1>4, <1>5 DEF RestingOrder
<1>11. IF left <= 0 THEN tracked' = Spoofing!Erased(tracked, event.id)
       ELSE tracked' = [tracked EXCEPT ![event.id].left = left]
  BY <1>7 DEF Tracks
<1> HIDE DEF old, left, less
<1>12. CASE left <= 0
  <2>1. Mirrors(books[j] \ Spoofing!Named(books[j], event.id), tracked', j)
    BY <1>2, <1>11, <1>12, ErasedMirrors
  <2>2. CASE j = i
    BY <1>6, <1>8, <1>9, <1>12, <2>1, <2>2
  <2>3. CASE j # i
    <3>1. books[j] \ Spoofing!Named(books[j], event.id) = books[j]
      BY <1>2, <1>7, <2>3, NobodyNamed
    <3> QED
      BY <2>1, <2>3, <3>1
  <2> QED
    BY <2>2, <2>3
<1>13. CASE ~(left <= 0)
  <2>1. /\ event.id \in DOMAIN tracked /\ left \in Nat
        /\ tracked' = [tracked EXCEPT ![event.id].left = left]
    BY <1>6, <1>7, <1>11, <1>13
  <2>2. CASE j = i
    <3>1. Mirrors((b \ {old}) \cup {less}, tracked', i)
      BY <1>2, <1>4, <1>10, <2>1, ReducedMirrors
    <3> QED
      BY <1>6, <1>9, <1>13, <2>2, <3>1
  <2>3. CASE j # i
    <3>1. /\ DOMAIN tracked' = DOMAIN tracked
          /\ tracked'[event.id].instrument = tracked[event.id].instrument
          /\ \A x \in DOMAIN tracked \ {event.id} : tracked'[x] = tracked[x]
      BY <1>2, <2>1, ReducedEntries
    <3> QED
      BY <1>2, <1>7, <2>3, <3>1, OthersMirror
  <2> QED
    BY <2>2, <2>3
<1> QED
  BY <1>12, <1>13

\* An event the book rejects leaves it as it was.
LEMMA RejectedChangesNothing ==
  ASSUME FeedOK, ProcessedOK, TrackingOK, MirrorOK, UniqueIds, NEW event, Arrives(event),
         Spoofing!Rejects(books[event.instrument], event)
  PROVE  Spoofing!Applied(books[event.instrument], event) = books[event.instrument]
<1> DEFINE b == books[event.instrument]
<1>1. event \in Event /\ event.instrument \in Instruments
      /\ (event.kind \in {"New", "Replace"} => event.id = FreshId)
  BY DEF Arrives, Event, IsNew, IsCancel, IsReplace, IsExecution, UniqueIds, FeedOK
<1>2. \A rest \in SUBSET b : ~Spoofing!Resting(rest, FreshId)
  BY <1>1, FreshIdIsFree
<1>3. CASE event.kind = "New"
  BY <1>1, <1>2, <1>3 DEF Spoofing!Rejects
<1>4. CASE event.kind = "Execution"
  BY <1>4 DEF Spoofing!Applied
<1>5. CASE event.kind = "Replace"
  <2>1. ~Spoofing!TakesOtherId(b, event)
    BY <1>1, <1>2, <1>5 DEF Spoofing!TakesOtherId
  <2> QED
    BY <1>5, <2>1 DEF Spoofing!Rejects, Spoofing!Applied
<1> QED
  BY <1>3, <1>4, <1>5 DEF Spoofing!Rejects

\* A step keeps what is tracked the mirror of the books.
LEMMA MirrorStep ==
  UniqueIds /\ FeedOK /\ ProcessedOK /\ TrackingOK /\ PlacedOnce /\ OriginOK /\ MirrorOK /\ [Next]_vars
  => MirrorOK'
<1> SUFFICES ASSUME UniqueIds, FeedOK, ProcessedOK, TrackingOK, PlacedOnce, OriginOK, MirrorOK,
                    [Next]_vars
             PROVE  MirrorOK'
  OBVIOUS
<1>1. CASE UNCHANGED <<books, tracked>>
  BY <1>1 DEF MirrorOK, Mirrors
<1>2. ASSUME NEW event, Arrives(event), Process(event) PROVE MirrorOK'
  <2> DEFINE i == event.instrument
             book == Spoofing!Applied(books[i], event)
             at == sequence[i] + 1
  <2>1. i \in Instruments /\ event.kind \in {"New", "Cancel", "Replace", "Execution"}
    BY <1>2 DEF Arrives, Event
  <2>2. books' = [books EXCEPT ![i] = book] /\ (Skip(event) \/ Evaluate(event, book, at))
    BY <1>2 DEF Process
  <2>3. \A j \in Instruments : books'[j] = IF j = i THEN Spoofing!Applied(books[j], event) ELSE books[j]
    BY <2>1, <2>2 DEF ProcessedOK
  <2>4. CASE Skip(event)
    <3>1. book = books[i] /\ tracked' = tracked
      BY <1>2, <2>4, RejectedChangesNothing DEF Skip, detectorVars
    <3> HIDE DEF book
    <3>2. books' = books
      BY <2>2, <3>1 DEF ProcessedOK
    <3> QED
      BY <1>1, <3>1, <3>2
  <2>5. CASE Evaluate(event, book, at)
    <3>1. ~Spoofing!Rejects(books[i], event) /\ Tracks(book, event)
      BY <2>5, EvaluateTracks DEF Evaluate
    <3>2. ASSUME NEW j \in Instruments
          PROVE  Mirrors(IF j = i THEN Spoofing!Applied(books[j], event) ELSE books[j], tracked', j)
      <4>1. CASE event.kind = "New"
        BY <1>2, <3>1, <4>1, NewMirrors DEF Tracks
      <4>2. CASE event.kind = "Cancel"
        <5>1. tracked' = Spoofing!Erased(tracked, event.orig)
          BY <3>1, <4>2 DEF Tracks
        <5>2. Spoofing!Applied(books[j], event) = books[j] \ Spoofing!Named(books[j], event.orig)
          BY <4>2 DEF Spoofing!Applied
        <5> QED
          BY <1>2, <4>2, <5>1, <5>2, CancelMirrors
      <4>3. CASE event.kind = "Replace"
        <5>1. Spoofing!Resting(books[i], event.orig)
          BY <3>1, <4>3 DEF Spoofing!Rejects
        <5>2. tracked' = Spoofing!Entered(Spoofing!Erased(tracked, event.orig), event.id,
                                          Spoofing!Placement(book, event))
          BY <3>1, <4>3 DEF Tracks
        <5> QED
          BY <1>2, <4>3, <5>1, <5>2, ReplaceMirrors
      <4>4. CASE event.kind = "Execution"
        BY <1>2, <3>1, <4>4, ExecutionMirrors
      <4> QED
        BY <2>1, <4>1, <4>2, <4>3, <4>4
    <3>3. \A j \in Instruments : Mirrors(books'[j], tracked', j)
      BY <2>3, <3>2
    <3> QED
      BY <3>3 DEF MirrorOK, Mirrors
  <2> QED
    BY <2>2, <2>4, <2>5
<1> QED
  BY <1>1, <1>2, NextSends
     DEF vars, processVars, detectorVars, Deliver, LoseOnTheRing

-----------------------------------------------------------------------------
\* The theorems

\* The invariant holds before the first event.
LEMMA SurveillanceStarts == Init => SurveillanceInv
<1> SUFFICES ASSUME Init PROVE SurveillanceInv
  OBVIOUS
<1>1. /\ feed \in Feeds /\ published = <<>> /\ lost = 0
      /\ accepted = <<>> /\ books = [i \in Instruments |-> {}] /\ sequence = [i \in Instruments |-> 0]
      /\ skipped = 0 /\ alerts = <<>> /\ tracked = <<>> /\ counts = [k \in Spoofing!Keys |-> 0]
      /\ ambient = [k \in Spoofing!SideKeys |-> [moves |-> <<>>, samples |-> <<>>, last |-> NoPrice]]
  BY DEF Init, ProcessInit, Spoofing!SpoofInit
<1>2. FeedOK
  <2>1. IdsUsed = {}
    BY <1>1 DEF IdsUsed
  <2>2. FreshId = 1
    BY <2>1, FS_EmptySet DEF FreshId
  <2>3. feed.length \in Nat /\ feed.drops \in Nat
    BY <1>1, FeedsAssumption
  <2>4. published \in Seq(Event) /\ Len(published) = 0
    BY <1>1
  <2> QED
    BY <1>1, <2>1, <2>2, <2>3, <2>4 DEF FeedOK
<1>3. ProcessedOK
  BY <1>1, NoAlert DEF ProcessedOK
<1>7. RecentOK
  <2>1. recent = [k \in Instruments \X Sides |-> <<>>]
    BY DEF Init, ProcessInit, Fronting!FrontInit, Sides
  <2>2. \A key : Remaining(key) = {}
    BY <1>1 DEF Remaining
  <2>3. \A key : RecentOn(<<>>, key)
    BY <2>2, NoAlert, FS_EmptySet DEF RecentOn
  <2> QED
    BY <2>1, <2>3 DEF RecentOK
<1>4. TrackingOK
  BY <1>1 DEF TrackingOK, EntriesOK
<1>5. LifecycleOK /\ SpoofingAlertsNameOneLifecycle
  BY <1>1 DEF LifecycleOK, SpoofingAlertsNameOneLifecycle, Range
<1>6. ClosingOK
  <2> DEFINE none == [k \in Closing!AccountKeys |-> 0]
             total == [i \in Instruments |-> 0]
             trades == [k \in Closing!AccountKeys |-> <<>>]
             group == [a \in Accounts |-> NoAccount]
  <2>1. /\ none \in [Closing!AccountKeys -> Nat] /\ total \in [Instruments -> Nat]
        /\ trades \in [Closing!AccountKeys -> Seq(Nat)]
        /\ group \in [Accounts -> Accounts \cup {NoAccount}]
    OBVIOUS
  <2>2. close = [total |-> total, volume |-> none, trades |-> trades, alerted |-> {}, group |-> group]
    BY DEF Init, ProcessInit, Closing!CloseInit
  <2> HIDE DEF none, total, trades, group
  <2>3. close \in CloseStates
    BY <2>1, <2>2 DEF CloseStates
  <2>4. Len(alerts) = 0
    BY <1>1, NoAlert
  <2> QED
    BY <2>3, <2>4 DEF ClosingOK, GroupsOK
<1> QED
  BY <1>2, <1>3, <1>4, <1>5, <1>6, <1>7 DEF SurveillanceInv

\* And after every step: each part from those before it.
LEMMA SurveillanceInvariant == Spec => []SurveillanceInv
<1>1. SurveillanceInv /\ [Next]_vars => SurveillanceInv'
  BY FeedStep, ProcessedStep, RecentStep, TrackingStep, LifecycleStep, SpoofingStep, ClosingStep
     DEF SurveillanceInv
<1> QED
  BY <1>1, SurveillanceStarts, PTL DEF Spec

\* Every alert of the spoofing detector is about one lifecycle that its account placed,
\* left alone but for fills, and cancelled, for every feed: also when ids come again, the
\* clock goes back and the ring buffer loses events.
THEOREM SpoofingAlertsAreOfOneLifecycle == Spec => []SpoofingAlertsNameOneLifecycle
<1>1. SurveillanceInv => SpoofingAlertsNameOneLifecycle
  BY DEF SurveillanceInv
<1> QED
  BY <1>1, SurveillanceInvariant, PTL

\* No account is in two alerts about the close of an instrument, whatever groups merge
\* after the first.
THEOREM CloseAlertsAreOncePerGroup == Spec => []OneAlertPerGroup
<1>1. SurveillanceInv => OneAlertPerGroup
  <2> SUFFICES ASSUME SurveillanceInv PROVE OneAlertPerGroup
    OBVIOUS
  <2>1. DOMAIN alerts = 1 .. Len(alerts)
    BY SequenceIs DEF SurveillanceInv, ProcessedOK
  <2>2. GroupsOK(close, alerts)
    BY DEF SurveillanceInv, ClosingOK
  <2> QED
    BY <2>1, <2>2 DEF OneAlertPerGroup, GroupsOK, IsClosing
<1> QED
  BY <1>1, SurveillanceInvariant, PTL

\* So does its part about unique ids.
LEMMA UniqueStarts == Init => UniqueInv
<1> SUFFICES ASSUME Init PROVE UniqueInv
  OBVIOUS
<1>1. /\ published = <<>> /\ books = [i \in Instruments |-> {}] /\ tracked = <<>>
      /\ counts = [k \in Spoofing!Keys |-> 0]
  BY DEF Init, ProcessInit, Spoofing!SpoofInit
<1>2. PlacedOnce /\ OriginOK
  BY <1>1 DEF PlacedOnce, OriginOK, Placed
<1>3. CountsMatchTracked
  <2>1. \A k : TrackedOn(k) = {}
    BY <1>1 DEF TrackedOn
  <2> QED
    BY <1>1, <2>1, FS_EmptySet DEF CountsMatchTracked
<1>4. MirrorOK
  BY <1>1 DEF MirrorOK, Mirrors
<1> QED
  BY <1>2, <1>3, <1>4 DEF UniqueInv

\* Where no New takes the id of another, it holds throughout.
LEMMA UniqueInvariant == UniqueIds => (Spec => []UniqueInv)
<1> SUFFICES ASSUME UniqueIds PROVE Spec => []UniqueInv
  OBVIOUS
<1>1. SurveillanceInv /\ UniqueInv /\ [Next]_vars => UniqueInv'
  BY PlacedOnceStep, OriginStep, CountsStep, MirrorStep DEF SurveillanceInv, UniqueInv
<1> QED
  BY <1>1, UniqueStarts, SurveillanceInvariant, PTL DEF Spec

\* The count of an account, instrument and side, which the layering score compares, is
\* the number of its tracked orders, whatever is cancelled, replaced, filled or lost.
THEOREM CountsAreOfTheTracked == UniqueIds => (Spec => []CountsMatchTracked)
<1>1. UniqueInv => CountsMatchTracked
  BY DEF UniqueInv
<1> QED
  BY <1>1, UniqueInvariant, PTL

\* The detector tracks exactly the orders that rest in the books, each with the quantity
\* it has left, whatever the ring buffer loses and the books reject; and every variable
\* keeps its type.
THEOREM TrackedAreTheResting == UniqueIds => (Spec => []TrackedMirrorsBooks)
<1>1. SurveillanceInv => TypeOK
  <2> SUFFICES ASSUME SurveillanceInv PROVE TypeOK
    OBVIOUS
  <2>1. FeedOK /\ ProcessedOK /\ TrackingOK /\ close \in CloseStates
    BY DEF SurveillanceInv, ClosingOK
  <2>2. Spoofing!SpoofTypeOK
    BY <2>1, KeysOf DEF Spoofing!SpoofTypeOK, TrackingOK, EntriesOK
  <2>3. Closing!CloseTypeOK
    BY <2>1, CloseFields DEF Closing!CloseTypeOK
  <2> QED
    BY <2>1, <2>2, <2>3 DEF TypeOK, ProcessTypeOK, FeedOK, ProcessedOK
<1>2. UniqueInv /\ TypeOK => TrackedMirrorsBooks
  <2> SUFFICES ASSUME UniqueInv, TypeOK, NEW i \in Instruments
               PROVE  {<<id, tracked[id].side, tracked[id].left>> :
                         id \in {t \in DOMAIN tracked : tracked[t].instrument = i}}
                        = {<<o.id, o.side, o.qty>> : o \in books[i]}
    BY DEF TrackedMirrorsBooks
  <2>1. Mirrors(books[i], tracked, i)
    BY DEF UniqueInv, MirrorOK
  <2>2. \A o \in books[i] : /\ o.id \in {t \in DOMAIN tracked : tracked[t].instrument = i}
                            /\ tracked[o.id].side = o.side /\ tracked[o.id].left = o.qty
    BY <2>1 DEF Mirrors
  <2>3. \A t \in {t \in DOMAIN tracked : tracked[t].instrument = i} : \E o \in books[i] : o.id = t
    BY <2>1 DEF Mirrors
  <2> QED
    BY <2>2, <2>3
<1> QED
  BY <1>1, <1>2, SurveillanceInvariant, UniqueInvariant, PTL

\* The samples the layering score compares with are the placements that every later event
\* of the instrument found within the density window, in order, for every feed: also when
\* the clock goes back and the ring buffer loses events.
THEOREM SamplesAreOfTheWindow == Spec => []SamplesAreRecent
<1>1. Init => SamplesOK
  <2> SUFFICES ASSUME Init PROVE SamplesOK
    OBVIOUS
  <2>1. accepted = <<>> /\ \A key \in Spoofing!SideKeys : ambient[key].samples = <<>>
    BY DEF Init, ProcessInit, Spoofing!SpoofInit
  <2>2. \A key : Sampled(key) = {}
    BY <2>1 DEF Sampled
  <2> QED
    BY <2>1, <2>2, NoAlert, FS_EmptySet DEF SamplesOK, SamplesOn
<1>2. SurveillanceInv /\ SamplesOK /\ [Next]_vars => SamplesOK'
  BY SamplesStep DEF SurveillanceInv
<1>3. SurveillanceInv /\ SamplesOK => SamplesAreRecent
  <2> SUFFICES ASSUME SurveillanceInv, SamplesOK, NEW i \in Instruments, NEW side \in {"buy", "sell"}
               PROVE  LET Recent(n) ==
                            /\ accepted[n].instrument = i /\ accepted[n].side = side
                            /\ accepted[n].kind \in {"New", "Replace"}
                            /\ \A m \in n + 1 .. Len(accepted) :
                                 accepted[m].instrument = i => Spoofing!Near(accepted[m].ts, accepted[n].ts)
                          expected == Ascending({n \in DOMAIN accepted : Recent(n)})
                          samples == ambient[<<i, side>>].samples
                      IN /\ Len(samples) = Len(expected)
                         /\ \A n \in DOMAIN expected :
                              /\ samples[n].ts = accepted[expected[n]].ts
                              /\ samples[n].account = accepted[expected[n]].account
    BY DEF SamplesAreRecent
  <2> DEFINE Recent(n) == /\ accepted[n].instrument = i /\ accepted[n].side = side
                          /\ accepted[n].kind \in {"New", "Replace"}
                          /\ \A m \in n + 1 .. Len(accepted) :
                                 accepted[m].instrument = i => Spoofing!Near(accepted[m].ts, accepted[n].ts)
             S == {n \in DOMAIN accepted : Recent(n)}
             samples == ambient[<<i, side>>].samples
  <2>1. S = Sampled(<<i, side>>)
    BY DEF Sampled, Placing
  <2>2. SamplesOn(samples, <<i, side>>)
    BY DEF SamplesOK, Spoofing!SideKeys
  <2>3. S \in SUBSET Nat /\ IsFiniteSet(S)
    BY <2>1, SampledOf DEF SurveillanceInv, ProcessedOK
  <2> HIDE DEF S, samples
  <2>4. Lists(Ascending(S), Cardinality(S), S) /\ Cardinality(S) \in Nat
    BY <2>3, AscendingLists
  <2>5. Len(Ascending(S)) = Cardinality(S) /\ DOMAIN Ascending(S) = 1 .. Cardinality(S)
    BY <2>4 DEF Lists
  <2>6. Len(samples) = Len(Ascending(S))
        /\ \A n \in DOMAIN Ascending(S) : /\ samples[n].ts = accepted[Ascending(S)[n]].ts
                                          /\ samples[n].account = accepted[Ascending(S)[n]].account
    BY <2>1, <2>2, <2>5 DEF SamplesOn, IsSampleOf
  <2> QED
    BY <2>6 DEF S, samples
<1> QED
  BY <1>1, <1>2, <1>3, SurveillanceInvariant, PTL DEF Spec

\* The alerts about related accounts are those of the related dealings of the history, no
\* more and no less, for every feed and registry: however the clock moves, whatever the
\* ring buffer loses, whichever account declares a link.
THEOREM RelatedDealingsAreAlerted == Spec => []RelatedDealingsAreExact
<1>1. Init => RelatedDealingsAreExact
  <2> SUFFICES ASSUME Init PROVE RelatedDealingsAreExact
    OBVIOUS
  <2>1. accepted = <<>> /\ alerts = <<>>
    BY DEF Init, ProcessInit
  <2>2. FrontRunPairs = {} /\ \A d : Of(d) = {}
    BY <2>1 DEF FrontRunPairs, Of
  <2>3. DOMAIN accepted = {}
    BY <2>1
  <2>4. FrontRunningIsExact
    BY <2>2, FS_EmptySet DEF FrontRunningIsExact
  <2>5. WashTradesAreExact
    BY <2>2, <2>3, FS_EmptySet DEF WashTradesAreExact
  <2> QED
    BY <2>4, <2>5 DEF RelatedDealingsAreExact
<1>2. SurveillanceInv /\ RelatedDealingsAreExact /\ [Next]_vars => RelatedDealingsAreExact'
  <2> SUFFICES ASSUME SurveillanceInv, RelatedDealingsAreExact, [Next]_vars
               PROVE  RelatedDealingsAreExact'
    OBVIOUS
  <2>1. FeedOK /\ ProcessedOK /\ RecentOK /\ FrontRunningIsExact /\ WashTradesAreExact
    BY DEF SurveillanceInv, RelatedDealingsAreExact
  <2>2. CASE UNCHANGED <<accepted, alerts, registry>>
    <3>1. \A a, b : Kin(a, b)' <=> Kin(a, b)
      BY <2>2 DEF Kin
    <3>2. FrontRunningIsExact'
      <4>1. FrontRunPairs' = FrontRunPairs
        BY <2>2, <3>1 DEF FrontRunPairs
      <4>2. Of("FrontRunning")' = Of("FrontRunning")
        BY <2>2 DEF Of
      <4> QED
        BY <2>1, <2>2, <4>1, <4>2 DEF FrontRunningIsExact
    <3>3. WashTradesAreExact'
      <4>1. Dealing' = Dealing
        BY <2>2, <3>1 DEF Dealing, Deals
      <4>2. Of("WashTrade")' = Of("WashTrade")
        BY <2>2 DEF Of
      <4>3. Cardinality(Of("WashTrade")) = Cardinality(Dealing)
            /\ \A m \in Dealing : \E k \in Of("WashTrade") : accepted[m].trade \in alerts[k].orders
        BY <2>1 DEF WashTradesAreExact, Dealing, Deals
      <4>4. Cardinality(Of("WashTrade")') = Cardinality(Dealing')
            /\ \A m \in Dealing' : \E k \in Of("WashTrade")' : accepted'[m].trade \in alerts'[k].orders
        BY <2>2, <4>1, <4>2, <4>3
      <4> QED
        BY <4>4 DEF WashTradesAreExact, Dealing, Deals
    <3> QED
      BY <3>2, <3>3 DEF RelatedDealingsAreExact
  <2>3. ASSUME NEW event, Arrives(event), NEW book, NEW at, Evaluate(event, book, at),
               registry' = registry
        PROVE  RelatedDealingsAreExact'
    BY <2>1, <2>3, FrontRunningStep, WashTradesStep DEF RelatedDealingsAreExact
  <2> QED
    BY <2>1, <2>2, <2>3, NextSends
       DEF vars, processVars, detectorVars, Deliver, LoseOnTheRing, Process, Skip
<1> QED
  BY <1>1, <1>2, SurveillanceInvariant, PTL DEF Spec

\* The volumes the marking-the-close detector compares are those of the trades of the window,
\* and its groups are the connected components of the relation on the accounts that traded
\* in one: for every registry, whatever the order of the trades and the accounts.
THEOREM VolumesAndGroupsAreOfTheHistory == Spec => []VolumesAndGroupsAreExact
<1>1. Init => CloseHistoryOK
  <2> SUFFICES ASSUME Init PROVE CloseHistoryOK
    OBVIOUS
  <2>1. accepted = <<>> /\ Closing!CloseInit
    BY DEF Init, ProcessInit
  <2>2. Closing!Seen(close) = {}
    BY <2>1 DEF Closing!CloseInit, Closing!Seen
  <2>3. \A i : WindowTrades(i) = {}
    BY <2>1 DEF WindowTrades
  <2>4. Traded = {}
    BY <2>3 DEF Traded
  <2>5. VolumeOf({}) = 0
    BY FS_EmptySet, SumUnfolds DEF VolumeOf
  <2>6. \A i \in Instruments : VolumesOf(i)
    <3>1. \A i, a : TradesOf(i, a) = {}
      BY <2>3 DEF TradesOf
    <3>2. /\ \A i \in Instruments : close.total[i] = 0
          /\ \A i \in Instruments, a \in Accounts : close.volume[<<i, a>>] = 0
      BY <2>1 DEF Closing!CloseInit, Closing!AccountKeys
    <3> QED
      BY <2>3, <2>5, <3>1, <3>2 DEF VolumesOf
  <2> QED
    BY <2>2, <2>4, <2>6 DEF CloseHistoryOK, ComponentsIn
<1>2. SurveillanceInv /\ CloseHistoryOK /\ [Next]_vars => CloseHistoryOK'
  BY CloseHistoryStep DEF SurveillanceInv
<1>3. CloseHistoryOK => VolumesAndGroupsAreExact
  <2> SUFFICES ASSUME CloseHistoryOK PROVE VolumesAndGroupsAreExact
    OBVIOUS
  <2>1. VolumesOfTheWindow
    BY DEF CloseHistoryOK, VolumesOf, VolumesOfTheWindow, TradesOf
  <2>2. GroupsAreComponents
    <3>1. Closing!Seen(close) = UNION {{accepted[n].account, accepted[n].counterparty} \ {NoAccount} :
                                         n \in UNION {WindowTrades(i) : i \in Instruments}}
      BY Zenon DEF CloseHistoryOK, Traded, Traders
    <3>2. /\ \A x, y \in Closing!Seen(close) :
               Kin(x, y) => Closing!GroupMembers(close, x) = Closing!GroupMembers(close, y)
          /\ \A x \in Closing!Seen(close) : \A part \in SUBSET Closing!GroupMembers(close, x) :
               part \notin {{}, Closing!GroupMembers(close, x)} =>
                 \E y \in part, z \in Closing!GroupMembers(close, x) \ part : Kin(y, z)
      <4>1. \A x, y \in Closing!Seen(close) :
              Kin(x, y) => Closing!GroupMembers(close, x) = Closing!GroupMembers(close, y)
        BY DEF CloseHistoryOK, ComponentsIn, Closing!GroupMembers
      <4> QED
        BY <4>1 DEF CloseHistoryOK, ComponentsIn
    <3> QED
      BY <3>1, <3>2 DEF GroupsAreComponents
  <2> QED
    BY <2>1, <2>2 DEF VolumesAndGroupsAreExact
<1> QED
  BY <1>1, <1>2, <1>3, SurveillanceInvariant, PTL DEF Spec

\* The running mean and squares of the statistical baseline are those of the quantities seen,
\* computed in two passes, and the orders it alerts are the outliers of the history: for
\* every feed, whatever the ring buffer loses and the books reject.
THEOREM StatsAreOfTheHistory == Spec => []StatsAreExact
<1>1. Init => StatsOK /\ OutliersAlerted
  <2> SUFFICES ASSUME Init PROVE StatsOK /\ OutliersAlerted
    OBVIOUS
  <2>1. /\ accepted = <<>> /\ published = <<>> /\ alerts = <<>>
        /\ stats = [k \in Baseline!StatsKeys |-> [count |-> 0, mean |-> 0, m2 |-> 0]]
    BY DEF Init, ProcessInit, Baseline!BaselineInit
  <2>2. OutliersAlerted
    BY <2>1 DEF OutliersAlerted, AlertedOrders, OutlyingOrders, Outliers, Of
  <2>3. \A key : Seen(key, 0) = {}
    BY DEF Seen
  <2>4. Cardinality({}) = 0 /\ VolumeOf({}) = 0 /\ SumFunctionOnSet(Squares, {}) = 0
    BY FS_EmptySet, SumUnfolds DEF VolumeOf
  <2>5. [count |-> 0, mean |-> 0, m2 |-> 0] \in Welfords
    BY DEF Welfords
  <2>6. Summed([count |-> 0, mean |-> 0, m2 |-> 0], {})
    <3>1. Unit \in Nat
      BY DetectorAssumption DEF Baseline!BaselineConfigured
    <3> QED
      BY <2>4, <3>1 DEF Summed, IsWelford
  <2>7. stats \in [Baseline!StatsKeys -> Welfords]
    BY <2>1, <2>5
  <2>8. \A key \in Baseline!StatsKeys : Summed(stats[key], Seen(key, Len(accepted)))
    BY <2>1, <2>3, <2>6
  <2>9. Len(accepted) <= Len(published)
    BY <2>1
  <2> QED
    BY <2>2, <2>7, <2>8, <2>9 DEF StatsOK
<1>2. SurveillanceInv /\ StatsOK /\ OutliersAlerted /\ [Next]_vars => StatsOK' /\ OutliersAlerted'
  <2> SUFFICES ASSUME SurveillanceInv, StatsOK, OutliersAlerted, [Next]_vars
               PROVE  StatsOK' /\ OutliersAlerted'
    OBVIOUS
  <2>1. FeedOK /\ ProcessedOK /\ RecentOK
    BY DEF SurveillanceInv
  <2>2. StatsOK'
    BY <2>1, StatsStep
  <2>3. CASE UNCHANGED <<accepted, alerts>>
    <3>1. \A m : Before(m)' = Before(m)
      BY <2>3 DEF Before, Seen
    <3>3. \A m : /\ VolumeOf(Before(m))' = VolumeOf(Before(m))
                 /\ Spread(Before(m))' = Spread(Before(m))
      BY <2>3, <3>1 DEF Spread, VolumeOf, Quantities, Squares
    <3>4. \A m : IsOutlier(m)' <=> IsOutlier(m)
      BY <2>3, <3>1, <3>3 DEF IsOutlier
    <3>5. Of("StatisticalBaseline")' = Of("StatisticalBaseline")
      BY <2>3 DEF Of
    <3>6. AlertedOrders' = AlertedOrders
      BY <2>3, <3>5 DEF AlertedOrders
    <3>7. Outliers' = Outliers
      BY <2>3, <3>4 DEF Outliers
    <3>8. OutlyingOrders' = OutlyingOrders
      BY <2>3, <3>7 DEF OutlyingOrders
    <3> QED
      BY <2>2, <3>6, <3>8 DEF OutliersAlerted
  <2>4. ASSUME NEW event, Arrives(event), NEW book, NEW at, Evaluate(event, book, at)
        PROVE  OutliersAlerted'
    BY <2>1, <2>4, OutliersStep
  <2> QED
    BY <2>1, <2>2, <2>3, <2>4, NextSends
       DEF vars, processVars, detectorVars, Deliver, LoseOnTheRing, Process, Skip
<1>3. SurveillanceInv /\ StatsOK /\ OutliersAlerted => StatsAreExact
  <2> SUFFICES ASSUME SurveillanceInv, StatsOK, OutliersAlerted PROVE StatsAreExact
    OBVIOUS
  <2>1. ASSUME NEW key \in Baseline!StatsKeys, NEW S, S = Seen(key, Len(accepted))
        PROVE  /\ stats[key].count = Cardinality(S)
               /\ stats[key].count * stats[key].mean = VolumeOf(S) * Unit
               /\ stats[key].count * stats[key].m2 = Spread(S) * Unit * Unit
    <3>1. PICK s : s = stats[key]
      OBVIOUS
    <3>2. s \in Welfords /\ Summed(s, S)
      BY <2>1, <3>1 DEF StatsOK
    <3>3. S \subseteq 1 .. Len(accepted) /\ accepted \in Seq(Event)
      BY <2>1 DEF Seen, SurveillanceInv, ProcessedOK
    <3>4. VolumeOf(S) \in Nat /\ SumFunctionOnSet(Squares, S) \in Nat /\ Cardinality(S) \in Nat
      BY <3>3, SumsOfTheSeen
    <3>5. PICK c, v, q : c = Cardinality(S) /\ v = VolumeOf(S) /\ q = SumFunctionOnSet(Squares, S)
      OBVIOUS
    <3>6. c \in Nat /\ v \in Nat /\ q \in Nat /\ IsWelford(s, c, v, q) /\ Spread(S) = c * q - v * v
      BY <3>2, <3>4, <3>5 DEF Summed, Spread
    <3>7. s.count = c /\ c * s.mean = v * Unit /\ c * s.m2 = (c * q - v * v) * Unit * Unit
      BY <3>2, <3>6, WelfordSquares
    <3> QED
      BY <3>1, <3>5, <3>6, <3>7
  <2>2. DOMAIN stats = Baseline!StatsKeys
    BY DEF StatsOK
  <2> QED
    BY <2>1, <2>2 DEF StatsAreExact, OutliersAlerted, AlertedOrders, OutlyingOrders, Outliers
<1> QED
  BY <1>1, <1>2, <1>3, SurveillanceInvariant, PTL DEF Spec
=============================================================================
