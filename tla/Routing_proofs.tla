--------------------------- MODULE Routing_proofs ---------------------------
(***************************************************************************)
(* Theorems about Routing, for every value of its constants: any number of *)
(* servers, of any types and weights, and any number of calls and changes. *)
(***************************************************************************)
EXTENDS Routing, SequenceTheorems, FiniteSetTheorems, NaturalsInduction, TLAPS

-----------------------------------------------------------------------------
(* Least and greatest numbers.                                             *)

LEMMA NatLess == IsWellFoundedOn({x \in Nat \X Nat : x[1] < x[2]}, Nat)
BY NatLessThanWellFounded DEF OpToRel

\* A set of natural numbers that is not empty has a least element.
LEMMA Least ==
  ASSUME NEW S \in SUBSET Nat, S # {}
  PROVE  Min(S) \in S /\ \A k \in S : Min(S) <= k
<1>1. PICK n \in S : \A k \in S : ~(<<k, n>> \in {x \in Nat \X Nat : x[1] < x[2]})
  BY NatLess, WFMin
<1>2. \A k \in S : ~(k < n)
  BY <1>1
<1>3. \A k \in S : n <= k
  BY <1>2
<1>. QED
  BY <1>3 DEF Min

\* A finite one has a greatest.
LEMMA Greatest ==
  ASSUME NEW S \in SUBSET Nat, S # {}, IsFiniteSet(S)
  PROVE  Max(S) \in S /\ \A k \in S : k <= Max(S)
<1> DEFINE Above(n) == {k \in S : k > n}
           Sizes == {Cardinality(Above(n)) : n \in S}
<1>1. \A n \in S : IsFiniteSet(Above(n)) /\ Cardinality(Above(n)) \in Nat
  BY FS_Subset, FS_CardinalityType
<1>2. Sizes \in SUBSET Nat /\ Sizes # {}
  BY <1>1
<1>3. PICK n \in S : \A k \in S : Cardinality(Above(n)) <= Cardinality(Above(k))
  <2>1. Min(Sizes) \in Sizes /\ \A z \in Sizes : Min(Sizes) <= z
    BY <1>2, Least
  <2>. QED
    BY <2>1
<1>4. ASSUME NEW k \in S, ~(k <= n)
      PROVE  FALSE
  <2>1. k \in Nat /\ n \in Nat /\ n < k /\ \A j \in S : j \in Nat
    BY <1>4
  <2>4. (\A j \in S : j > k => j > n) /\ k > n /\ ~(k > k)
    BY <2>1
  <2>2. Above(k) \in SUBSET Above(n) /\ k \in Above(n) /\ k \notin Above(k)
    BY <2>4, Zenon
  <2>3. /\ Cardinality(Above(k)) <= Cardinality(Above(n))
        /\ Cardinality(Above(k)) # Cardinality(Above(n))
    BY <1>1, <2>2, FS_Subset, Zenon
  <2>. QED
    BY <1>1, <1>3, <2>3
<1>5. \A k \in S : n >= k
  BY <1>4
<1>. QED
  BY <1>5 DEF Max

-----------------------------------------------------------------------------
(* Lists: elements spliced out.                                            *)

Rank(S, i) == Cardinality({j \in S : j <= i})

LEMMA RankType ==
  ASSUME NEW S \in SUBSET Nat, IsFiniteSet(S), NEW i
  PROVE  Rank(S, i) \in 0 .. Cardinality(S)
BY FS_Subset, FS_CardinalityType DEF Rank

LEMMA RankGrows ==
  ASSUME NEW S \in SUBSET Nat, IsFiniteSet(S), NEW i \in Nat, NEW k \in S, i < k
  PROVE  Rank(S, i) < Rank(S, k)
<1> DEFINE A == {j \in S : j <= i}
           B == {j \in S : j <= k}
<1>0. k \in Nat /\ \A j \in S : j \in Nat
  OBVIOUS
<1>3. (\A j \in S : j <= i => j <= k) /\ k <= k /\ ~(k <= i)
  BY <1>0
<1>1. A \in SUBSET B /\ k \in B /\ k \notin A
  BY <1>3, Zenon
<1>2. IsFiniteSet(B)
  BY FS_Subset
<1>4. Cardinality(A) <= Cardinality(B) /\ Cardinality(A) # Cardinality(B)
  BY <1>1, <1>2, FS_Subset
<1>. QED
  BY <1>4, RankType DEF Rank

\* The n-th number of S has n numbers of S up to it.
LEMMA NthHolds ==
  ASSUME NEW S \in SUBSET Nat, IsFiniteSet(S), NEW n \in 1 .. Cardinality(S)
  PROVE  Nth(S, n) \in S /\ Rank(S, Nth(S, n)) = n
<1> DEFINE C == {i \in S : n <= Rank(S, i)}
           m == Min(C)
           B == {j \in S : j < m}
<1>1. S # {} /\ Cardinality(S) \in Nat /\ \A j \in S : j \in Nat
  BY FS_EmptySet, FS_CardinalityType
<1>2. Max(S) \in C
  <2>1. Max(S) \in S /\ {j \in S : j <= Max(S)} = S
    BY <1>1, Greatest
  <2>. QED
    BY <2>1, <1>1 DEF Rank
<1>3. m \in C /\ \A i \in C : m <= i
  BY <1>2, Least
<1>4. Nth(S, n) = m
  BY DEF Nth, Rank
<1>5. Rank(S, m) \in Nat /\ n <= Rank(S, m)
  BY <1>1, <1>3, RankType
<1>6. ASSUME Rank(S, m) > n
      PROVE  FALSE
  <2>1. IsFiniteSet(B) /\ Cardinality(B) \in Nat
    BY FS_Subset, FS_CardinalityType
  <2>0. m \in S /\ (\A j \in S : j <= m <=> j < m \/ j = m) /\ ~(m < m)
    <3>1. m \in S /\ m \in Nat
      BY <1>1, <1>3
    <3>. HIDE DEF m
    <3>. QED
      BY <3>1, <1>1
  <2>2. {j \in S : j <= m} = B \union {m} /\ m \notin B
    BY <2>0, Zenon
  <2>3. Rank(S, m) = Cardinality(B) + 1
    BY <2>1, <2>2, FS_AddElement DEF Rank
  <2>4. B # {}
    BY <1>6, <2>1, <2>3, FS_EmptySet
  <2>5. Max(B) \in B /\ \A k \in B : k <= Max(B)
    BY <2>1, <2>4, Greatest
  <2>9. \A j \in S : j <= Max(B) <=> j < m
    <3>1. \A j \in S : j < m => j <= Max(B)
      BY <2>5
    <3>2. m \in Nat /\ Max(B) \in Nat /\ Max(B) < m /\ Max(B) \in S
      BY <1>1, <1>3, <2>5
    <3>3. \A j \in S : j <= Max(B) => j < m
      BY <1>1, <3>2
    <3>. QED
      BY <3>1, <3>3
  <2>6. {j \in S : j <= Max(B)} = B
    BY <2>9, Zenon
  <2>7. Rank(S, Max(B)) = Cardinality(B)
    BY <2>6 DEF Rank
  <2>8. Max(B) \in C
    BY <1>6, <2>1, <2>3, <2>5, <2>7
  <2>. QED
    <3>1. m <= Max(B) /\ Max(B) < m /\ m \in Nat /\ Max(B) \in Nat
      BY <1>1, <1>3, <2>5, <2>8
    <3>. QED
      BY <3>1
<1>. QED
  BY <1>3, <1>4, <1>5, <1>6

\* h says where the elements of list that are not in X are in list.
Embeds(h, kept, list, X) ==
  /\ h \in [1 .. Len(kept) -> 1 .. Len(list)]
  /\ \A n \in 1 .. Len(kept) : kept[n] = list[h[n]] /\ kept[n] \notin X
  /\ \A n, m \in 1 .. Len(kept) : n < m => h[n] < h[m]
  /\ \A i \in 1 .. Len(list) :
       list[i] \notin X => \E n \in 1 .. Len(kept) : h[n] = i

LEMMA WithoutEmbeds ==
  ASSUME NEW T, NEW list \in Seq(T), NEW X
  PROVE  /\ Without(list, X) \in Seq(T)
         /\ \E h : Embeds(h, Without(list, X), list, X)
<1> DEFINE K == {i \in 1 .. Len(list) : list[i] \notin X}
           w == Without(list, X)
           h == [n \in 1 .. Cardinality(K) |-> Nth(K, n)]
<1>0. Len(list) \in Nat /\ DOMAIN list = 1 .. Len(list)
  OBVIOUS
<1>1. IsFiniteSet(K) /\ Cardinality(K) \in Nat /\ K \in SUBSET Nat
  <2>1. K \in SUBSET (1 .. Len(list)) /\ IsFiniteSet(1 .. Len(list))
    BY <1>0, FS_Interval
  <2>. QED
    BY <2>1, FS_Subset, FS_CardinalityType
<1>2. w = [n \in 1 .. Cardinality(K) |-> list[Nth(K, n)]]
  BY <1>0 DEF Without
<1>3. \A n \in 1 .. Cardinality(K) : Nth(K, n) \in K /\ Rank(K, Nth(K, n)) = n
  BY <1>1, NthHolds
<1>. HIDE DEF K, w
<1>4. K \subseteq 1 .. Len(list) /\ \A i \in K : list[i] \in T /\ list[i] \notin X
  BY DEF K
<1>5. w \in Seq(T) /\ Len(w) = Cardinality(K)
  <2>1. w \in [1 .. Cardinality(K) -> T]
    BY <1>2, <1>3, <1>4
  <2>. QED
    BY <1>1, <2>1
<1>9. \A j \in K : j \in Nat
  BY <1>1
<1>6. \A n, m \in 1 .. Cardinality(K) : n < m => h[n] < h[m]
  <2>1. SUFFICES ASSUME NEW n \in 1 .. Cardinality(K), NEW m \in 1 .. Cardinality(K),
                        n < m, ~(h[n] < h[m])
                 PROVE  FALSE
    OBVIOUS
  <2>2. h[n] \in K /\ h[m] \in K /\ Rank(K, h[n]) = n /\ Rank(K, h[m]) = m
    BY <1>3
  <2>3. h[m] < h[n] \/ h[m] = h[n]
    BY <1>9, <2>1, <2>2
  <2>4. CASE h[m] < h[n]
    <3>1. Rank(K, h[m]) < Rank(K, h[n])
      BY <1>1, <1>9, <2>2, <2>4, RankGrows
    <3>. QED
      BY <2>1, <2>2, <3>1
  <2>. QED
    BY <2>1, <2>2, <2>3, <2>4
<1>7. ASSUME NEW i \in 1 .. Len(list), list[i] \notin X
      PROVE  \E n \in 1 .. Cardinality(K) : h[n] = i
  <2>1. i \in K /\ {j \in K : j <= i} # {}
    BY <1>7 DEF K
  <2>2. Rank(K, i) \in 1 .. Cardinality(K)
    <3>1. IsFiniteSet({j \in K : j <= i})
      BY <1>1, FS_Subset
    <3>2. Rank(K, i) # 0
      BY <2>1, <3>1, FS_EmptySet DEF Rank
    <3>. QED
      BY <1>1, <3>2, RankType
  <2>3. h[Rank(K, i)] \in K /\ Rank(K, h[Rank(K, i)]) = Rank(K, i)
    BY <1>3, <2>2
  <2>. HIDE DEF h
  <2>4. h[Rank(K, i)] = i
    <3>0. i \in Nat /\ h[Rank(K, i)] \in Nat /\ Rank(K, i) \in Nat
      <4>1. i \in Nat
        BY <1>9, <2>1
      <4>2. h[Rank(K, i)] \in Nat
        BY <1>9, <2>3
      <4>3. Cardinality(K) \in Nat
        BY <1>1
      <4>4. Rank(K, i) \in Nat
        BY <2>2, <4>3
      <4>. QED
        BY <4>1, <4>2, <4>4
    <3>1. CASE h[Rank(K, i)] < i
      <4>1. Rank(K, h[Rank(K, i)]) < Rank(K, i)
        BY <1>1, <2>1, <3>0, <3>1, RankGrows
      <4>. QED
        BY <2>3, <3>0, <4>1
    <3>2. CASE i < h[Rank(K, i)]
      <4>1. Rank(K, i) < Rank(K, h[Rank(K, i)])
        BY <1>1, <2>3, <3>0, <3>2, RankGrows
      <4>. QED
        BY <2>3, <3>0, <4>1
    <3>. QED
      BY <3>0, <3>1, <3>2
  <2>. QED
    BY <2>2, <2>4
<1>8. Embeds(h, w, list, X)
  <2>1. h \in [1 .. Len(w) -> 1 .. Len(list)]
    BY <1>3, <1>4, <1>5
  <2>2. \A n \in 1 .. Len(w) : w[n] = list[h[n]] /\ w[n] \notin X
    BY <1>2, <1>3, <1>4, <1>5
  <2>. HIDE DEF h
  <2>. QED
    BY <2>1, <2>2, <1>5, <1>6, <1>7, Zenon DEF Embeds
<1>. QED
  BY <1>5, <1>8 DEF w

\* What is left in a list that elements are spliced out of.
LEMMA WithoutHolds ==
  ASSUME NEW T, NEW list \in Seq(T), NEW X
  PROVE  /\ Without(list, X) \in Seq(T)
         /\ Range(Without(list, X)) = Range(list) \ X
         /\ IsInjective(list) => IsInjective(Without(list, X))
<1> DEFINE w == Without(list, X)
<1>1. w \in Seq(T) /\ \E h : Embeds(h, w, list, X)
  BY WithoutEmbeds
<1>. HIDE DEF w
<1>2. PICK h : Embeds(h, w, list, X)
  BY <1>1
<1>3. DOMAIN w = 1 .. Len(w) /\ DOMAIN list = 1 .. Len(list)
  BY <1>1
<1>4. Range(w) = Range(list) \ X
  <2>1. Range(w) \subseteq Range(list) \ X
    BY <1>2, <1>3 DEF Embeds, Range
  <2>2. Range(list) \ X \subseteq Range(w)
    BY <1>2, <1>3 DEF Embeds, Range
  <2>. QED
    BY <2>1, <2>2
<1>5. ASSUME IsInjective(list), NEW n \in DOMAIN w, NEW m \in DOMAIN w, w[n] = w[m]
      PROVE  n = m
  <2>1. h[n] = h[m]
    BY <1>2, <1>3, <1>5 DEF Embeds, IsInjective
  <2>2. h[n] \in Int /\ h[m] \in Int /\ n \in Int /\ m \in Int /\ Len(w) \in Nat
    BY <1>1, <1>2, <1>3 DEF Embeds
  <2>3. ~(n < m) /\ ~(m < n)
    BY <1>2, <1>3, <2>1, <2>2 DEF Embeds
  <2>. QED
    BY <2>2, <2>3
<1>. QED
  BY <1>1, <1>4, <1>5 DEF w, IsInjective

-----------------------------------------------------------------------------
(* Lists: numbers sorted.                                                  *)

LEMMA IntervalSize ==
  ASSUME NEW n \in Nat
  PROVE  IsFiniteSet(1 .. n) /\ Cardinality(1 .. n) = n
<1>1. 1 \in Int /\ n \in Int
  OBVIOUS
<1>2. IsFiniteSet(1 .. n) /\ Cardinality(1 .. n) = IF 1 > n THEN 0 ELSE n - 1 + 1
  BY <1>1, FS_Interval
<1>. QED
  BY <1>2

UpTo(list, k) == {i \in DOMAIN list : list[i] <= k}

LEMMA UpToType ==
  ASSUME NEW list \in Seq(Nat), NEW k
  PROVE  /\ IsFiniteSet(UpTo(list, k))
         /\ Cardinality(UpTo(list, k)) \in 0 .. Len(list)
<1>1. UpTo(list, k) \in SUBSET (1 .. Len(list)) /\ Len(list) \in Nat
  BY DEF UpTo
<1>2. IsFiniteSet(1 .. Len(list)) /\ Cardinality(1 .. Len(list)) = Len(list)
  BY <1>1, IntervalSize
<1>. QED
  BY <1>1, <1>2, FS_Subset, FS_CardinalityType

\* The n-th of the sorted numbers is the least up to which there are n.
LEMMA SortedIsLeast ==
  ASSUME NEW list \in Seq(Nat), NEW n \in 1 .. Len(list)
  PROVE  /\ Sorted(list)[n] \in Range(list)
         /\ n <= Cardinality(UpTo(list, Sorted(list)[n]))
         /\ \A k \in Range(list) :
              n <= Cardinality(UpTo(list, k)) => Sorted(list)[n] <= k
<1> DEFINE C == {k \in Range(list) : n <= Cardinality(UpTo(list, k))}
<1>1. DOMAIN list = 1 .. Len(list) /\ Len(list) \in Nat
      /\ \A i \in 1 .. Len(list) : list[i] \in Nat
  OBVIOUS
<1>2. Range(list) \in SUBSET Nat /\ Range(list) # {} /\ IsFiniteSet(Range(list))
  <2>1. list \in Surjection(1 .. Len(list), Range(list))
    BY <1>1 DEF Surjection, Range
  <2>2. IsFiniteSet(1 .. Len(list))
    BY <1>1, FS_Interval
  <2>3. IsFiniteSet(Range(list))
    BY <2>1, <2>2, FS_Surjection
  <2>4. list[n] \in Range(list)
    BY <1>1 DEF Range
  <2>. QED
    BY <1>1, <2>3, <2>4 DEF Range
<1>3. Max(Range(list)) \in C
  <2>1. /\ Max(Range(list)) \in Range(list)
        /\ \A k \in Range(list) : k <= Max(Range(list))
    BY <1>2, Greatest
  <2>2. \A i \in 1 .. Len(list) : list[i] \in Range(list)
    BY <1>1 DEF Range
  <2>3. UpTo(list, Max(Range(list))) = 1 .. Len(list)
    BY <1>1, <2>1, <2>2 DEF UpTo
  <2>4. Cardinality(1 .. Len(list)) = Len(list)
    BY <1>1, IntervalSize
  <2>. QED
    BY <1>1, <2>1, <2>3, <2>4
<1>4. Min(C) \in C /\ \A k \in C : Min(C) <= k
  BY <1>2, <1>3, Least
<1>5. Sorted(list)[n] = Min(C)
  BY <1>1 DEF Sorted, UpTo, Range
<1>. QED
  BY <1>4, <1>5

\* The sorted list ascends and holds the same numbers, and one that it holds
\* twice is twice in the list.
LEMMA SortedHolds ==
  ASSUME NEW list \in Seq(Nat)
  PROVE  /\ Sorted(list) \in Seq(Nat)
         /\ Range(Sorted(list)) = Range(list)
         /\ \A i, j \in DOMAIN Sorted(list) :
              i < j => Sorted(list)[i] <= Sorted(list)[j]
         /\ \A i, j \in DOMAIN Sorted(list) :
              i # j /\ Sorted(list)[i] = Sorted(list)[j]
                => \E a, b \in DOMAIN list : /\ a # b
                                             /\ list[a] = Sorted(list)[i]
                                             /\ list[b] = Sorted(list)[i]
<1> DEFINE s == Sorted(list)
           U(k) == Cardinality(UpTo(list, k))
<1>1. DOMAIN list = 1 .. Len(list) /\ Len(list) \in Nat
      /\ \A i \in 1 .. Len(list) : list[i] \in Nat
  OBVIOUS
<1>2. \A n \in 1 .. Len(list) :
        /\ s[n] \in Range(list) /\ n <= U(s[n])
        /\ \A k \in Range(list) : n <= U(k) => s[n] <= k
  BY SortedIsLeast
<1>3. \A k : IsFiniteSet(UpTo(list, k)) /\ U(k) \in Nat /\ U(k) <= Len(list)
  BY <1>1, UpToType
<1>4. DOMAIN s = 1 .. Len(list) /\ s = [n \in 1 .. Len(list) |-> s[n]]
  BY <1>1 DEF Sorted
<1>. HIDE DEF s
<1>5. \A k \in Range(list) : k \in Nat
  BY <1>1 DEF Range
<1>6. s \in Seq(Nat)
  <2>1. \A n \in 1 .. Len(list) : s[n] \in Nat
    BY <1>2, <1>5
  <2>. QED
    BY <1>1, <1>4, <2>1
<1>7. ASSUME NEW i \in DOMAIN s, NEW j \in DOMAIN s, i < j
      PROVE  s[i] <= s[j]
  <2>1. s[j] \in Range(list) /\ j <= U(s[j]) /\ i \in Nat /\ j \in Nat
    BY <1>2, <1>4
  <2>2. i <= U(s[j])
    BY <1>3, <1>7, <2>1
  <2>. QED
    BY <1>2, <1>4, <2>1, <2>2
\* Up to a number that is there once there are two more than below.
<1>8. ASSUME NEW k \in Range(list), NEW n \in 1 .. Len(list), n <= U(k), s[n] # k
      PROVE  \E j \in Range(list) : j < k /\ n <= U(j)
  <2>1. s[n] \in Range(list) /\ n <= U(s[n]) /\ s[n] <= k
    BY <1>2, <1>8
  <2>. QED
    BY <1>5, <1>8, <2>1
<1>9. Range(s) = Range(list)
  <2>1. Range(s) \subseteq Range(list)
    BY <1>2, <1>4 DEF Range
  <2>2. ASSUME NEW k \in Range(list), k \notin Range(s)
        PROVE  FALSE
    <3>1. PICK a \in 1 .. Len(list) : list[a] = k
      BY <1>1 DEF Range
    <3>2. k \in Nat /\ a \in UpTo(list, k)
      BY <1>1, <1>5, <3>1 DEF UpTo
    <3>3. U(k) \in 1 .. Len(list)
      <4>1. UpTo(list, k) # {}
        BY <3>2
      <4>2. U(k) # 0
        BY <1>3, <4>1, FS_EmptySet
      <4>. QED
        BY <1>1, <1>3, <4>2
    <3>4. s[U(k)] # k
      BY <1>4, <2>2, <3>3 DEF Range
    <3>5. U(k) <= U(k)
      BY <1>3
    <3>6. PICK j \in Range(list) : j < k /\ U(k) <= U(j)
      BY <1>8, <3>3, <3>4, <3>5
    <3>7. UpTo(list, j) \in SUBSET UpTo(list, k) /\ a \notin UpTo(list, j)
      BY <1>1, <1>5, <3>1, <3>6 DEF UpTo
    <3>8. U(j) <= U(k) /\ U(j) # U(k)
      BY <1>3, <3>2, <3>7, FS_Subset
    <3>. QED
      BY <1>3, <3>6, <3>8
  <2>. QED
    BY <2>1, <2>2
<1>10. ASSUME NEW i \in DOMAIN s, NEW j \in DOMAIN s, i < j, s[i] = s[j]
       PROVE  \E a, b \in DOMAIN list : a # b /\ list[a] = s[i] /\ list[b] = s[i]
  <2> DEFINE k == s[i]
             B == {l \in DOMAIN list : list[l] < k}
  <2>1. k \in Range(list) /\ k \in Nat /\ i \in Nat /\ j \in Nat /\ i >= 1
    BY <1>2, <1>4, <1>5
  <2>2. PICK a \in DOMAIN list : list[a] = k
    BY <2>1 DEF Range
  <2>3. SUFFICES ASSUME \A b \in DOMAIN list : list[b] = k => b = a
                 PROVE  FALSE
    BY <2>2
  <2>. HIDE DEF k
  <2>4. UpTo(list, k) = B \union {a} /\ a \notin B
    <3>1. \A b \in DOMAIN list : list[b] <= k <=> list[b] < k \/ b = a
      BY <1>1, <2>1, <2>2, <2>3
    <3>2. ~(list[a] < k)
      BY <2>1, <2>2
    <3>. QED
      BY <2>2, <3>1, <3>2, Zenon DEF UpTo
  <2>5. IsFiniteSet(B) /\ Cardinality(B) \in Nat
    <3>1. B \in SUBSET UpTo(list, k)
      BY <2>4
    <3>. QED
      BY <1>3, <3>1, FS_Subset, FS_CardinalityType
  <2>6. U(k) = Cardinality(B) + 1
    BY <2>4, <2>5, FS_AddElement
  <2>7. j <= U(k)
    BY <1>2, <1>4, <1>10 DEF k
  <2>8. i <= Cardinality(B) /\ Cardinality(B) # 0
    BY <1>10, <2>1, <2>5, <2>6, <2>7
  <2> DEFINE V == {list[l] : l \in B}
  <2>9. V \in SUBSET Nat /\ V # {} /\ IsFiniteSet(V)
    <3>1. B # {}
      BY <2>5, <2>8, FS_EmptySet
    <3>2. V \in SUBSET Range(list) /\ V # {}
      BY <3>1 DEF Range
    <3>3. IsFiniteSet(Range(list))
      <4>1. list \in Surjection(1 .. Len(list), Range(list))
        BY <1>1 DEF Surjection, Range
      <4>. QED
        BY <1>1, <4>1, FS_Interval, FS_Surjection
    <3>. QED
      BY <1>5, <3>2, <3>3, FS_Subset
  <2>10. Max(V) \in V /\ \A v \in V : v <= Max(V)
    BY <2>9, Greatest
  <2>11. Max(V) \in Range(list) /\ Max(V) < k /\ Max(V) \in Nat
    BY <1>5, <2>10 DEF Range
  <2>12. UpTo(list, Max(V)) = B
    <3>1. \A l \in DOMAIN list : list[l] < k => list[l] <= Max(V)
      BY <2>10
    <3>2. \A l \in DOMAIN list : list[l] <= Max(V) => list[l] < k
      BY <1>1, <2>1, <2>11
    <3>. QED
      BY <3>1, <3>2, Zenon DEF UpTo
  <2>13. k <= Max(V)
    BY <1>2, <1>4, <2>8, <2>11, <2>12 DEF k
  <2>. QED
    BY <2>1, <2>11, <2>13
<1>11. ASSUME NEW i \in DOMAIN s, NEW j \in DOMAIN s, i # j, s[i] = s[j]
       PROVE  \E a, b \in DOMAIN list : a # b /\ list[a] = s[i] /\ list[b] = s[i]
  <2>1. i < j \/ j < i
    BY <1>1, <1>4, <1>11
  <2>. QED
    BY <1>10, <1>11, <2>1
<1>. QED
  BY <1>6, <1>7, <1>9, <1>11, Zenon DEF s

-----------------------------------------------------------------------------
(* The hash ring.                                                          *)

Replica == 0 .. Replicas - 1

\* The hashes of the replicas of some servers.
HashesOf(S) == {HashOf[x] : x \in S \X Replica}

LEMMA InHashes ==
  ASSUME NEW S, NEW k
  PROVE  k \in HashesOf(S) <=> \E n \in S, i \in Replica : k = HashOf[<<n, i>>]
<1>1. ASSUME k \in HashesOf(S)
      PROVE  \E n \in S, i \in Replica : k = HashOf[<<n, i>>]
  <2>1. PICK x \in S \X Replica : k = HashOf[x]
    BY <1>1 DEF HashesOf
  <2>2. x = <<x[1], x[2]>> /\ x[1] \in S /\ x[2] \in Replica
    OBVIOUS
  <2>3. k = HashOf[<<x[1], x[2]>>]
    BY <2>1, <2>2
  <2>. QED
    BY <2>2, <2>3
<1>2. ASSUME NEW n \in S, NEW i \in Replica, k = HashOf[<<n, i>>]
      PROVE  k \in HashesOf(S)
  BY <1>2 DEF HashesOf
<1>. QED
  BY <1>1, <1>2

\* A ring is that of its nodes: its keys are their hashes in ascending order,
\* and one that is there twice is of a node that is there twice.
RingOk(r) ==
  /\ r.nodes \in Seq(Servers)
  /\ r.keys \in Seq(Nat)
  /\ Range(r.keys) = HashesOf(Range(r.nodes))
  /\ DOMAIN r.ring = HashesOf(Range(r.nodes))
  /\ \A n \in Range(r.nodes), i \in Replica : r.ring[HashOf[<<n, i>>]] = n
  /\ \A i, j \in DOMAIN r.keys : i < j => r.keys[i] <= r.keys[j]
  /\ \A i, j \in DOMAIN r.keys :
       i # j /\ r.keys[i] = r.keys[j]
         => \E p, q \in DOMAIN r.nodes :
              p # q /\ r.nodes[p] = r.nodes[q] /\ r.nodes[p] = r.ring[r.keys[i]]

LEMMA HashType ==
  /\ Replica # {}
  /\ \A n \in Servers, i \in Replica : HashOf[<<n, i>>] \in Nat
  /\ \A n, m \in Servers : \A i, j \in Replica :
       HashOf[<<n, i>>] = HashOf[<<m, j>>] => n = m /\ i = j
<1>1. 0 \in Replica
  BY RingAssumption DEF Replica
<1>2. /\ HashOf \in [Servers \X Replica -> Nat]
      /\ \A x, y \in DOMAIN HashOf : HashOf[x] = HashOf[y] => x = y
  BY RingAssumption DEF Replica, IsInjective
<1>3. \A n, m \in Servers : \A i, j \in Replica :
        HashOf[<<n, i>>] = HashOf[<<m, j>>] => <<n, i>> = <<m, j>>
  BY <1>2
<1>. QED
  BY <1>1, <1>2, <1>3

LEMMA ReplicaKeysHold ==
  ASSUME NEW node \in Servers
  PROVE  /\ ReplicaKeys(node) \in Seq(Nat)
         /\ Range(ReplicaKeys(node)) = HashesOf({node})
         /\ IsInjective(ReplicaKeys(node))
<1> DEFINE ks == ReplicaKeys(node)
<1>1. ks = [i \in 1 .. Replicas |-> HashOf[<<node, i - 1>>]] /\ Replicas \in Nat
  BY RingAssumption DEF ReplicaKeys
<1>2. \A i \in 1 .. Replicas : i \in Int /\ i - 1 \in Replica
  BY <1>1 DEF Replica
<1>3. \A i \in Replica : i \in Int /\ i + 1 \in 1 .. Replicas /\ (i + 1) - 1 = i
  BY <1>1 DEF Replica
<1>4. ks \in [1 .. Replicas -> Nat]
  BY <1>1, <1>2, HashType
<1>. HIDE DEF ks
<1>5. ks \in Seq(Nat) /\ DOMAIN ks = 1 .. Replicas
  <2>1. Replicas \in Nat
    BY <1>1
  <2>. QED
    BY <1>4, <2>1
<1>6. Range(ks) = HashesOf({node})
  <2>1. \A i \in 1 .. Replicas : ks[i] \in HashesOf({node})
    BY <1>1, <1>2 DEF HashesOf
  <2>2. \A i \in Replica : HashOf[<<node, i>>] = ks[i + 1]
    BY <1>1, <1>3
  <2>3. HashesOf({node}) \subseteq Range(ks)
    BY <1>3, <1>5, <2>2 DEF HashesOf, Range
  <2>. QED
    BY <1>5, <2>1, <2>3 DEF Range
<1>7. ASSUME NEW i \in 1 .. Replicas, NEW j \in 1 .. Replicas, ks[i] = ks[j]
      PROVE  i = j
  <2>1. i - 1 = j - 1
    BY <1>1, <1>2, <1>7, HashType
  <2>. QED
    BY <1>2, <2>1
<1>. QED
  BY <1>5, <1>6, <1>7 DEF ks, IsInjective

LEMMA EmptyRingOk == RingOk(EmptyRing)
<1> DEFINE e == EmptyRing
<1>1. e.nodes = <<>> /\ e.keys = <<>> /\ e.ring = <<>>
  BY DEF EmptyRing
<1>2. DOMAIN <<>> = {} /\ Range(<<>>) = {}
  BY DEF Range
<1>3. HashesOf({}) = {}
  BY DEF HashesOf
<1>. HIDE DEF e
<1>4. e.nodes \in Seq(Servers) /\ e.keys \in Seq(Nat)
  BY <1>1
<1>5. /\ DOMAIN e.ring = {} /\ DOMAIN e.keys = {}
      /\ Range(e.nodes) = {} /\ Range(e.keys) = {}
  BY <1>1, <1>2
<1>6. RingOk(e)
  BY <1>3, <1>4, <1>5, Zenon DEF RingOk
<1>. QED
  BY <1>6 DEF e

\* addNode
LEMMA AddNodeOk ==
  ASSUME NEW r, RingOk(r), NEW node \in Servers
  PROVE  /\ RingOk(AddNode(r, node))
         /\ Range(AddNode(r, node).nodes) = Range(r.nodes) \union {node}
<1> DEFINE ks == ReplicaKeys(node)
           a == AddNode(r, node)
           both == r.keys \o ks
           N == Range(r.nodes)
<1>1. /\ r.nodes \in Seq(Servers) /\ r.keys \in Seq(Nat)
      /\ DOMAIN r.ring = HashesOf(N)
  BY DEF RingOk
<1>2. ks \in Seq(Nat) /\ Range(ks) = HashesOf({node}) /\ IsInjective(ks)
  BY ReplicaKeysHold
<1>3. /\ a.nodes = Append(r.nodes, node)
      /\ a.keys = Sorted(both)
      /\ a.ring = [k \in HashesOf(N) \union HashesOf({node}) |->
                     IF k \in HashesOf({node}) THEN node ELSE r.ring[k]]
  BY <1>1, <1>2 DEF AddNode
<1>. HIDE DEF ks, a, both
<1>4. both \in Seq(Nat) /\ Range(both) = HashesOf(N) \union HashesOf({node})
  <2>1. Range(both) = Range(r.keys) \union Range(ks)
    BY <1>1, <1>2, RangeConcatenation DEF both
  <2>. QED
    BY <1>1, <1>2, <2>1, ConcatProperties DEF RingOk, both
<1>5. a.nodes \in Seq(Servers) /\ Range(a.nodes) = N \union {node}
  <2>1. a.nodes \in Seq(Servers) /\ Len(a.nodes) = Len(r.nodes) + 1
        /\ a.nodes[Len(r.nodes) + 1] = node
        /\ \A i \in 1 .. Len(r.nodes) : a.nodes[i] = r.nodes[i]
    BY <1>1, <1>3, AppendProperties
  <2>2. \A i \in 1 .. Len(a.nodes) : i \in 1 .. Len(r.nodes) \/ i = Len(r.nodes) + 1
    BY <1>1, <2>1
  <2>3. Len(r.nodes) + 1 \in 1 .. Len(a.nodes) /\ 1 .. Len(r.nodes) \subseteq 1 .. Len(a.nodes)
    BY <1>1, <2>1
  <2>4. DOMAIN a.nodes = 1 .. Len(a.nodes) /\ DOMAIN r.nodes = 1 .. Len(r.nodes)
    BY <1>1, <2>1
  <2>. QED
    BY <2>1, <2>2, <2>3, <2>4 DEF Range
<1>6. HashesOf(N) \union HashesOf({node}) = HashesOf(N \union {node})
  BY DEF HashesOf
<1>7. /\ a.keys \in Seq(Nat) /\ Range(a.keys) = HashesOf(N \union {node})
      /\ \A i, j \in DOMAIN a.keys : i < j => a.keys[i] <= a.keys[j]
      /\ DOMAIN a.ring = HashesOf(N \union {node})
  BY <1>3, <1>4, <1>6, SortedHolds
<1>8. N \subseteq Servers
  BY <1>1 DEF Range
<1>9. ASSUME NEW n \in N \union {node}, NEW i \in Replica
      PROVE  a.ring[HashOf[<<n, i>>]] = n
  <2>1. CASE n = node
    <3>1. HashOf[<<n, i>>] \in HashesOf({node})
      BY <2>1 DEF HashesOf
    <3>. QED
      BY <1>3, <2>1, <3>1
  <2>2. CASE n # node
    <3>1. HashOf[<<n, i>>] \in HashesOf(N) /\ HashOf[<<n, i>>] \notin HashesOf({node})
      BY <1>8, <1>9, <2>2, HashType DEF HashesOf
    <3>2. r.ring[HashOf[<<n, i>>]] = n
      BY <1>9, <2>2 DEF RingOk
    <3>. QED
      BY <1>3, <3>1, <3>2
  <2>. QED
    BY <2>1, <2>2
<1>10. /\ \A p \in DOMAIN r.nodes : p \in DOMAIN a.nodes /\ a.nodes[p] = r.nodes[p]
       /\ Len(r.nodes) + 1 \in DOMAIN a.nodes /\ a.nodes[Len(r.nodes) + 1] = node
       /\ \A p \in DOMAIN r.nodes : p # Len(r.nodes) + 1
  BY <1>1, <1>3, AppendProperties
<1>11. ASSUME NEW i \in DOMAIN a.keys, NEW j \in DOMAIN a.keys,
              i # j, a.keys[i] = a.keys[j]
       PROVE  \E p, q \in DOMAIN a.nodes :
                p # q /\ a.nodes[p] = a.nodes[q] /\ a.nodes[p] = a.ring[a.keys[i]]
  <2> DEFINE k == a.keys[i]
  <2>1. PICK x \in DOMAIN both, y \in DOMAIN both :
               x # y /\ both[x] = k /\ both[y] = k
    BY <1>3, <1>4, <1>11, SortedHolds
  <2>. HIDE DEF k
  <2>2. DOMAIN r.keys = 1 .. Len(r.keys) /\ DOMAIN ks = 1 .. Len(ks)
        /\ Len(r.keys) \in Nat /\ Len(ks) \in Nat
    BY <1>1, <1>2
  <2>3. \A z \in DOMAIN both :
          \/ z \in DOMAIN r.keys /\ both[z] = r.keys[z]
          \/ z \in Int /\ z - Len(r.keys) \in DOMAIN ks /\ both[z] = ks[z - Len(r.keys)]
    <3>1. /\ Len(both) = Len(r.keys) + Len(ks)
          /\ \A z \in 1 .. Len(r.keys) + Len(ks) :
               both[z] = IF z <= Len(r.keys) THEN r.keys[z] ELSE ks[z - Len(r.keys)]
      BY <1>1, <1>2, ConcatProperties DEF both
    <3>2. DOMAIN both = 1 .. Len(r.keys) + Len(ks)
      BY <1>4, <3>1
    <3> SUFFICES ASSUME NEW z \in 1 .. Len(r.keys) + Len(ks)
                 PROVE  \/ z \in DOMAIN r.keys /\ both[z] = r.keys[z]
                        \/ z \in Int /\ z - Len(r.keys) \in DOMAIN ks
                           /\ both[z] = ks[z - Len(r.keys)]
      BY <3>2
    <3>3. CASE z <= Len(r.keys)
      BY <2>2, <3>1, <3>3
    <3>4. CASE ~(z <= Len(r.keys))
      <4>1. z \in Int /\ z - Len(r.keys) \in 1 .. Len(ks)
        BY <2>2, <3>4
      <4>. QED
        BY <2>2, <3>1, <3>4, <4>1
    <3>. QED
      BY <3>3, <3>4
  <2>4. CASE k \in HashesOf({node})
    <3>1. a.ring[k] = node
      BY <1>3, <2>4
    <3>2. PICK z \in {x, y} : z \in DOMAIN r.keys /\ both[z] = r.keys[z]
      <4>1. SUFFICES ASSUME /\ x \in Int /\ x - Len(r.keys) \in DOMAIN ks
                            /\ both[x] = ks[x - Len(r.keys)]
                            /\ y \in Int /\ y - Len(r.keys) \in DOMAIN ks
                            /\ both[y] = ks[y - Len(r.keys)]
                     PROVE  FALSE
        BY <2>1, <2>3
      <4>2. x - Len(r.keys) = y - Len(r.keys)
        BY <1>2, <2>1, <4>1 DEF IsInjective
      <4>. QED
        BY <2>1, <2>2, <4>1, <4>2
    <3>3. k \in HashesOf(N)
      BY <2>1, <3>2 DEF RingOk, Range
    <3>4. node \in N
      BY <1>8, <2>4, <3>3, HashType DEF HashesOf
    <3>5. PICK p \in DOMAIN r.nodes : r.nodes[p] = node
      BY <3>4 DEF Range
    <3>6. /\ p \in DOMAIN a.nodes /\ a.nodes[p] = node /\ p # Len(r.nodes) + 1
          /\ Len(r.nodes) + 1 \in DOMAIN a.nodes /\ a.nodes[Len(r.nodes) + 1] = node
      BY <1>10, <3>5
    <3>. QED
      BY <3>1, <3>6 DEF k
  <2>5. CASE k \notin HashesOf({node})
    <3>1. \A z \in DOMAIN ks : ks[z] # k
      BY <1>2, <2>5 DEF Range
    <3>2. x \in DOMAIN r.keys /\ r.keys[x] = k /\ y \in DOMAIN r.keys /\ r.keys[y] = k
      BY <2>1, <2>3, <3>1
    <3>3. PICK p \in DOMAIN r.nodes, q \in DOMAIN r.nodes :
                 p # q /\ r.nodes[p] = r.nodes[q] /\ r.nodes[p] = r.ring[k]
      <4>1. \A m, n \in DOMAIN r.keys : m # n /\ r.keys[m] = r.keys[n] =>
              \E p, q \in DOMAIN r.nodes :
                p # q /\ r.nodes[p] = r.nodes[q] /\ r.nodes[p] = r.ring[r.keys[m]]
        BY DEF RingOk
      <4>. QED
        BY <2>1, <3>2, <4>1
    <3>4. a.ring[k] = r.ring[k]
      BY <1>3, <1>7, <1>11, <2>5, <1>6 DEF k, Range
    <3>5. /\ p \in DOMAIN a.nodes /\ q \in DOMAIN a.nodes
          /\ a.nodes[p] = r.nodes[p] /\ a.nodes[q] = r.nodes[q]
      BY <1>10
    <3>. QED
      BY <3>3, <3>4, <3>5 DEF k
  <2>. QED
    BY <2>4, <2>5
<1>12. RingOk(a)
  BY <1>5, <1>7, <1>9, <1>11, Zenon DEF RingOk
<1>. QED
  BY <1>5, <1>12 DEF a

\* removeNode
LEMMA RemoveNodeOk ==
  ASSUME NEW r, RingOk(r), NEW node \in Servers
  PROVE  /\ RingOk(RemoveNode(r, node))
         /\ Range(RemoveNode(r, node).nodes) = Range(r.nodes) \ {node}
<1> DEFINE K == HashesOf({node})
           a == RemoveNode(r, node)
           N == Range(r.nodes)
<1>1. /\ r.nodes \in Seq(Servers) /\ r.keys \in Seq(Nat)
      /\ DOMAIN r.ring = HashesOf(N) /\ Range(r.keys) = HashesOf(N)
      /\ N \subseteq Servers
  BY DEF RingOk, Range
<1>2. Range(ReplicaKeys(node)) = K
  BY ReplicaKeysHold
<1>3. /\ a.nodes = Without(r.nodes, {node})
      /\ a.keys = Without(r.keys, K)
      /\ a.ring = [k \in HashesOf(N) \ K |-> r.ring[k]]
  BY <1>1, <1>2 DEF RemoveNode, Restrict
<1>. HIDE DEF a
<1>4. /\ a.nodes \in Seq(Servers) /\ Range(a.nodes) = N \ {node}
      /\ a.keys \in Seq(Nat) /\ Range(a.keys) = HashesOf(N) \ K
  BY <1>1, <1>3, WithoutHolds
<1>5. HashesOf(N) \ K = HashesOf(N \ {node})
  <2>1. \A n \in N, i \in Replica :
          HashOf[<<n, i>>] \in K <=> n = node
    <3>1. ASSUME NEW k
          PROVE  k \in K <=> \E i \in Replica : k = HashOf[<<node, i>>]
      <4>1. ASSUME k \in K
            PROVE  \E i \in Replica : k = HashOf[<<node, i>>]
        <5>1. PICK x \in {node} \X Replica : k = HashOf[x]
          BY <4>1 DEF HashesOf
        <5>2. x = <<node, x[2]>> /\ x[2] \in Replica
          OBVIOUS
        <5>. QED
          BY <5>1, <5>2
      <4>2. ASSUME NEW i \in Replica, k = HashOf[<<node, i>>]
            PROVE  k \in K
        <5>1. <<node, i>> \in {node} \X Replica
          OBVIOUS
        <5>. QED
          BY <4>2, <5>1 DEF HashesOf
      <4>. QED
        BY <4>1, <4>2
    <3>2. \A n \in N, i, j \in Replica :
            HashOf[<<n, i>>] = HashOf[<<node, j>>] => n = node
      BY <1>1, HashType
    <3>. HIDE DEF K
    <3>3. \A n \in N, i \in Replica : n = node => HashOf[<<n, i>>] \in K
      BY <3>1
    <3>4. ASSUME NEW n \in N, NEW i \in Replica, HashOf[<<n, i>>] \in K
          PROVE  n = node
      <4>1. PICK j \in Replica : HashOf[<<n, i>>] = HashOf[<<node, j>>]
        BY <3>1, <3>4
      <4>. QED
        BY <3>2, <4>1
    <3>. QED
      BY <3>3, <3>4
  <2>. QED
    BY <2>1 DEF HashesOf
<1>6. PICK g : Embeds(g, a.nodes, r.nodes, {node})
  BY <1>1, <1>3, WithoutEmbeds
<1>7. PICK h : Embeds(h, a.keys, r.keys, K)
  BY <1>1, <1>3, WithoutEmbeds
<1>8. /\ DOMAIN a.keys = 1 .. Len(a.keys) /\ DOMAIN r.keys = 1 .. Len(r.keys)
      /\ DOMAIN a.nodes = 1 .. Len(a.nodes) /\ DOMAIN r.nodes = 1 .. Len(r.nodes)
  BY <1>1, <1>4
<1>9. \A i, j \in DOMAIN a.keys : i < j => a.keys[i] <= a.keys[j]
  <2>1. \A i, j \in DOMAIN r.keys : i < j => r.keys[i] <= r.keys[j]
    BY DEF RingOk
  <2>2. /\ \A n \in DOMAIN a.keys : h[n] \in DOMAIN r.keys /\ a.keys[n] = r.keys[h[n]]
        /\ \A n, m \in DOMAIN a.keys : n < m => h[n] < h[m]
    BY <1>7, <1>8 DEF Embeds
  <2>. QED
    BY <2>1, <2>2
<1>10. ASSUME NEW n \in N \ {node}, NEW i \in Replica
       PROVE  a.ring[HashOf[<<n, i>>]] = n
  <2>1. HashOf[<<n, i>>] \in HashesOf(N \ {node})
    BY DEF HashesOf
  <2>2. r.ring[HashOf[<<n, i>>]] = n
    BY DEF RingOk
  <2>. QED
    BY <1>3, <1>5, <2>1, <2>2
<1>11. ASSUME NEW i \in DOMAIN a.keys, NEW j \in DOMAIN a.keys,
              i # j, a.keys[i] = a.keys[j]
       PROVE  \E p, q \in DOMAIN a.nodes :
                p # q /\ a.nodes[p] = a.nodes[q] /\ a.nodes[p] = a.ring[a.keys[i]]
  <2>1. /\ h[i] \in DOMAIN r.keys /\ h[j] \in DOMAIN r.keys
        /\ a.keys[i] = r.keys[h[i]] /\ a.keys[j] = r.keys[h[j]]
    BY <1>7, <1>8 DEF Embeds
  <2>2. h[i] # h[j]
    <3>1. i \in Int /\ j \in Int /\ h[i] \in Int /\ h[j] \in Int
      BY <1>8, <2>1
    <3>2. i < j \/ j < i
      BY <1>11, <3>1
    <3>3. h[i] < h[j] \/ h[j] < h[i]
      BY <1>7, <1>8, <3>2 DEF Embeds
    <3>. QED
      BY <3>1, <3>3
  <2>3. PICK p \in DOMAIN r.nodes, q \in DOMAIN r.nodes :
               p # q /\ r.nodes[p] = r.nodes[q] /\ r.nodes[p] = r.ring[a.keys[i]]
    <3>1. h[i] # h[j] /\ r.keys[h[i]] = r.keys[h[j]]
      BY <1>11, <2>1, <2>2
    <3>2. \E p, q \in DOMAIN r.nodes :
            p # q /\ r.nodes[p] = r.nodes[q] /\ r.nodes[p] = r.ring[r.keys[h[i]]]
      BY <2>1, <3>1, Zenon DEF RingOk
    <3>. QED
      BY <2>1, <3>2
  <2>4. a.ring[a.keys[i]] = r.ring[a.keys[i]] /\ a.keys[i] \in HashesOf(N \ {node})
    BY <1>3, <1>4, <1>5 DEF Range
  <2>5. r.nodes[p] # node
    <3>1. PICK n \in N \ {node}, l \in Replica : a.keys[i] = HashOf[<<n, l>>]
      BY <2>4 DEF HashesOf
    <3>2. r.ring[a.keys[i]] = n
      BY <3>1 DEF RingOk
    <3>. QED
      BY <2>3, <3>1, <3>2
  <2>6. PICK x \in 1 .. Len(a.nodes) : g[x] = p
    BY <1>6, <1>8, <2>5 DEF Embeds
  <2>7. PICK y \in 1 .. Len(a.nodes) : g[y] = q
    BY <1>6, <1>8, <2>3, <2>5 DEF Embeds
  <2>8. a.nodes[x] = r.nodes[p] /\ a.nodes[y] = r.nodes[q] /\ x # y
    BY <1>6, <2>3, <2>6, <2>7 DEF Embeds
  <2>. QED
    BY <1>8, <2>3, <2>4, <2>8
<1>12. RingOk(a)
  BY <1>4, <1>5, <1>3, <1>9, <1>10, <1>11 DEF RingOk
<1>. QED
  BY <1>4, <1>12 DEF a

\* A new ring
BuiltUpTo(f, list, k) ==
  f = [s \in SUBSET (1 .. k) |->
         IF s = {} THEN EmptyRing ELSE AddNode(f[s \ {Max(s)}], list[Max(s)])]

LEMMA NewRingIs ==
  ASSUME NEW S, NEW list \in Seq(S)
  PROVE  NewRing(list) = (CHOOSE f : BuiltUpTo(f, list, Len(list)))[1 .. Len(list)]
<1>1. DOMAIN list = 1 .. Len(list)
  OBVIOUS
<1>. QED
  BY <1>1 DEF NewRing, FoldLeft, MapThenFoldSet, BuiltUpTo

\* The greatest of the first numbers, and the others.
LEMMA TopOf ==
  ASSUME NEW k \in Nat, NEW s \in SUBSET (1 .. k), s # {}
  PROVE  /\ Max(s) \in s
         /\ k \in s => Max(s) = k
         /\ s \ {Max(s)} \in SUBSET (1 .. k)
<1>1. s \in SUBSET Nat /\ IsFiniteSet(s)
  <2>1. IsFiniteSet(1 .. k) /\ 1 .. k \in SUBSET Nat
    BY IntervalSize
  <2>2. s \in SUBSET Nat
    BY <2>1
  <2>. QED
    BY <2>1, <2>2, FS_Subset
<1>2. Max(s) \in s /\ \A x \in s : x <= Max(s)
  BY <1>1, Greatest
<1>3. Max(s) \in 1 .. k
  BY <1>2
<1>4. k \in s => Max(s) = k
  <2>1. k \in s => k <= Max(s)
    BY <1>2
  <2>. HIDE DEF Max
  <2>. QED
    BY <1>3, <2>1
<1>. QED
  BY <1>2, <1>4

LEMMA BuiltExists ==
  ASSUME NEW list, NEW k \in Nat
  PROVE  \E f : BuiltUpTo(f, list, k)
<1> DEFINE Bad == {l \in Nat : ~ \E f : BuiltUpTo(f, list, l)}
<1>1. SUFFICES ASSUME Bad # {} PROVE FALSE
  OBVIOUS
<1>2. PICK l \in Bad : \A j \in Bad : l <= j
  <2>1. Bad \in SUBSET Nat
    OBVIOUS
  <2>2. Min(Bad) \in Bad /\ \A j \in Bad : Min(Bad) <= j
    BY <1>1, <2>1, Least
  <2>. QED
    BY <2>2
<1>3. l # 0
  <2>1. \A s \in SUBSET (1 .. 0) : s = {}
    OBVIOUS
  <2>2. BuiltUpTo([s \in SUBSET (1 .. 0) |-> EmptyRing], list, 0)
    BY <2>1 DEF BuiltUpTo
  <2>. QED
    BY <1>2, <2>2
<1>4. l - 1 \in Nat /\ ~(l <= l - 1)
  BY <1>2, <1>3
<1>5. PICK f : BuiltUpTo(f, list, l - 1)
  BY <1>2, <1>4
<1> DEFINE g == [s \in SUBSET (1 .. l) |->
                   IF l \in s THEN AddNode(f[s \ {l}], list[l]) ELSE f[s]]
<1>6. ASSUME NEW s \in SUBSET (1 .. l)
      PROVE  g[s] = IF s = {} THEN EmptyRing
                    ELSE AddNode(g[s \ {Max(s)}], list[Max(s)])
  <2>1. CASE l \in s
    <3>1. Max(s) = l
      BY <1>2, <2>1, TopOf
    <3>2. s \ {l} \in SUBSET (1 .. l) /\ l \notin s \ {l}
      BY <1>6
    <3>3. g[s \ {l}] = f[s \ {l}]
      BY <3>2
    <3>. QED
      BY <2>1, <3>1, <3>3
  <2>2. CASE l \notin s
    <3>1. s \in SUBSET (1 .. l - 1)
      BY <1>2, <1>6, <2>2
    <3>2. f[s] = IF s = {} THEN EmptyRing ELSE AddNode(f[s \ {Max(s)}], list[Max(s)])
      BY <1>5, <3>1 DEF BuiltUpTo
    <3>3. s \ {Max(s)} \in SUBSET (1 .. l) /\ l \notin s \ {Max(s)}
      BY <2>2
    <3>4. g[s] = f[s] /\ g[s \ {Max(s)}] = f[s \ {Max(s)}]
      BY <2>2, <3>3
    <3>. QED
      BY <3>2, <3>4
  <2>. QED
    BY <2>1, <2>2
<1>7. BuiltUpTo(g, list, l)
  <2>1. g = [s \in SUBSET (1 .. l) |->
               IF s = {} THEN EmptyRing ELSE AddNode(g[s \ {Max(s)}], list[Max(s)])]
    BY <1>6, Zenon
  <2>. QED
    BY <2>1, Zenon DEF BuiltUpTo
<1>. QED
  BY <1>2, <1>7

\* ConsistentHash
LEMMA NewRingOk ==
  ASSUME NEW list \in Seq(Servers)
  PROVE  RingOk(NewRing(list)) /\ Range(NewRing(list).nodes) = Range(list)
<1> DEFINE L == Len(list)
           f == CHOOSE g : BuiltUpTo(g, list, L)
           Good(l) == /\ RingOk(f[1 .. l])
                      /\ Range(f[1 .. l].nodes) = {list[i] : i \in 1 .. l}
           Bad == {l \in 0 .. L : ~Good(l)}
<1>0. L \in Nat /\ DOMAIN list = 1 .. L /\ \A i \in 1 .. L : list[i] \in Servers
  OBVIOUS
<1>1. BuiltUpTo(f, list, L)
  <2>1. \E g : BuiltUpTo(g, list, L)
    BY <1>0, BuiltExists
  <2>. QED
    BY <2>1
<1>. HIDE DEF f
<1>2. ASSUME Bad # {}
      PROVE  FALSE
  <2>1. Bad \in SUBSET Nat
    OBVIOUS
  <2>2. PICK l \in Bad : \A j \in Bad : l <= j
    <3>1. Min(Bad) \in Bad /\ \A j \in Bad : Min(Bad) <= j
      BY <1>2, <2>1, Least
    <3>. QED
      BY <3>1
  <2>3. l \in 0 .. L /\ l \in Nat /\ ~Good(l)
    BY <2>2
  <2>4. CASE l = 0
    <3>1. 1 .. 0 = {} /\ {} \in SUBSET (1 .. L)
      OBVIOUS
    <3>2. f[{}] = EmptyRing
      BY <1>1, <3>1 DEF BuiltUpTo
    <3>3. EmptyRing.nodes = <<>> /\ Range(<<>>) = {} /\ {list[i] : i \in {}} = {}
      BY DEF EmptyRing, Range
    <3>. QED
      BY <2>3, <2>4, <3>1, <3>2, <3>3, EmptyRingOk
  <2>5. CASE l # 0
    <3>1. l - 1 \in 0 .. L /\ ~(l <= l - 1) /\ l \in 1 .. L
      BY <1>0, <2>3, <2>5
    <3>2. Good(l - 1)
      BY <2>2, <3>1
    <3>3. /\ 1 .. l \in SUBSET (1 .. L) /\ 1 .. l # {} /\ l \in 1 .. l
          /\ (1 .. l) \ {l} = 1 .. l - 1
      <4>1. l \in Nat /\ 1 <= l /\ l <= L
        BY <1>0, <2>3, <3>1
      <4>. HIDE DEF L
      <4>2. \A i : i \in 1 .. l - 1 <=> i \in 1 .. l /\ i # l
        BY <4>1
      <4>3. 1 .. l \in SUBSET (1 .. L) /\ l \in 1 .. l
        BY <1>0, <4>1
      <4>. QED
        BY <4>2, <4>3
    <3>4. Max(1 .. l) = l
      BY <2>3, <3>3, TopOf
    <3>5. f[1 .. l] = AddNode(f[1 .. l - 1], list[l])
      BY <1>1, <3>3, <3>4 DEF BuiltUpTo
    <3>6. /\ RingOk(f[1 .. l])
          /\ Range(f[1 .. l].nodes) = Range(f[1 .. l - 1].nodes) \union {list[l]}
      <4>1. RingOk(f[1 .. l - 1]) /\ list[l] \in Servers
        BY <1>0, <3>1, <3>2
      <4> DEFINE r == f[1 .. l - 1]
      <4>2. /\ RingOk(AddNode(r, list[l]))
            /\ Range(AddNode(r, list[l]).nodes) = Range(r.nodes) \union {list[l]}
        <5>. HIDE DEF r
        <5>1. RingOk(r)
          BY <4>1 DEF r
        <5>. QED
          BY <4>1, <5>1, AddNodeOk
      <4>. QED
        BY <3>5, <4>2
    <3>7. {list[i] : i \in 1 .. l} = {list[i] : i \in 1 .. l - 1} \union {list[l]}
      BY <3>3
    <3>. QED
      BY <2>3, <3>2, <3>6, <3>7
  <2>. QED
    BY <2>4, <2>5
<1>3. Good(L)
  <2>1. L \in 0 .. L
    BY <1>0
  <2>. HIDE DEF L, Good
  <2>2. L \notin Bad
    BY <1>2
  <2>. QED
    BY <2>1, <2>2
<1>4. NewRing(list) = f[1 .. L]
  BY NewRingIs DEF f
<1>. QED
  BY <1>0, <1>3, <1>4 DEF Range

-----------------------------------------------------------------------------
(* The search of the ring.                                                 *)

Ranges(last) == (0 .. last + 1) \X (-1 .. last)

\* One step of the search, of the rest of which f knows the outcome.
SearchStep(f, keys, hash, range) ==
  LET lower == range[1] upper == range[2] idx == (lower + upper) \div 2 IN
    IF lower > upper THEN upper
    ELSE IF keys[idx + 1] = hash THEN idx
    ELSE IF keys[idx + 1] > hash THEN f[<<lower, idx - 1>>]
    ELSE f[<<idx + 1, upper>>]

Searches(f, keys, hash, D) == f = [range \in D |-> SearchStep(f, keys, hash, range)]

LEMMA SearchIs ==
  ASSUME NEW r, NEW hash
  PROVE  Search(r, hash) =
           (CHOOSE f : Searches(f, r.keys, hash, Ranges(KeysLength(r) - 1)))
             [<<0, KeysLength(r) - 1>>]
BY DEF Search, Searches, SearchStep, Ranges

\* The ranges that have at most n places.
Short(last, n) == {range \in Ranges(last) : range[2] - range[1] < n}

\* The steps lead to shorter ranges.
LEMMA Halves ==
  ASSUME NEW last \in Int, NEW range \in Ranges(last), range[1] <= range[2]
  PROVE  LET idx == (range[1] + range[2]) \div 2 IN
           /\ idx \in range[1] .. range[2] /\ idx \in 0 .. last
           /\ range[1] \in 0 .. last /\ range[2] \in 0 .. last
           /\ <<range[1], idx - 1>> \in Ranges(last)
           /\ <<idx + 1, range[2]>> \in Ranges(last)
           /\ (idx - 1) - range[1] < range[2] - range[1]
           /\ range[2] - (idx + 1) < range[2] - range[1]
<1> DEFINE l == range[1]
           u == range[2]
           idx == (l + u) \div 2
<1>1. l \in 0 .. last + 1 /\ u \in -1 .. last
  BY DEF Ranges
<1>2. l \in Int /\ u \in Int /\ 0 <= l /\ l <= u /\ u <= last
  BY <1>1
<1>. HIDE DEF l, u
<1>3. idx \in Int /\ l <= idx /\ idx <= u
  BY <1>2
<1>. HIDE DEF idx
<1>4. /\ idx \in l .. u /\ idx \in 0 .. last /\ l \in 0 .. last /\ u \in 0 .. last
      /\ idx - 1 \in -1 .. last /\ idx + 1 \in 0 .. last + 1 /\ l \in 0 .. last + 1
      /\ u \in -1 .. last
      /\ (idx - 1) - l < u - l /\ u - (idx + 1) < u - l
  BY <1>2, <1>3
<1>5. <<l, idx - 1>> \in Ranges(last) /\ <<idx + 1, u>> \in Ranges(last)
  BY <1>4 DEF Ranges
<1>. QED
  BY <1>4, <1>5 DEF l, u, idx

LEMMA SearchExists ==
  ASSUME NEW last \in Int, NEW keys, NEW hash, NEW k \in Nat
  PROVE  \E f : Searches(f, keys, hash, Short(last, k))
<1> DEFINE Bad == {n \in Nat : ~ \E f : Searches(f, keys, hash, Short(last, n))}
<1>1. SUFFICES ASSUME Bad # {} PROVE FALSE
  OBVIOUS
<1>2. PICK n \in Bad : \A j \in Bad : n <= j
  <2>1. Bad \in SUBSET Nat
    OBVIOUS
  <2>2. Min(Bad) \in Bad /\ \A j \in Bad : Min(Bad) <= j
    BY <1>1, <2>1, Least
  <2>. QED
    BY <2>2
<1>3. ASSUME NEW m \in Nat, m = n - 1 \/ m = 0,
             NEW f, m = n - 1 => Searches(f, keys, hash, Short(last, m)),
             n = 0 \/ m = n - 1
      PROVE  FALSE
  <2> DEFINE D == Short(last, n)
             g == [range \in D |-> SearchStep(f, keys, hash, range)]
  <2>1. ASSUME NEW range \in D
        PROVE  SearchStep(f, keys, hash, range) = SearchStep(g, keys, hash, range)
    <3> DEFINE l == range[1]
               u == range[2]
               idx == (l + u) \div 2
    <3>0. range \in Ranges(last) /\ u - l < n /\ l \in Int /\ u \in Int
      BY DEF Short, Ranges
    <3>1. CASE l > u
      BY <3>1 DEF SearchStep
    <3>2. CASE l <= u
      <4>1. m = n - 1 /\ n \in Nat
        BY <1>2, <1>3, <3>0, <3>2
      <4>2. /\ idx \in Int
            /\ <<l, idx - 1>> \in Ranges(last) /\ <<idx + 1, u>> \in Ranges(last)
            /\ (idx - 1) - l < u - l /\ u - (idx + 1) < u - l
        BY <3>0, <3>2, Halves
      <4>. HIDE DEF l, u, idx
      <4>3. /\ (idx - 1) - l < m /\ u - (idx + 1) < m
            /\ (idx - 1) - l < n /\ u - (idx + 1) < n
        BY <3>0, <4>1, <4>2
      <4>4. /\ <<l, idx - 1>> \in Short(last, m) /\ <<idx + 1, u>> \in Short(last, m)
            /\ <<l, idx - 1>> \in D /\ <<idx + 1, u>> \in D
        BY <4>2, <4>3 DEF Short
      <4>5. \A x \in Short(last, m) : f[x] = SearchStep(f, keys, hash, x)
        BY <1>3, <4>1 DEF Searches
      <4>6. f[<<l, idx - 1>>] = g[<<l, idx - 1>>] /\ f[<<idx + 1, u>>] = g[<<idx + 1, u>>]
        BY <4>4, <4>5
      <4>. HIDE DEF g
      <4>. QED
        BY <4>6 DEF SearchStep, l, u, idx
    <3>. QED
      BY <3>0, <3>1, <3>2
  <2>2. Searches(g, keys, hash, D)
    <3>1. g = [range \in D |-> SearchStep(g, keys, hash, range)]
      BY <2>1, Zenon
    <3>. QED
      BY <3>1, Zenon DEF Searches
  <2>. QED
    BY <1>2, <2>2
<1>4. CASE n = 0
  BY <1>3, <1>4
<1>5. CASE n # 0
  <2>1. n - 1 \in Nat /\ ~(n <= n - 1)
    BY <1>2, <1>5
  <2>2. PICK f : Searches(f, keys, hash, Short(last, n - 1))
    BY <1>2, <2>1
  <2>. QED
    BY <1>3, <2>1, <2>2
<1>. QED
  BY <1>4, <1>5

\* The keys of the range that is left, from which lower and upper are places.
Found(keys, hash, lower, upper, p) ==
  /\ p \in lower - 1 .. upper
  /\ (\A i, j \in DOMAIN keys : i < j => keys[i] < keys[j])
       => /\ \A i \in lower .. p : keys[i + 1] <= hash
          /\ \A i \in p + 1 .. upper : hash < keys[i + 1]

\* The search ends within the keys, at the last one that is at or below the hash
\* if the keys are different.
LEMMA SearchFinds ==
  ASSUME NEW r, r.keys \in Seq(Nat), KeysLength(r) \in 1 .. Len(r.keys), NEW hash \in Int
  PROVE  Found(r.keys, hash, 0, KeysLength(r) - 1, Search(r, hash))
<1> DEFINE keys == r.keys
           last == KeysLength(r) - 1
           f == CHOOSE g : Searches(g, keys, hash, Ranges(last))
           Good(x) == Found(keys, hash, x[1], x[2], f[x])
           Sizes == {n \in Nat : \E x \in Ranges(last) :
                                   x[2] - x[1] + 1 = n /\ ~Good(x)}
<1>1. /\ Len(keys) \in Nat /\ last \in Nat /\ last < Len(keys)
      /\ DOMAIN keys = 1 .. Len(keys)
      /\ \A i \in 1 .. Len(keys) : keys[i] \in Nat
  OBVIOUS
<1>2. Search(r, hash) = f[<<0, last>>]
  BY SearchIs
<1>. HIDE DEF keys, last
<1>3. Searches(f, keys, hash, Ranges(last))
  <2>1. PICK g : Searches(g, keys, hash, Short(last, last + 2))
    <3>1. last \in Int /\ last + 2 \in Nat
      BY <1>1
    <3>. QED
      BY <3>1, SearchExists
  <2>2. \A x \in Ranges(last) : x[2] - x[1] < last + 2
    <3>1. \A x \in Ranges(last) : x[1] \in 0 .. last + 1 /\ x[2] \in -1 .. last
      BY DEF Ranges
    <3>. QED
      BY <1>1, <3>1
  <2>3. Short(last, last + 2) = Ranges(last)
    BY <2>2 DEF Short
  <2>. QED
    BY <2>1, <2>3
<1>. HIDE DEF f
<1>4. ASSUME Sizes # {}
      PROVE  FALSE
  <2>1. Sizes \in SUBSET Nat
    OBVIOUS
  <2>2. PICK n \in Sizes : \A m \in Sizes : n <= m
    <3>1. Min(Sizes) \in Sizes /\ \A m \in Sizes : Min(Sizes) <= m
      BY <1>4, <2>1, Least
    <3>. QED
      BY <3>1
  <2>3. PICK x \in Ranges(last) : x[2] - x[1] + 1 = n /\ ~Good(x)
    BY <2>2
  <2> DEFINE l == x[1]
             u == x[2]
             idx == (l + u) \div 2
  <2>4. n \in Nat /\ u - l + 1 = n /\ l \in Int /\ u \in Int /\ l <= u + 1 /\ x = <<l, u>> /\ l \in 0 .. last + 1
    <3>1. n \in Nat /\ l \in Int /\ u \in Int /\ x = <<l, u>> /\ l \in 0 .. last + 1
      BY <2>2 DEF Ranges
    <3>2. u - l + 1 = n
      BY <2>3
    <3>. HIDE DEF l, u
    <3>. QED
      BY <3>1, <3>2
  <2>5. f[x] = SearchStep(f, keys, hash, x)
    BY <1>3 DEF Searches
  <2>6. CASE l > u
    <3>1. f[x] = u
      BY <2>5, <2>6 DEF SearchStep
    <3>. QED
      BY <2>3, <2>4, <2>6, <3>1 DEF Found
  <2>7. CASE l <= u
    <3>1. /\ idx \in l .. u /\ idx \in 0 .. last /\ l \in 0 .. last /\ u \in 0 .. last
          /\ <<l, idx - 1>> \in Ranges(last) /\ <<idx + 1, u>> \in Ranges(last)
      BY <1>1, <2>7, Halves
    <3>2. f[x] = IF keys[idx + 1] = hash THEN idx
                 ELSE IF keys[idx + 1] > hash THEN f[<<l, idx - 1>>]
                 ELSE f[<<idx + 1, u>>]
      BY <2>4, <2>5, <2>7 DEF SearchStep
    <3>. HIDE DEF idx
    <3>3. ASSUME NEW y \in Ranges(last), y[2] - y[1] < u - l, y[1] <= y[2] + 1
          PROVE  Good(y)
      <4>1. y[2] \in Int /\ y[1] \in Int
        BY DEF Ranges
      <4>2. y[2] - y[1] + 1 \in Nat /\ ~(n <= y[2] - y[1] + 1)
        <5> DEFINE v == y[1]
                   w == y[2]
        <5>1. v \in Int /\ w \in Int /\ w - v < u - l /\ v <= w + 1
          BY <3>3, <4>1
        <5>2. n \in Nat /\ u - l + 1 = n /\ l \in Int /\ u \in Int
          BY <2>4
        <5>. HIDE DEF v, w, l, u
        <5>3. w - v + 1 \in Nat /\ ~(n <= w - v + 1)
          BY <5>1, <5>2
        <5>. QED
          BY <5>3 DEF v, w
      <4>3. y[2] - y[1] + 1 \notin Sizes
        BY <2>2, <4>2
      <4>. QED
        BY <4>2, <4>3
    <3>4. idx + 1 \in DOMAIN keys /\ keys[idx + 1] \in Nat /\ idx \in Int
      BY <1>1, <3>1
    <3>. HIDE DEF l, u, Good
    <3>5. ASSUME \A i, j \in DOMAIN keys : i < j => keys[i] < keys[j]
          PROVE  /\ \A i \in l .. idx : i + 1 \in DOMAIN keys /\ keys[i + 1] <= keys[idx + 1]
                 /\ \A i \in idx .. u : i + 1 \in DOMAIN keys /\ keys[idx + 1] <= keys[i + 1]
                 /\ \A i \in idx + 1 .. u : keys[idx + 1] < keys[i + 1]
      <4>1. \A i \in l .. u : i \in Int /\ i + 1 \in DOMAIN keys /\ keys[i + 1] \in Nat
        BY <1>1, <3>1
      <4>2. \A i \in l .. u : i < idx => keys[i + 1] < keys[idx + 1]
        BY <3>4, <3>5, <4>1
      <4>3. \A i \in l .. u : idx < i => keys[idx + 1] < keys[i + 1]
        BY <3>4, <3>5, <4>1
      <4>4. \A i \in l .. idx : i \in l .. u /\ (i < idx \/ i = idx)
        BY <2>4, <3>1, <3>4
      <4>5. \A i \in idx .. u : i \in l .. u /\ (idx < i \/ i = idx)
        BY <2>4, <3>1, <3>4
      <4>6. \A i \in idx + 1 .. u : i \in l .. u /\ idx < i
        BY <2>4, <3>1, <3>4
      <4>7. \A i \in l .. u : i + 1 \in DOMAIN keys /\ keys[i + 1] \in Nat
        BY <4>1
      <4>8. \A i \in l .. idx : i + 1 \in DOMAIN keys /\ keys[i + 1] <= keys[idx + 1]
        BY <3>4, <4>2, <4>4, <4>7
      <4>9. \A i \in idx .. u : i + 1 \in DOMAIN keys /\ keys[idx + 1] <= keys[i + 1]
        BY <3>4, <4>3, <4>5, <4>7
      <4>. QED
        BY <4>3, <4>6, <4>8, <4>9
    <3>6. CASE keys[idx + 1] = hash
      <4>1. f[x] = idx
        BY <3>2, <3>6
      <4>2. Found(keys, hash, l, u, idx)
        BY <3>1, <3>5, <3>6 DEF Found
      <4>. QED
        BY <2>3, <4>1, <4>2 DEF Good, l, u
    <3>7. CASE keys[idx + 1] > hash
      <4>1. f[x] = f[<<l, idx - 1>>]
        BY <3>2, <3>4, <3>7
      <4>2. (idx - 1) - l < u - l /\ l <= (idx - 1) + 1
        BY <3>1, <2>4
      <4>3. Good(<<l, idx - 1>>)
        BY <3>1, <3>3, <4>2
      <4>4. Found(keys, hash, l, idx - 1, f[x])
        BY <4>1, <4>3 DEF Good
      <4>5. Found(keys, hash, l, u, f[x])
        <5>1. f[x] \in l - 1 .. idx - 1 /\ f[x] \in Int
          BY <4>4 DEF Found
        <5>2. ASSUME \A i, j \in DOMAIN keys : i < j => keys[i] < keys[j]
              PROVE  /\ \A i \in l .. f[x] : keys[i + 1] <= hash
                     /\ \A i \in f[x] + 1 .. u : hash < keys[i + 1]
          <6>1. /\ \A i \in l .. f[x] : keys[i + 1] <= hash
                /\ \A i \in f[x] + 1 .. idx - 1 : hash < keys[i + 1]
            BY <4>4, <5>2 DEF Found
          <6>2. \A i \in idx .. u : hash < keys[i + 1]
            <7>1. \A i \in idx .. u : keys[i + 1] \in Nat /\ keys[idx + 1] <= keys[i + 1]
              BY <1>1, <3>5, <5>2
            <7>. QED
              BY <3>4, <3>7, <7>1
          <6>3. \A i \in f[x] + 1 .. u : i \in f[x] + 1 .. idx - 1 \/ i \in idx .. u
            BY <2>4, <3>1, <5>1
          <6>. QED
            BY <6>1, <6>2, <6>3
        <5>3. f[x] \in l - 1 .. u
          BY <2>4, <3>1, <5>1
        <5>. QED
          BY <5>2, <5>3 DEF Found
      <4>. QED
        BY <2>3, <4>5 DEF Good, l, u
    <3>8. CASE keys[idx + 1] < hash
      <4>1. f[x] = f[<<idx + 1, u>>]
        BY <3>2, <3>4, <3>8
      <4>2. u - (idx + 1) < u - l /\ idx + 1 <= u + 1
        BY <3>1, <2>4
      <4>3. Good(<<idx + 1, u>>)
        BY <3>1, <3>3, <4>2
      <4>4. Found(keys, hash, idx + 1, u, f[x])
        BY <4>1, <4>3 DEF Good
      <4>5. Found(keys, hash, l, u, f[x])
        <5>1. f[x] \in idx .. u /\ f[x] \in Int
          BY <3>4, <4>4 DEF Found
        <5>2. ASSUME \A i, j \in DOMAIN keys : i < j => keys[i] < keys[j]
              PROVE  /\ \A i \in l .. f[x] : keys[i + 1] <= hash
                     /\ \A i \in f[x] + 1 .. u : hash < keys[i + 1]
          <6>1. /\ \A i \in idx + 1 .. f[x] : keys[i + 1] <= hash
                /\ \A i \in f[x] + 1 .. u : hash < keys[i + 1]
            BY <4>4, <5>2 DEF Found
          <6>2. \A i \in l .. idx : keys[i + 1] <= hash
            <7>1. \A i \in l .. idx : keys[i + 1] \in Nat /\ keys[i + 1] <= keys[idx + 1]
              BY <1>1, <3>5, <5>2
            <7>. QED
              BY <3>4, <3>8, <7>1
          <6>3. \A i \in l .. f[x] : i \in idx + 1 .. f[x] \/ i \in l .. idx
            BY <2>4, <3>1, <5>1
          <6>. QED
            BY <6>1, <6>2, <6>3
        <5>3. f[x] \in l - 1 .. u
          BY <2>4, <3>1, <5>1
        <5>. QED
          BY <5>2, <5>3 DEF Found
      <4>. QED
        BY <2>3, <4>5 DEF Good, l, u
    <3>. QED
      BY <3>4, <3>6, <3>7, <3>8
  <2>. QED
    BY <2>4, <2>6, <2>7
<1>5. <<0, last>> \in Ranges(last) /\ last - 0 + 1 \in Nat
  BY <1>1 DEF Ranges
<1>6. Good(<<0, last>>)
  BY <1>4, <1>5
<1>. QED
  BY <1>2, <1>6 DEF keys, last

LEMMA KeysLengthHolds ==
  ASSUME NEW r, RingOk(r)
  PROVE  /\ KeysLength(r) \in 0 .. Len(r.keys)
         /\ KeysLength(r) = 0 <=> Range(r.nodes) = {}
         /\ IsInjective(r.keys) => KeysLength(r) = Len(r.keys)
<1> DEFINE K == Range(r.keys)
<1>1. /\ Len(r.keys) \in Nat /\ DOMAIN r.keys = 1 .. Len(r.keys)
      /\ DOMAIN r.ring = K /\ K = HashesOf(Range(r.nodes))
      /\ r.keys \in Surjection(1 .. Len(r.keys), K)
  BY DEF RingOk, Surjection, Range
<1>2. KeysLength(r) = Cardinality(K)
  BY <1>1 DEF KeysLength
<1>3. IsFiniteSet(1 .. Len(r.keys)) /\ Cardinality(1 .. Len(r.keys)) = Len(r.keys)
  BY <1>1, IntervalSize
<1>. HIDE DEF K
<1>4. /\ IsFiniteSet(K) /\ Cardinality(K) <= Len(r.keys)
      /\ r.keys \in Injection(1 .. Len(r.keys), K) => Cardinality(K) = Len(r.keys)
  BY <1>1, <1>3, FS_Surjection
<1>5. Cardinality(K) \in Nat /\ (Cardinality(K) = 0 <=> K = {})
  BY <1>4, FS_CardinalityType, FS_EmptySet
<1>6. K = {} <=> Range(r.nodes) = {}
  <2>1. 0 \in Replica
    BY RingAssumption DEF Replica
  <2>2. ASSUME NEW n \in Range(r.nodes)
        PROVE  K # {}
    <3>1. HashOf[<<n, 0>>] \in HashesOf(Range(r.nodes))
      BY <2>1, InHashes
    <3>. QED
      BY <1>1, <3>1
  <2>3. ASSUME NEW k \in K
        PROVE  Range(r.nodes) # {}
    <3>1. k \in HashesOf(Range(r.nodes))
      BY <1>1
    <3>2. PICK x \in Range(r.nodes) \X Replica : k = HashOf[x]
      BY <3>1 DEF HashesOf
    <3>. QED
      BY <3>2
  <2>. QED
    BY <2>2, <2>3
<1>7. IsInjective(r.keys) => r.keys \in Injection(1 .. Len(r.keys), K)
  BY <1>1 DEF Surjection, Injection
<1>. QED
  BY <1>1, <1>2, <1>4, <1>5, <1>6, <1>7

\* Where getNode looks, if there are keys.
LEMMA PositionHolds ==
  ASSUME NEW r, RingOk(r), NEW hash \in Int, KeysLength(r) # 0
  PROVE  /\ NodePosition(r, hash) + 1 \in DOMAIN r.keys
         /\ NodePosition(r, hash) =
              IF Search(r, hash) < 0 THEN KeysLength(r) - 1 ELSE Search(r, hash)
         /\ Found(r.keys, hash, 0, KeysLength(r) - 1, Search(r, hash))
<1>1. /\ r.keys \in Seq(Nat) /\ DOMAIN r.keys = 1 .. Len(r.keys)
      /\ KeysLength(r) \in 1 .. Len(r.keys) /\ Len(r.keys) \in Nat
  BY KeysLengthHolds DEF RingOk
<1>2. Found(r.keys, hash, 0, KeysLength(r) - 1, Search(r, hash))
  BY <1>1, SearchFinds
<1>3. Search(r, hash) \in -1 .. KeysLength(r) - 1
  BY <1>2 DEF Found
<1>4. NodePosition(r, hash) =
              IF Search(r, hash) < 0 THEN KeysLength(r) - 1 ELSE Search(r, hash)
  BY <1>1, <1>3 DEF NodePosition
<1>5. NodePosition(r, hash) \in 0 .. KeysLength(r) - 1
  BY <1>1, <1>3, <1>4
<1>6. NodePosition(r, hash) + 1 \in DOMAIN r.keys
  BY <1>1, <1>5
<1>. QED
  BY <1>2, <1>4, <1>6

LEMMA GetNodeOk ==
  ASSUME NEW r, RingOk(r), NEW hash \in Int
  PROVE  GetNode(r, hash) \in Range(r.nodes) \union {NoNode}
<1>1. CASE KeysLength(r) = 0
  BY <1>1 DEF GetNode
<1>2. CASE KeysLength(r) # 0
  <2> DEFINE k == r.keys[NodePosition(r, hash) + 1]
  <2>1. k \in HashesOf(Range(r.nodes))
    BY <1>2, PositionHolds DEF RingOk, Range
  <2>2. PICK n \in Range(r.nodes), i \in Replica : k = HashOf[<<n, i>>]
    BY <2>1, InHashes
  <2>3. r.ring[k] = n
    BY <2>2 DEF RingOk
  <2>. QED
    BY <1>2, <2>3 DEF GetNode
<1>. QED
  BY <1>1, <1>2

\* The keys of different nodes are different.
LEMMA KeysDiffer ==
  ASSUME NEW r, RingOk(r), IsInjective(r.nodes)
  PROVE  /\ \A i, j \in DOMAIN r.keys : i < j => r.keys[i] < r.keys[j]
         /\ IsInjective(r.keys)
<1>1. /\ DOMAIN r.keys = 1 .. Len(r.keys) /\ Len(r.keys) \in Nat
      /\ \A i \in DOMAIN r.keys : r.keys[i] \in Nat
  BY DEF RingOk
<1>2. \A i, j \in DOMAIN r.keys : r.keys[i] = r.keys[j] => i = j
  BY DEF RingOk, IsInjective
<1>3. ASSUME NEW i \in DOMAIN r.keys, NEW j \in DOMAIN r.keys, i < j
      PROVE  r.keys[i] < r.keys[j]
  <2>1. r.keys[i] <= r.keys[j]
    BY <1>3 DEF RingOk
  <2>2. r.keys[i] # r.keys[j]
    BY <1>1, <1>2, <1>3
  <2>. QED
    BY <1>1, <2>1, <2>2
<1>. QED
  BY <1>2, <1>3 DEF IsInjective

\* The node of the key with the greatest hash of some replicas.
LEMMA OwnerIs ==
  ASSUME NEW r, RingOk(r), NEW from \in SUBSET (Range(r.nodes) \X Replica),
         NEW n, NEW i, <<n, i>> \in from,
         \A x \in from : HashOf[x] <= HashOf[<<n, i>>]
  PROVE  (CHOOSE x \in from : HashOf[x] = Max({HashOf[y] : y \in from}))[1] = n
<1> DEFINE V == {HashOf[y] : y \in from}
           k == HashOf[<<n, i>>]
<1>1. Range(r.nodes) \subseteq Servers
  BY DEF RingOk, Range
<1>2. \A x \in from : \E m \in Servers, j \in Replica : x = <<m, j>>
  BY <1>1
<1>3. \A x \in from : HashOf[x] \in Nat /\ (HashOf[x] = k => x = <<n, i>>)
  <2>1. n \in Servers /\ i \in Replica
    BY <1>1
  <2>. QED
    BY <1>2, <2>1, HashType
<1>4. k \in V /\ \A v \in V : v \in Nat /\ v <= k
  BY <1>3
<1>5. \A w \in V : (\A v \in V : w >= v) => w = k
  <2>. HIDE DEF V, k
  <2>. QED
    BY <1>4
<1>6. Max(V) = k
  <2>1. k \in V /\ \A v \in V : k >= v
    BY <1>4
  <2>. HIDE DEF V, k
  <2>. QED
    BY <1>5, <2>1 DEF Max
<1> DEFINE c == CHOOSE x \in from : HashOf[x] = k
<1>7. c \in from /\ HashOf[c] = k
  OBVIOUS
<1>8. c = <<n, i>>
  BY <1>3, <1>7
<1>9. c[1] = n
  <2>. HIDE DEF c
  <2>. QED
    BY <1>8
<1>. QED
  BY <1>6, <1>9

LEMMA GetNodeOwns ==
  ASSUME NEW r, RingOk(r), IsInjective(r.nodes), NEW hash \in Int
  PROVE  GetNode(r, hash) = Owner(r.nodes, hash)
<1> DEFINE N == Range(r.nodes)
           keys == r.keys
           replicas == N \X Replica
           below == {x \in replicas : HashOf[x] <= hash}
           from == IF below = {} THEN replicas ELSE below
<1>1. Owner(r.nodes, hash) =
        IF from = {} THEN NoNode
        ELSE (CHOOSE x \in from : HashOf[x] = Max({HashOf[y] : y \in from}))[1]
  BY DEF Owner, Replica
<1>2. N = {} => from = {}
  OBVIOUS
<1>3. CASE KeysLength(r) = 0
  <2>1. N = {}
    BY <1>3, KeysLengthHolds
  <2>2. from = {}
    BY <1>2, <2>1
  <2>. QED
    BY <1>1, <1>3, <2>2 DEF GetNode
<1>4. CASE KeysLength(r) # 0
  <2> DEFINE L == Len(keys)
             p == Search(r, hash)
             q == NodePosition(r, hash)
             k == keys[q + 1]
  <2>1. /\ L \in Nat /\ DOMAIN keys = 1 .. L /\ L # 0
        /\ \A j \in 1 .. L : keys[j] \in Nat
        /\ KeysLength(r) = L
    BY <1>4, KeysDiffer, KeysLengthHolds DEF RingOk
  <2>2. /\ \A i, j \in DOMAIN keys : i < j => keys[i] < keys[j]
        /\ q = IF p < 0 THEN L - 1 ELSE p
        /\ Found(keys, hash, 0, L - 1, p)
        /\ q + 1 \in 1 .. L
    BY <1>4, <2>1, KeysDiffer, PositionHolds
  <2>3. /\ p \in -1 .. L - 1
        /\ \A i \in 0 .. p : keys[i + 1] <= hash
        /\ \A i \in p + 1 .. L - 1 : hash < keys[i + 1]
    BY <2>2 DEF Found
  <2>4. PICK n \in N, i \in Replica : k = HashOf[<<n, i>>]
    <3>1. k \in HashesOf(N)
      BY <2>1, <2>2 DEF RingOk, Range
    <3>. QED
      BY <3>1, InHashes
  <2>5. GetNode(r, hash) = n
    <3>1. r.ring[k] = n
      BY <2>4 DEF RingOk
    <3>. QED
      BY <1>4, <3>1 DEF GetNode
  <2>6. ASSUME NEW x \in replicas
        PROVE  \E j \in 1 .. L : keys[j] = HashOf[x]
    <3>1. HashOf[x] \in HashesOf(N)
      BY DEF HashesOf
    <3>2. HashOf[x] \in Range(keys)
      BY <3>1 DEF RingOk
    <3>. QED
      BY <2>1, <3>2 DEF Range
  <2>. HIDE DEF keys, p, q, N
  <2>7. CASE p < 0
    <3>1. q + 1 = L /\ \A j \in 1 .. L : hash < keys[j]
      <4>1. q + 1 = L /\ p = -1
        BY <2>1, <2>2, <2>3, <2>7
      <4>2. \A j \in 1 .. L : j - 1 \in p + 1 .. L - 1 /\ j - 1 + 1 = j
        BY <2>1, <4>1
      <4>. QED
        BY <2>3, <4>1, <4>2
    <3>2. below = {}
      <4>1. \A x \in replicas : HashOf[x] \in Nat /\ hash < HashOf[x]
        BY <2>1, <2>6, <3>1
      <4>. QED
        BY <4>1
    <3>3. \A j \in 1 .. L : keys[j] <= k
      <4>1. \A j \in 1 .. L : j < L \/ j = L
        <5>. HIDE DEF L
        <5>. QED
          BY <2>1
      <4>2. k = keys[L] /\ L \in DOMAIN keys
        BY <2>1, <2>2, <3>1
      <4>3. ASSUME NEW j \in 1 .. L
            PROVE  keys[j] <= keys[L]
        <5>. HIDE DEF L
        <5>1. keys[j] \in Nat /\ keys[L] \in Nat /\ (j < L => keys[j] < keys[L])
          BY <2>1, <2>2, <4>2
        <5>. QED
          BY <4>1, <5>1
      <4>. QED
        BY <4>2, <4>3
    <3>4. <<n, i>> \in from /\ \A x \in from : HashOf[x] <= HashOf[<<n, i>>]
      BY <2>4, <2>6, <3>2, <3>3
    <3>5. from \in SUBSET (N \X Replica) /\ from # {}
      BY <3>4
    <3>. HIDE DEF from
    <3>6. (CHOOSE x \in from : HashOf[x] = Max({HashOf[y] : y \in from}))[1] = n
      BY <3>4, <3>5, OwnerIs DEF N
    <3>. QED
      BY <1>1, <2>5, <3>5, <3>6
  <2>8. CASE ~(p < 0)
    <3>1. q = p /\ k <= hash /\ p \in 0 .. L - 1
      BY <2>1, <2>2, <2>3, <2>8
    <3>2. <<n, i>> \in below
      BY <2>4, <3>1
    <3>3. ASSUME NEW x \in below
          PROVE  HashOf[x] <= HashOf[<<n, i>>]
      <4>1. PICK j \in 1 .. L : keys[j] = HashOf[x]
        BY <2>6
      <4>2. ~(hash < keys[j])
        <5>1. HashOf[x] <= hash
          OBVIOUS
        <5>. QED
          BY <2>1, <4>1, <5>1
      <4>3. j - 1 \notin p + 1 .. L - 1
        <5>1. j - 1 + 1 = j
          OBVIOUS
        <5>. QED
          BY <2>3, <4>2, <5>1
      <4>4. j = q + 1 \/ j < q + 1
        <5>. HIDE DEF L
        <5>. QED
          BY <2>1, <3>1, <4>3
      <4>5. keys[j] <= k
        <5>1. k \in Nat /\ (j < q + 1 => keys[j] < k) /\ keys[j] \in Nat
          BY <2>1, <2>2
        <5>. QED
          BY <4>4, <5>1
      <4>. QED
        BY <2>4, <4>1, <4>5
    <3>4. <<n, i>> \in from /\ (\A x \in from : HashOf[x] <= HashOf[<<n, i>>])
          /\ from \in SUBSET (N \X Replica) /\ from # {}
      BY <3>2, <3>3
    <3>. HIDE DEF from
    <3>6. (CHOOSE x \in from : HashOf[x] = Max({HashOf[y] : y \in from}))[1] = n
      BY <3>4, OwnerIs DEF N
    <3>. QED
      BY <1>1, <2>5, <3>4, <3>6
  <2>. QED
    BY <2>7, <2>8
<1>. QED
  BY <1>3, <1>4

-----------------------------------------------------------------------------
(* The lists of servers.                                                   *)

\* Infos, as addServers and replaceServers are given them.
LEMMA WeightsNowHolds == WeightsNow \subseteq Weights
<1>1. Max(Weights) \in Weights
  BY ServersAssumption, Greatest
<1>. QED
  BY <1>1 DEF WeightsNow

LEMMA InfosHold ==
  ASSUME NEW infos \in InfoLists
  PROVE  /\ IdsOf(infos) \in Seq(Servers) /\ IsInjective(IdsOf(infos))
         /\ \A s \in Range(IdsOf(infos)) : WeightIn(infos, s) \in Weights
<1>. PICK ids \in IdLists :
       \E weight \in [Range(ids) -> WeightsNow] :
         infos = [i \in DOMAIN ids |-> [id |-> ids[i], weight |-> weight[ids[i]]]]
  BY DEF InfoLists
<1>1. PICK weight \in [Range(ids) -> WeightsNow] :
        infos = [i \in DOMAIN ids |-> [id |-> ids[i], weight |-> weight[ids[i]]]]
  OBVIOUS
<1>2. PICK S \in SUBSET Servers : ids \in SetToSeqs(S)
  BY DEF IdLists, SetToAllKPermutations
<1>3. /\ ids \in [1 .. Cardinality(S) -> S]
      /\ \A i, j \in 1 .. Cardinality(S) : i # j => ids[i] # ids[j]
  BY <1>2 DEF SetToSeqs
<1>4. IsFiniteSet(S) /\ Cardinality(S) \in Nat
  BY ServersAssumption, FS_Subset, FS_CardinalityType
<1>5. ids \in Seq(Servers) /\ IsInjective(ids)
  <2>1. ids \in [1 .. Cardinality(S) -> Servers]
    BY <1>3
  <2>2. ids \in Seq(Servers)
    BY <1>4, <2>1
  <2>. QED
    BY <1>3, <2>2 DEF IsInjective
<1>6. IdsOf(infos) = [i \in DOMAIN ids |-> ids[i]]
  BY <1>1 DEF IdsOf
<1>7. IdsOf(infos) = ids
  BY <1>5, <1>6
<1>8. ASSUME NEW s \in Range(ids)
      PROVE  WeightIn(infos, s) \in Weights
  <2> DEFINE c == CHOOSE i \in DOMAIN infos : infos[i].id = s
  <2>1. \E i \in DOMAIN infos : infos[i].id = s
    BY <1>1 DEF Range
  <2>2. c \in DOMAIN infos
    BY <2>1
  <2>. HIDE DEF c
  <2>3. c \in DOMAIN ids /\ infos[c].weight = weight[ids[c]]
    BY <1>1, <2>2
  <2>4. weight[ids[c]] \in Weights
    BY <2>3, WeightsNowHolds DEF Range
  <2>. QED
    BY <2>3, <2>4 DEF WeightIn, c
<1>. QED
  BY <1>5, <1>7, <1>8

LEMMA ListsOfHolds ==
  ASSUME NEW infos \in InfoLists
  PROVE  /\ ListsOf(infos) \in [Types -> Seq(Servers)]
         /\ \A t \in Types :
              /\ Range(ListsOf(infos)[t]) = {s \in Range(IdsOf(infos)) : TypeOf[s] = t}
              /\ IsInjective(ListsOf(infos)[t])
<1> DEFINE ids == IdsOf(infos)
           Others(t) == {s \in Servers : TypeOf[s] # t}
<1>1. ids \in Seq(Servers) /\ IsInjective(ids) /\ Range(ids) \subseteq Servers
  BY InfosHold DEF Range
<1>. HIDE DEF ids
<1>2. ASSUME NEW t \in Types
      PROVE  /\ Without(ids, Others(t)) \in Seq(Servers)
             /\ Range(Without(ids, Others(t))) = Range(ids) \ Others(t)
             /\ IsInjective(Without(ids, Others(t)))
  BY <1>1, WithoutHolds
<1>3. \A t \in Types : Range(ids) \ Others(t) = {s \in Range(ids) : TypeOf[s] = t}
  BY <1>1
<1>4. ListsOf(infos) = [t \in Types |-> Without(ids, Others(t))]
  BY DEF ListsOf, ids
<1>. HIDE DEF Others
<1>. QED
  BY <1>2, <1>3, <1>4 DEF ids

\* The list of a type holds servers of this type, of which there is an info,
\* each once.
ListsOk ==
  /\ DOMAIN servers \subseteq Servers
  /\ \A s \in DOMAIN servers : servers[s] \in Weights
  /\ serversMap \in [Types -> Seq(Servers)]
  /\ \A t \in Types :
       /\ \A s \in Range(serversMap[t]) : s \in DOMAIN servers /\ TypeOf[s] = t
       /\ IsInjective(serversMap[t])

LEMMA StationInitOk ==
  ASSUME NEW infos \in InfoLists, StationInit(infos)
  PROVE  ListsOk
<1>1. /\ IdsOf(infos) \in Seq(Servers)
      /\ \A s \in Range(IdsOf(infos)) : WeightIn(infos, s) \in Weights
  BY InfosHold
<1>2. Range(IdsOf(infos)) \subseteq Servers
  BY <1>1 DEF Range
<1>. QED
  BY <1>1, <1>2, ListsOfHolds DEF StationInit, ListsOk

LEMMA ReplaceServersOk ==
  ASSUME ListsOk, NEW infos \in InfoLists, ReplaceServers(infos)
  PROVE  ListsOk'
<1>1. /\ IdsOf(infos) \in Seq(Servers)
      /\ \A s \in Range(IdsOf(infos)) : WeightIn(infos, s) \in Weights
  BY InfosHold
<1>2. Range(IdsOf(infos)) \subseteq Servers
  BY <1>1 DEF Range
<1>3. /\ DOMAIN servers' = DOMAIN servers \union Range(IdsOf(infos))
      /\ \A s \in DOMAIN servers' :
           servers'[s] = IF s \in Range(IdsOf(infos)) THEN WeightIn(infos, s)
                         ELSE servers[s]
      /\ serversMap' = ListsOf(infos)
  BY DEF ReplaceServers
<1>. QED
  BY <1>1, <1>2, <1>3, ListsOfHolds DEF ListsOk

LEMMA AppendHolds ==
  ASSUME NEW T, NEW list \in Seq(T), NEW e \in T
  PROVE  /\ Append(list, e) \in Seq(T)
         /\ Range(Append(list, e)) = Range(list) \union {e}
         /\ IsInjective(list) /\ e \notin Range(list) => IsInjective(Append(list, e))
<1> DEFINE a == Append(list, e)
<1>1. /\ a \in Seq(T) /\ Len(a) = Len(list) + 1 /\ a[Len(list) + 1] = e
      /\ \A i \in 1 .. Len(list) : a[i] = list[i]
      /\ DOMAIN list = 1 .. Len(list) /\ DOMAIN a = 1 .. Len(a) /\ Len(list) \in Nat
  BY AppendProperties
<1>. HIDE DEF a
<1>2. /\ \A i \in 1 .. Len(a) : i \in 1 .. Len(list) \/ i = Len(list) + 1
      /\ Len(list) + 1 \in 1 .. Len(a) /\ 1 .. Len(list) \subseteq 1 .. Len(a)
  BY <1>1
<1>3. Range(a) = Range(list) \union {e}
  BY <1>1, <1>2 DEF Range
<1>4. ASSUME IsInjective(list), e \notin Range(list)
      PROVE  IsInjective(a)
  <2>1. \A i \in 1 .. Len(list) : list[i] # e
    BY <1>1, <1>4 DEF Range
  <2>2. \A i, j \in 1 .. Len(list) : list[i] = list[j] => i = j
    BY <1>1, <1>4 DEF IsInjective
  <2>. QED
    BY <1>1, <1>2, <2>1, <2>2 DEF IsInjective
<1>. QED
  BY <1>1, <1>3, <1>4 DEF a

LEMMA ContainsHolds ==
  ASSUME NEW T, NEW list \in Seq(T), NEW e
  PROVE  Contains(list, e) <=> e \in Range(list)
BY DEF Contains, Range

LEMMA AddServerOk ==
  ASSUME ListsOk, NEW s \in Servers, NEW weight \in WeightsNow, AddServer(s, weight)
  PROVE  /\ ListsOk'
         /\ \A t \in Types : Range(serversMap'[t]) \subseteq Range(serversMap[t]) \union {s}
<1> DEFINE list == serversMap[TypeOf[s]]
<1>1. TypeOf[s] \in Types /\ weight \in Weights /\ list \in Seq(Servers)
  BY ServersAssumption, WeightsNowHolds DEF ListsOk
<1>2. /\ DOMAIN servers' = DOMAIN servers \union {s}
      /\ \A i \in DOMAIN servers' : servers'[i] = IF i = s THEN weight ELSE servers[i]
  BY DEF AddServer, WithInfo
<1>3. \A t \in Types : \A i \in Range(serversMap[t]) : i \in DOMAIN servers'
  BY <1>2 DEF ListsOk
<1>4. CASE Contains(list, s)
  <2>1. serversMap' = serversMap
    BY <1>4 DEF AddServer
  <2>. QED
    BY <1>1, <1>2, <1>3, <2>1 DEF ListsOk
<1>5. CASE ~Contains(list, s)
  <2>1. serversMap' = [serversMap EXCEPT ![TypeOf[s]] = Append(list, s)]
    BY <1>5 DEF AddServer
  <2>2. s \notin Range(list) /\ IsInjective(list)
    BY <1>1, <1>5, ContainsHolds DEF ListsOk
  <2>3. /\ Append(list, s) \in Seq(Servers) /\ IsInjective(Append(list, s))
        /\ Range(Append(list, s)) = Range(list) \union {s}
    BY <1>1, <2>2, AppendHolds
  <2>4. ASSUME NEW t \in Types
        PROVE  /\ serversMap'[t] \in Seq(Servers) /\ IsInjective(serversMap'[t])
               /\ Range(serversMap'[t]) \subseteq Range(serversMap[t]) \union {s}
               /\ \A i \in Range(serversMap'[t]) : i \in DOMAIN servers' /\ TypeOf[i] = t
    <3>1. CASE t = TypeOf[s]
      <4>1. serversMap'[t] = Append(list, s)
        BY <2>1, <3>1 DEF ListsOk
      <4>2. \A i \in Range(list) : i \in DOMAIN servers' /\ TypeOf[i] = t
        BY <1>3, <3>1 DEF ListsOk
      <4>. HIDE DEF list
      <4>. QED
        BY <1>2, <2>3, <3>1, <4>1, <4>2 DEF list
    <3>2. CASE t # TypeOf[s]
      <4>1. serversMap'[t] = serversMap[t]
        BY <2>1, <3>2 DEF ListsOk
      <4>. QED
        BY <1>3, <4>1 DEF ListsOk
    <3>. QED
      BY <3>1, <3>2
  <2>5. serversMap' \in [Types -> Seq(Servers)]
    <3>. HIDE DEF list
    <3>. QED
      BY <2>1, <2>3 DEF ListsOk
  <2>. QED
    BY <1>1, <1>2, <2>4, <2>5 DEF ListsOk
<1>. QED
  BY <1>4, <1>5

LEMMA SpliceOk ==
  ASSUME ListsOk, NEW s \in Servers, Splice(s)
  PROVE  /\ ListsOk'
         /\ \A t \in Types : Range(serversMap'[t]) \subseteq Range(serversMap[t])
<1> DEFINE list == serversMap[TypeOf[s]]
<1>1. TypeOf[s] \in Types /\ list \in Seq(Servers) /\ IsInjective(list)
  BY ServersAssumption DEF ListsOk
<1>2. /\ Without(list, {s}) \in Seq(Servers) /\ IsInjective(Without(list, {s}))
      /\ Range(Without(list, {s})) = Range(list) \ {s}
  BY <1>1, WithoutHolds
<1>3. servers' = servers /\ serversMap' = [serversMap EXCEPT ![TypeOf[s]] = Without(list, {s})]
  BY DEF Splice
<1>4. ASSUME NEW t \in Types
      PROVE  /\ serversMap'[t] \in Seq(Servers) /\ IsInjective(serversMap'[t])
             /\ Range(serversMap'[t]) \subseteq Range(serversMap[t])
  <2>1. serversMap'[t] = IF t = TypeOf[s] THEN Without(list, {s}) ELSE serversMap[t]
    BY <1>3 DEF ListsOk
  <2>2. CASE t = TypeOf[s]
    BY <1>2, <2>1, <2>2
  <2>3. CASE t # TypeOf[s]
    BY <2>1, <2>3 DEF ListsOk
  <2>. QED
    BY <2>2, <2>3
<1>5. serversMap' \in [Types -> Seq(Servers)]
  <2>. HIDE DEF list
  <2>. QED
    BY <1>2, <1>3 DEF ListsOk
<1>. QED
  BY <1>3, <1>4, <1>5 DEF ListsOk

\* What a step that is no change of the servers leaves alone.
LEMMA RouteOrChange ==
  ASSUME Next
  PROVE  \/ \E t \in Types : GetRouteTarget(t) /\ UNCHANGED <<station, schedule, changes>>
         \/ Stored /\ UNCHANGED <<station, schedule, routes, changes, histories>>
         \/ \E s \in Servers : \E weight \in WeightsNow : ServerAdded(s, weight)
         \/ \E s \in Servers : ServerRemoved(s) \/ FailedOver(s)
         \/ \E infos \in InfoLists : ServersReplaced(infos)
<1>1. ASSUME NEW t \in Types, GetRouteTarget(t)
      PROVE  UNCHANGED <<station, schedule, changes>>
  BY <1>1 DEF GetRouteTarget, Rr, Wrr, La, Ch, Rd, RouteTo
<1>2. ASSUME Stored
      PROVE  UNCHANGED <<station, schedule, routes, changes, histories>>
  BY <1>2 DEF Stored, RrDone, ChDone
<1>. QED
  BY <1>1, <1>2 DEF Next

LEMMA ListsInv == Spec => []ListsOk
<1>1. Init => ListsOk
  BY StationInitOk DEF Init
<1>2. ListsOk /\ [Next]_vars => ListsOk'
  <2> SUFFICES ASSUME ListsOk, [Next]_vars
               PROVE  ListsOk'
    OBVIOUS
  <2>1. CASE UNCHANGED station
    BY <2>1 DEF ListsOk, station
  <2>2. ASSUME NEW s \in Servers, NEW weight \in WeightsNow, ServerAdded(s, weight)
        PROVE  ListsOk'
    BY <2>2, AddServerOk DEF ServerAdded
  <2>3. ASSUME NEW s \in Servers, ServerRemoved(s)
        PROVE  ListsOk'
    BY <2>1, <2>3 DEF ServerRemoved
  <2>4. ASSUME NEW s \in Servers, FailedOver(s)
        PROVE  ListsOk'
    BY <2>4, SpliceOk DEF FailedOver
  <2>5. ASSUME NEW infos \in InfoLists, ServersReplaced(infos)
        PROVE  ListsOk'
    BY <2>5, ReplaceServersOk DEF ServersReplaced
  <2>. QED
    BY <2>1, <2>2, <2>3, <2>4, <2>5, RouteOrChange DEF vars
<1>. QED
  BY <1>1, <1>2, PTL DEF Spec

-----------------------------------------------------------------------------
(* What the routers store after their callbacks, and the rings.            *)

FramesOk ==
  /\ \E S : storing \in Seq(S)
  /\ Len(storing) <= MaxNested + 1
  /\ \A i \in DOMAIN storing :
       /\ storing[i].type \in Types
       /\ storing[i] = [type |-> storing[i].type, value |-> storing[i].value]
       /\ schedule = "rr" => storing[i].value \in Nat
       /\ schedule = "ch" => RingOk(storing[i].value)

LEMMA Pushed ==
  ASSUME \E S : storing \in Seq(S), NEW t, NEW value, StoreAfter(t, value)
  PROVE  /\ \E S : storing' \in Seq(S)
         /\ Len(storing') = Len(storing) + 1 /\ Len(storing) \in Nat
         /\ DOMAIN storing = 1 .. Len(storing) /\ DOMAIN storing' = 1 .. Len(storing) + 1
         /\ \A i \in DOMAIN storing : i \in DOMAIN storing' /\ storing'[i] = storing[i]
         /\ storing'[Len(storing) + 1] = [type |-> t, value |-> value]
         /\ \A i \in DOMAIN storing' : i \in DOMAIN storing \/ i = Len(storing) + 1
<1> DEFINE e == [type |-> t, value |-> value]
<1>1. PICK S : storing \in Seq(S)
  OBVIOUS
<1>2. storing \in Seq(S \union {e}) /\ storing' = Append(storing, e)
  BY <1>1 DEF StoreAfter
<1>. HIDE DEF e
<1>3. /\ storing' \in Seq(S \union {e}) /\ Len(storing') = Len(storing) + 1
      /\ \A i \in 1 .. Len(storing) : storing'[i] = storing[i]
      /\ storing'[Len(storing) + 1] = e
  BY <1>2, AppendProperties
<1>4. /\ DOMAIN storing = 1 .. Len(storing) /\ DOMAIN storing' = 1 .. Len(storing')
      /\ Len(storing) \in Nat
  BY <1>1, <1>3
<1>. QED
  BY <1>3, <1>4 DEF e

LEMMA PushOk ==
  ASSUME FramesOk, Len(storing) <= MaxNested, schedule' = schedule,
         NEW t \in Types, NEW value,
         schedule = "rr" => value \in Nat,
         schedule = "ch" => RingOk(value),
         StoreAfter(t, value)
  PROVE  FramesOk'
<1>1. \E S : storing \in Seq(S)
  BY DEF FramesOk
<1>2. Len(storing') <= MaxNested + 1
  <2>1. Len(storing') = Len(storing) + 1 /\ Len(storing) \in Nat
    BY <1>1, Pushed
  <2>. QED
    BY <2>1, RoutingAssumption
<1>3. ASSUME NEW i \in DOMAIN storing'
      PROVE  /\ storing'[i].type \in Types
             /\ storing'[i] = [type |-> storing'[i].type, value |-> storing'[i].value]
             /\ schedule' = "rr" => storing'[i].value \in Nat
             /\ schedule' = "ch" => RingOk(storing'[i].value)
  <2>1. CASE i \in DOMAIN storing
    <3>1. storing'[i] = storing[i]
      BY <1>1, <2>1, Pushed
    <3>. QED
      BY <2>1, <3>1, Zenon DEF FramesOk
  <2>2. CASE i = Len(storing) + 1
    <3>1. storing'[i] = [type |-> t, value |-> value]
      BY <1>1, <2>2, Pushed
    <3>2. storing'[i].type = t /\ storing'[i].value = value
      BY <3>1
    <3>. QED
      BY <3>1, <3>2
  <2>. QED
    BY <1>1, <2>1, <2>2, Pushed
<1>. QED
  BY <1>1, <1>2, <1>3, Pushed DEF FramesOk

LEMMA Popped ==
  ASSUME \E S : storing \in Seq(S), storing # <<>>, storing' = Front(storing)
  PROVE  /\ \E S : storing' \in Seq(S)
         /\ Len(storing') = Len(storing) - 1 /\ Len(storing) \in Nat
         /\ DOMAIN storing = 1 .. Len(storing) /\ DOMAIN storing' = 1 .. Len(storing) - 1
         /\ \A i \in DOMAIN storing' : i \in DOMAIN storing /\ storing'[i] = storing[i]
         /\ Last(storing) = storing[Len(storing)] /\ Len(storing) \in DOMAIN storing
<1>1. PICK S : storing \in Seq(S)
  OBVIOUS
<1>2. Len(storing) \in Nat \ {0} /\ DOMAIN storing = 1 .. Len(storing)
  BY <1>1, EmptySeq
<1>3. storing' = [i \in 1 .. Len(storing) - 1 |-> storing[i]]
  BY <1>1, <1>2 DEF Front
<1>4. storing' \in Seq(S) /\ Len(storing') = Len(storing) - 1
  BY <1>1, <1>2, <1>3
<1>5. DOMAIN storing' = 1 .. Len(storing) - 1
      /\ \A i \in 1 .. Len(storing) - 1 : storing'[i] = storing[i]
  BY <1>3
<1>6. 1 .. Len(storing) - 1 \subseteq 1 .. Len(storing) /\ Len(storing) \in 1 .. Len(storing)
  BY <1>2
<1>. QED
  BY <1>2, <1>4, <1>5, <1>6 DEF Last

LEMMA PopOk ==
  ASSUME FramesOk, storing # <<>>, storing' = Front(storing), schedule' = schedule
  PROVE  /\ FramesOk' /\ Last(storing).type \in Types
         /\ schedule = "rr" => Last(storing).value \in Nat
         /\ schedule = "ch" => RingOk(Last(storing).value)
<1>1. \E S : storing \in Seq(S)
  BY DEF FramesOk
<1>2. /\ \E S : storing' \in Seq(S)
      /\ Len(storing') <= MaxNested + 1
      /\ \A i \in DOMAIN storing' : i \in DOMAIN storing /\ storing'[i] = storing[i]
  BY <1>1, Popped, RoutingAssumption DEF FramesOk
<1>3. Len(storing) \in DOMAIN storing /\ Last(storing) = storing[Len(storing)]
  BY <1>1, Popped
<1>4. FramesOk'
  BY <1>2, Zenon DEF FramesOk
<1>. QED
  BY <1>3, <1>4 DEF FramesOk

\* A ring that hears of a server has its nodes and the server, or without it.
Heard(r, s, added) == IF added THEN AddNode(r, s) ELSE RemoveNode(r, s)

LEMMA HeardOk ==
  ASSUME NEW r, RingOk(r), NEW s \in Servers, NEW added \in BOOLEAN
  PROVE  /\ RingOk(Heard(r, s, added))
         /\ Range(Heard(r, s, added).nodes) =
              IF added THEN Range(r.nodes) \union {s} ELSE Range(r.nodes) \ {s}
<1>1. CASE added
  <2>1. Heard(r, s, added) = AddNode(r, s)
    BY <1>1 DEF Heard
  <2>. QED
    BY <1>1, <2>1, AddNodeOk
<1>2. CASE ~added
  <2>1. Heard(r, s, added) = RemoveNode(r, s)
    BY <1>2 DEF Heard
  <2>. QED
    BY <1>2, <2>1, RemoveNodeOk
<1>. QED
  BY <1>1, <1>2

LEMMA FramesHear ==
  ASSUME FramesOk, NEW s \in Servers, NEW added \in BOOLEAN,
         RingsHear(s, added), schedule' = schedule
  PROVE  /\ FramesOk' /\ DOMAIN storing' = DOMAIN storing
         /\ \A i \in DOMAIN storing :
              /\ storing'[i].type = storing[i].type
              /\ schedule # "ch" => storing'[i] = storing[i]
              /\ schedule = "ch" => storing'[i].value = Heard(storing[i].value, s, added)
<1>1. CASE schedule # "ch"
  <2>1. storing' = storing
    BY <1>1 DEF RingsHear
  <2>. QED
    BY <1>1, <2>1 DEF FramesOk
<1>2. CASE schedule = "ch"
  <2>1. PICK S : storing \in Seq(S)
    BY DEF FramesOk
  <2>2. storing' = [i \in DOMAIN storing |->
                      [storing[i] EXCEPT !.value = Heard(storing[i].value, s, added)]]
    BY <1>2, Zenon DEF RingsHear, Heard
  <2>3. DOMAIN storing = 1 .. Len(storing) /\ Len(storing) \in Nat
    BY <2>1
  <2>4. ASSUME NEW i \in DOMAIN storing
        PROVE  storing'[i] = [type |-> storing[i].type,
                              value |-> Heard(storing[i].value, s, added)]
    <3>1. storing[i] = [type |-> storing[i].type, value |-> storing[i].value]
      BY DEF FramesOk
    <3>2. storing'[i] = [storing[i] EXCEPT !.value = Heard(storing[i].value, s, added)]
      BY <2>2
    <3>. QED
      BY <3>1, <3>2
  <2>5. /\ DOMAIN storing' = DOMAIN storing /\ Len(storing') = Len(storing)
        /\ \E T : storing' \in Seq(T)
    <3>. DEFINE T == {[storing[i] EXCEPT !.value = Heard(storing[i].value, s, added)] :
                       i \in DOMAIN storing}
    <3>1. storing' \in [1 .. Len(storing) -> T]
      BY <2>2, <2>3
    <3>2. DOMAIN storing' = DOMAIN storing
      BY <2>2
    <3>. HIDE DEF T
    <3>3. storing' \in Seq(T)
      BY <2>3, <3>1
    <3>. QED
      BY <2>3, <3>2, <3>3
  <2>6. ASSUME NEW i \in DOMAIN storing
        PROVE  RingOk(Heard(storing[i].value, s, added))
    BY <1>2, HeardOk DEF FramesOk
  <2>7. \A i \in DOMAIN storing :
          /\ storing'[i].type = storing[i].type
          /\ storing'[i].value = Heard(storing[i].value, s, added)
    <3> TAKE i \in DOMAIN storing
    <3>1. storing'[i] = [type |-> storing[i].type,
                         value |-> Heard(storing[i].value, s, added)]
      BY <2>4
    <3>. QED
      BY <3>1
  <2>8. FramesOk'
    BY <1>2, <2>4, <2>5, <2>6, <2>7 DEF FramesOk
  <2>. QED
    BY <1>2, <2>5, <2>7, <2>8
<1>. QED
  BY <1>1, <1>2

\* Rings, also those that are not stored yet, and servers removed since they
\* were created.
RingsOk ==
  /\ DOMAIN chParam \subseteq Types
  /\ \A t \in DOMAIN chParam :
       RingOk(chParam[t]) /\ Range(chParam[t].nodes) \intersect gone[t] = {}
  /\ schedule = "ch" =>
       \A i \in DOMAIN storing :
         Range(storing[i].value.nodes) \intersect gone[storing[i].type] = {}

StateOk ==
  /\ schedule \in Schedules
  /\ rrParam \in [Types -> Nat]
  /\ load \in [Servers -> Nat] /\ gone \in [Types -> SUBSET Servers]
  /\ routes \in 0 .. MaxRoutes /\ changes \in 0 .. MaxChanges
  /\ FramesOk /\ RingsOk

\* The actions.
LEMMA Steps ==
  ASSUME Next
  PROVE  \/ \E t \in Types :
              /\ MayRoute(t)
              /\ \/ schedule = "rr" /\ Rr(t)
                 \/ schedule = "wrr" /\ Wrr(t)
                 \/ schedule = "la" /\ La(t)
                 \/ schedule = "ch" /\ \E hash \in Hashes : Ch(t, hash)
                 \/ schedule \in {"rd", "df"} /\ Rd(t)
         \/ storing # <<>> /\ schedule = "rr" /\ RrDone
         \/ storing # <<>> /\ schedule = "ch" /\ ChDone
         \/ \E s \in Servers : \E weight \in WeightsNow : ServerAdded(s, weight)
         \/ \E s \in Servers : ServerRemoved(s)
         \/ \E s \in Servers : FailedOver(s)
         \/ \E infos \in InfoLists : ServersReplaced(infos)
BY DEF Next, GetRouteTarget, Stored

\* The servers to choose from, when there are some.
LEMMA ListHolds ==
  ASSUME ListsOk, NEW t \in Types, serversMap[t] # <<>>
  PROVE  /\ serversMap[t] \in Seq(Servers) /\ DOMAIN serversMap[t] = 1 .. Len(serversMap[t])
         /\ Len(serversMap[t]) \in Nat \ {0}
         /\ \A i \in 1 .. Len(serversMap[t]) :
              /\ serversMap[t][i] \in Servers /\ serversMap[t][i] \in DOMAIN servers
              /\ TypeOf[serversMap[t][i]] = t
<1>1. serversMap[t] \in Seq(Servers) /\ serversMap[t] # <<>>
  BY DEF ListsOk
<1>2. DOMAIN serversMap[t] = 1 .. Len(serversMap[t]) /\ Len(serversMap[t]) \in Nat \ {0}
  BY <1>1, EmptySeq
<1>3. \A i \in 1 .. Len(serversMap[t]) : serversMap[t][i] \in Range(serversMap[t])
  BY <1>2 DEF Range
<1>. QED
  BY <1>1, <1>2, <1>3 DEF ListsOk

LEMMA MayRouteHolds ==
  ASSUME ListsOk, NEW t \in Types, MayRoute(t)
  PROVE  /\ serversMap[t] \in Seq(Servers) /\ DOMAIN serversMap[t] = 1 .. Len(serversMap[t])
         /\ Len(serversMap[t]) \in Nat \ {0}
         /\ \A i \in 1 .. Len(serversMap[t]) :
              /\ serversMap[t][i] \in Servers /\ serversMap[t][i] \in DOMAIN servers
              /\ TypeOf[serversMap[t][i]] = t
BY ListHolds DEF MayRoute

LEMMA RouteCounts ==
  ASSUME StateOk, NEW t \in Types, MayRoute(t), NEW s, RouteTo(t, s)
  PROVE  routes' \in 0 .. MaxRoutes /\ changes' = changes /\ schedule' = schedule
<1>1. routes \in 0 .. MaxRoutes /\ routes < MaxRoutes /\ routes' = routes + 1
  BY DEF StateOk, MayRoute, RouteTo
<1>2. routes' \in 0 .. MaxRoutes
  BY <1>1, RoutingAssumption
<1>. QED
  BY <1>2 DEF RouteTo

LEMMA ChangeCounts ==
  ASSUME StateOk, Change
  PROVE  changes' \in 0 .. MaxChanges /\ routes' = routes /\ schedule' = schedule
         /\ rrParam' = rrParam /\ wrrParam' = wrrParam /\ laParam' = laParam /\ load' = load
<1>1. changes \in 0 .. MaxChanges /\ changes < MaxChanges /\ changes' = changes + 1
  BY DEF StateOk, Change
<1>2. changes' \in 0 .. MaxChanges
  BY <1>1, RoutingAssumption
<1>. QED
  BY <1>2 DEF Change

LEMMA StateInit == Init => StateOk
<1> SUFFICES ASSUME Init PROVE StateOk
  OBVIOUS
<1>1. /\ schedule \in Schedules
      /\ rrParam \in [Types -> Nat]
      /\ load \in [Servers -> Nat] /\ gone \in [Types -> SUBSET Servers]
      /\ routes \in 0 .. MaxRoutes /\ changes \in 0 .. MaxChanges
  BY RoutingAssumption DEF Init
<1>2. FramesOk
  <2>1. storing = <<>> /\ <<>> \in Seq({}) /\ Len(<<>>) = 0 /\ DOMAIN <<>> = {}
    BY DEF Init
  <2>. QED
    BY <2>1, RoutingAssumption DEF FramesOk
<1>3. RingsOk
  BY DEF Init, RingsOk
<1>. QED
  BY <1>1, <1>2, <1>3 DEF StateOk

LEMMA StateRr ==
  ASSUME ListsOk, StateOk, NEW t \in Types, MayRoute(t), schedule = "rr", Rr(t)
  PROVE  StateOk'
<1>1. /\ routes' \in 0 .. MaxRoutes /\ changes' = changes /\ schedule' = schedule
      /\ StoreAfter(t, rrParam[t] + 1) /\ UNCHANGED <<params, load, gone>>
  BY RouteCounts DEF Rr
<1>2. rrParam[t] + 1 \in Nat
  BY DEF StateOk
<1>3. FramesOk'
  BY <1>1, <1>2, PushOk DEF StateOk, MayRoute
<1>4. RingsOk'
  BY <1>1 DEF StateOk, RingsOk, params
<1>. QED
  BY <1>1, <1>3, <1>4 DEF StateOk, params

LEMMA StateCh ==
  ASSUME ListsOk, StateOk, NEW t \in Types, MayRoute(t), schedule = "ch",
         NEW hash \in Hashes, Ch(t, hash)
  PROVE  StateOk'
<1>1. CASE t \in DOMAIN chParam
  <2>1. /\ routes' \in 0 .. MaxRoutes /\ changes' = changes /\ schedule' = schedule
        /\ UNCHANGED <<storing, params, load, gone>>
    BY <1>1, RouteCounts DEF Ch
  <2>. QED
    BY <2>1 DEF StateOk, params, FramesOk, RingsOk
<1>2. CASE t \notin DOMAIN chParam
  <2> DEFINE con == NewRing(serversMap[t])
  <2>1. /\ routes' \in 0 .. MaxRoutes /\ changes' = changes /\ schedule' = schedule
        /\ StoreAfter(t, con) /\ gone' = [gone EXCEPT ![t] = {}]
        /\ UNCHANGED <<params, load>>
    BY <1>2, RouteCounts DEF Ch
  <2>2. RingOk(con)
    BY NewRingOk DEF ListsOk
  <2>. HIDE DEF con
  <2>3. FramesOk'
    BY <2>1, <2>2, PushOk DEF StateOk, MayRoute
  <2>4. gone' \in [Types -> SUBSET Servers] /\ gone'[t] = {}
        /\ \A u \in Types : gone'[u] \subseteq gone[u]
    BY <2>1 DEF StateOk
  <2>5. chParam' = chParam
    BY <2>1 DEF params
  <2>6. ASSUME NEW i \in DOMAIN storing'
        PROVE  Range(storing'[i].value.nodes) \intersect gone'[storing'[i].type] = {}
    <3>1. \E S : storing \in Seq(S)
      BY DEF StateOk, FramesOk
    <3>2. CASE i \in DOMAIN storing
      <4>1. storing'[i] = storing[i] /\ storing[i].type \in Types
        BY <2>1, <3>1, <3>2, Pushed DEF StateOk, FramesOk
      <4>2. Range(storing[i].value.nodes) \intersect gone[storing[i].type] = {}
        BY <3>2 DEF StateOk, RingsOk
      <4>. QED
        BY <2>4, <4>1, <4>2
    <3>3. CASE i = Len(storing) + 1
      <4>1. storing'[i] = [type |-> t, value |-> con]
        BY <2>1, <3>1, <3>3, Pushed
      <4>. QED
        BY <2>4, <4>1
    <3>. QED
      BY <2>1, <3>1, <3>2, <3>3, Pushed
  <2>7. RingsOk'
    BY <2>4, <2>5, <2>6 DEF StateOk, RingsOk
  <2>. QED
    BY <2>1, <2>3, <2>4, <2>7 DEF StateOk, params
<1>. QED
  BY <1>1, <1>2

LEMMA StateOther ==
  ASSUME ListsOk, StateOk, NEW t \in Types, MayRoute(t), Wrr(t) \/ La(t) \/ Rd(t)
  PROVE  StateOk'
<1>1. /\ routes' \in 0 .. MaxRoutes /\ changes' = changes /\ schedule' = schedule
      /\ UNCHANGED <<rrParam, chParam, storing, gone>>
  BY RouteCounts DEF Wrr, La, Rd, params
<1>2. load' \in [Servers -> Nat]
  <2>1. CASE Wrr(t) \/ Rd(t)
    BY <2>1 DEF Wrr, Rd, StateOk
  <2>2. CASE La(t)
    <3>1. PICK s : load' = [load EXCEPT ![s] = @ + 1]
      BY <2>2 DEF La
    <3>2. \A c \in Servers : load[c] \in Nat /\ load[c] + 1 \in Nat
      BY DEF StateOk
    <3>3. load' = [c \in Servers |-> IF c = s THEN load[s] + 1 ELSE load[c]]
      BY <3>1 DEF StateOk
    <3>. QED
      BY <3>2, <3>3
  <2>. QED
    BY <2>1, <2>2
<1>. QED
  BY <1>1, <1>2 DEF StateOk, FramesOk, RingsOk

LEMMA StateRrDone ==
  ASSUME StateOk, storing # <<>>, schedule = "rr", RrDone
  PROVE  StateOk'
<1>1. /\ rrParam' = [rrParam EXCEPT ![Last(storing).type] = Last(storing).value]
      /\ storing' = Front(storing)
      /\ UNCHANGED <<schedule, chParam, routes, changes, load, gone>>
  BY DEF RrDone, histories
<1>2. /\ FramesOk' /\ Last(storing).type \in Types /\ Last(storing).value \in Nat
  BY <1>1, PopOk DEF StateOk
<1>3. rrParam' \in [Types -> Nat]
  BY <1>1, <1>2 DEF StateOk
<1>4. RingsOk'
  BY <1>1 DEF StateOk, RingsOk
<1>. QED
  BY <1>1, <1>2, <1>3, <1>4 DEF StateOk

LEMMA StateChDone ==
  ASSUME StateOk, storing # <<>>, schedule = "ch", ChDone
  PROVE  StateOk'
<1> DEFINE frame == Last(storing)
<1>1. /\ chParam' = With(chParam, frame.type, frame.value)
      /\ storing' = Front(storing)
      /\ UNCHANGED <<schedule, rrParam, routes, changes, load, gone>>
  BY DEF ChDone, histories
<1>2. /\ FramesOk' /\ frame.type \in Types /\ RingOk(frame.value)
  BY <1>1, PopOk DEF StateOk
<1>3. \E S : storing \in Seq(S)
  BY DEF StateOk, FramesOk
<1>4. /\ frame = storing[Len(storing)] /\ Len(storing) \in DOMAIN storing
      /\ \A i \in DOMAIN storing' : i \in DOMAIN storing /\ storing'[i] = storing[i]
  BY <1>1, <1>3, Popped
<1>5. Range(frame.value.nodes) \intersect gone[frame.type] = {}
  BY <1>4 DEF StateOk, RingsOk
<1>. HIDE DEF frame
<1>6. /\ DOMAIN chParam' = DOMAIN chParam \union {frame.type}
      /\ \A t \in DOMAIN chParam' :
           chParam'[t] = IF t = frame.type THEN frame.value ELSE chParam[t]
  BY <1>1 DEF With
<1>7. RingsOk'
  BY <1>1, <1>2, <1>4, <1>5, <1>6 DEF StateOk, RingsOk
<1>. QED
  BY <1>1, <1>2, <1>7 DEF StateOk

\* The rings hear that a server was added or removed.
LEMMA StateHears ==
  ASSUME StateOk, NEW s \in Servers, NEW added \in BOOLEAN,
         RingsHear(s, added), schedule' = schedule,
         gone' \in [Types -> SUBSET Servers],
         \A t \in Types :
           \/ gone'[t] \subseteq IF added THEN gone[t] \ {s} ELSE gone[t] \union {s}
  PROVE  FramesOk' /\ RingsOk'
<1>1. /\ FramesOk /\ RingsOk /\ FramesOk' /\ DOMAIN storing' = DOMAIN storing
      /\ \A i \in DOMAIN storing :
              /\ storing'[i].type = storing[i].type
              /\ schedule = "ch" => storing'[i].value = Heard(storing[i].value, s, added)
  BY FramesHear DEF StateOk
<1>2. chParam' = [t \in DOMAIN chParam |-> Heard(chParam[t], s, added)]
  BY DEF RingsHear, Heard
<1>3. ASSUME NEW r, NEW t \in Types, RingOk(r), Range(r.nodes) \intersect gone[t] = {}
      PROVE  /\ RingOk(Heard(r, s, added))
             /\ Range(Heard(r, s, added).nodes) \intersect gone'[t] = {}
  <2>1. /\ RingOk(Heard(r, s, added))
        /\ Range(Heard(r, s, added).nodes) =
              IF added THEN Range(r.nodes) \union {s} ELSE Range(r.nodes) \ {s}
    BY <1>3, HeardOk
  <2>. QED
    BY <1>3, <2>1
<1>4. ASSUME NEW t \in DOMAIN chParam
      PROVE  RingOk(chParam'[t]) /\ Range(chParam'[t].nodes) \intersect gone'[t] = {}
  BY <1>1, <1>2, <1>3 DEF RingsOk
<1>5. ASSUME schedule = "ch", NEW i \in DOMAIN storing
      PROVE  Range(storing'[i].value.nodes) \intersect gone'[storing'[i].type] = {}
  <2>1. /\ storing[i].type \in Types /\ RingOk(storing[i].value)
        /\ Range(storing[i].value.nodes) \intersect gone[storing[i].type] = {}
    BY <1>1, <1>5, Zenon DEF RingsOk, FramesOk
  <2>2. /\ storing'[i].type = storing[i].type
        /\ storing'[i].value = Heard(storing[i].value, s, added)
    BY <1>1, <1>5
  <2>3. Range(Heard(storing[i].value, s, added).nodes)
          \intersect gone'[storing[i].type] = {}
    BY <1>3, <2>1
  <2>. QED
    BY <2>2, <2>3
<1>6. DOMAIN chParam' = DOMAIN chParam
  BY <1>2
<1>. QED
  BY <1>1, <1>4, <1>5, <1>6 DEF RingsOk

LEMMA StateAdded ==
  ASSUME StateOk, NEW s \in Servers, NEW weight, ServerAdded(s, weight)
  PROVE  StateOk'
<1>1. /\ RingsHear(s, TRUE) /\ Change
      /\ gone' = [t \in Types |-> gone[t] \ {s}]
  BY DEF ServerAdded
<1>2. /\ gone' \in [Types -> SUBSET Servers]
      /\ \A t \in Types : gone'[t] \subseteq gone[t] \ {s}
  BY <1>1 DEF StateOk
<1>3. FramesOk' /\ RingsOk'
  BY <1>1, <1>2, StateHears, ChangeCounts
<1>. QED
  BY <1>1, <1>2, <1>3, ChangeCounts DEF StateOk

LEMMA StateRemoved ==
  ASSUME StateOk, NEW s \in Servers, ServerRemoved(s)
  PROVE  StateOk'
<1>1. /\ RingsHear(s, FALSE) /\ Change
      /\ gone' = [t \in Types |-> IF HasRing(t) THEN gone[t] \union {s} ELSE {}]
  BY DEF ServerRemoved
<1>2. /\ gone' \in [Types -> SUBSET Servers]
      /\ \A t \in Types : gone'[t] \subseteq gone[t] \union {s}
  BY <1>1 DEF StateOk
<1>3. FramesOk' /\ RingsOk'
  BY <1>1, <1>2, StateHears, ChangeCounts
<1>. QED
  BY <1>1, <1>2, <1>3, ChangeCounts DEF StateOk

LEMMA StateUnheard ==
  ASSUME StateOk, Change, UNCHANGED <<chParam, storing, gone>>
  PROVE  StateOk'
BY ChangeCounts DEF StateOk, FramesOk, RingsOk

LEMMA StateInv == Spec => []StateOk
<1>1. ListsOk /\ StateOk /\ [Next]_vars => StateOk'
  <2> SUFFICES ASSUME ListsOk, StateOk, [Next]_vars
               PROVE  StateOk'
    OBVIOUS
  <2>1. CASE UNCHANGED vars
    BY <2>1 DEF vars, params, histories, StateOk, FramesOk, RingsOk
  <2>2. ASSUME NEW s \in Servers, FailedOver(s)
        PROVE  StateOk'
    BY <2>2, StateUnheard DEF FailedOver
  <2>3. ASSUME NEW infos \in InfoLists, ServersReplaced(infos)
        PROVE  StateOk'
    BY <2>3, StateUnheard DEF ServersReplaced
  <2>4. CASE Next
    BY <2>2, <2>3, <2>4, Steps, StateRr, StateCh, StateOther, StateRrDone,
       StateChDone, StateAdded, StateRemoved
  <2>. QED
    BY <2>1, <2>4
<1>. QED
  BY <1>1, StateInit, ListsInv, PTL DEF Spec

-----------------------------------------------------------------------------
(* The consistent hash.                                                    *)

\* No hash leads to a server that was removed since the ring was created: its
\* keys have left the ring, and those of the other nodes lead to these.
THEOREM RemovedServersNotRouted == Spec => []RemovedNotRouted
<1>1. StateOk => RemovedNotRouted
  <2> SUFFICES ASSUME StateOk, NEW t \in DOMAIN chParam, NEW hash \in Places
               PROVE  GetNode(chParam[t], hash) \notin gone[t]
    BY DEF RemovedNotRouted
  <2>1. /\ t \in Types /\ RingOk(chParam[t])
        /\ Range(chParam[t].nodes) \intersect gone[t] = {}
        /\ gone[t] \subseteq Servers
    BY DEF StateOk, RingsOk
  <2>2. hash \in Int
    BY DEF Places
  <2>3. GetNode(chParam[t], hash) \in Range(chParam[t].nodes) \union {NoNode}
    BY <2>1, <2>2, GetNodeOk
  <2>. QED
    BY <2>1, <2>3, RoutingAssumption
<1>. QED
  BY <1>1, StateInv, PTL

\* The binary search over the sorted keys finds the replica at or below every
\* hash, or else the last one, after any servers were added and removed.
THEOREM RingLooksUp == Spec => []RingLookup
<1>1. StateOk => RingLookup
  <2> SUFFICES ASSUME StateOk, NEW ring \in AllRings, IsInjective(ring.nodes),
                      NEW hash \in Places
               PROVE  GetNode(ring, hash) = Owner(ring.nodes, hash)
    BY DEF RingLookup
  <2>1. RingOk(ring)
    BY DEF AllRings, StateOk, RingsOk
  <2>2. hash \in Int
    BY DEF Places
  <2>. QED
    BY <2>1, <2>2, GetNodeOwns
<1>. QED
  BY <1>1, StateInv, PTL

-----------------------------------------------------------------------------
(* Least active.                                                           *)

\* The counts of a type are the loads of its servers, and before the first
\* route of a type its servers have none.
CountsOk ==
  /\ \A t \in DOMAIN laParam :
       /\ t \in Types
       /\ \A s \in DOMAIN laParam[t] :
            s \in Servers /\ TypeOf[s] = t /\ laParam[t][s] = load[s]
  /\ \A s \in Servers : TypeOf[s] \notin DOMAIN laParam => load[s] = 0

LEMMA MaxOfTwo ==
  ASSUME NEW a \in Int, NEW b \in Int
  PROVE  Max({a, b}) \in Int /\ a <= Max({a, b}) /\ b <= Max({a, b})
<1>1. \E x \in {a, b} : \A y \in {a, b} : x >= y
  <2>1. CASE a >= b
    <3>1. a \in {a, b} /\ \A y \in {a, b} : a >= y
      BY <2>1
    <3>. QED
      BY <3>1
  <2>2. CASE ~(a >= b)
    <3>1. b \in {a, b} /\ \A y \in {a, b} : b >= y
      BY <2>2
    <3>. QED
      BY <3>1
  <2>. QED
    BY <2>1, <2>2
<1> DEFINE m == Max({a, b})
<1>2. m \in {a, b} /\ \A y \in {a, b} : m >= y
  BY <1>1 DEF Max
<1>3. m \in Int /\ m >= a /\ m >= b
  BY <1>2
<1>. HIDE DEF m
<1>4. m \in Int /\ a <= m /\ b <= m
  BY <1>3
<1>. QED
  BY <1>4 DEF m

\* What a least active route does, with counts that are loads.
LEMMA LaStep ==
  ASSUME ListsOk, StateOk, CountsOk, NEW t \in Types, MayRoute(t), La(t)
  PROVE  /\ CountsOk'
         /\ \E s \in Servers :
              /\ TypeOf[s] = t /\ load' = [load EXCEPT ![s] = @ + 1]
              /\ \A other \in Range(serversMap[t]) :
                   t \in DOMAIN laParam /\ s \in DOMAIN laParam[t]
                     /\ other \in DOMAIN laParam[t] => load[s] <= load[other]
<1> DEFINE counts == IF t \in DOMAIN laParam THEN laParam[t]
                     ELSE [s \in Range(serversMap[t]) |-> 0]
<1>1. PICK s \in LeastActive(t, counts) :
        /\ laParam' = With(laParam, t, [c \in DOMAIN counts |->
                             IF c = s THEN counts[c] + 1 ELSE counts[c]])
        /\ load' = [load EXCEPT ![s] = @ + 1]
  BY DEF La
<1>2. /\ s \in Range(serversMap[t])
      /\ \A other \in Range(serversMap[t]) : CountOf(counts, s) <= CountOf(counts, other)
  BY DEF LeastActive
<1>3. s \in Servers /\ TypeOf[s] = t
  BY <1>2 DEF ListsOk
<1>4. \A c \in DOMAIN counts : c \in Servers /\ TypeOf[c] = t /\ counts[c] = load[c]
  <2>1. CASE t \in DOMAIN laParam
    BY <2>1 DEF CountsOk
  <2>2. CASE t \notin DOMAIN laParam
    <3>1. counts = [c \in Range(serversMap[t]) |-> 0]
      BY <2>2
    <3>. HIDE DEF counts
    <3>2. \A c \in Range(serversMap[t]) : c \in Servers /\ TypeOf[c] = t
      BY DEF ListsOk
    <3>. QED
      BY <2>2, <3>1, <3>2 DEF CountsOk
  <2>. QED
    BY <2>1, <2>2
<1>5. \A other \in Range(serversMap[t]) :
        t \in DOMAIN laParam /\ s \in DOMAIN laParam[t]
          /\ other \in DOMAIN laParam[t] => load[s] <= load[other]
  <2> SUFFICES ASSUME NEW other \in Range(serversMap[t]), t \in DOMAIN laParam,
                      s \in DOMAIN laParam[t], other \in DOMAIN laParam[t]
               PROVE  load[s] <= load[other]
    OBVIOUS
  <2>1. s \in DOMAIN counts /\ other \in DOMAIN counts
    OBVIOUS
  <2>. HIDE DEF counts
  <2>2. CountOf(counts, s) = load[s] /\ CountOf(counts, other) = load[other]
    BY <1>4, <2>1 DEF CountOf
  <2>. QED
    BY <1>2, <2>2
<1>6. CountsOk'
  <2>. HIDE DEF counts
  <2>1. /\ DOMAIN laParam' = DOMAIN laParam \union {t}
        /\ laParam'[t] = [c \in DOMAIN counts |->
                             IF c = s THEN counts[c] + 1 ELSE counts[c]]
        /\ \A u \in DOMAIN laParam : u # t => laParam'[u] = laParam[u]
    BY <1>1 DEF With
  <2>2. \A c \in Servers : load'[c] = IF c = s THEN load[c] + 1 ELSE load[c]
    BY <1>1 DEF StateOk
  <2>3. \A c \in DOMAIN laParam'[t] :
          c \in Servers /\ TypeOf[c] = t /\ laParam'[t][c] = load'[c]
    BY <1>4, <2>1, <2>2
  <2>4. ASSUME NEW u \in DOMAIN laParam, u # t
        PROVE  /\ u \in Types
               /\ \A c \in DOMAIN laParam'[u] :
                    c \in Servers /\ TypeOf[c] = u /\ laParam'[u][c] = load'[c]
    BY <1>3, <2>1, <2>2, <2>4 DEF CountsOk
  <2>5. \A c \in Servers : TypeOf[c] \notin DOMAIN laParam' => load'[c] = 0
    BY <1>3, <2>1, <2>2 DEF CountsOk
  <2>. QED
    BY <2>1, <2>3, <2>4, <2>5 DEF CountsOk
<1>. QED
  BY <1>1, <1>3, <1>5, <1>6

\* Only least active routes change the loads and the counts.
LEMMA LoadsStay ==
  ASSUME [Next]_vars
  PROVE  \/ \E t \in Types : MayRoute(t) /\ La(t)
         \/ UNCHANGED <<laParam, load>>
<1>1. CASE UNCHANGED vars
  BY <1>1 DEF vars, params, histories
<1>2. ASSUME NEW t \in Types, Rr(t) \/ Wrr(t) \/ Rd(t) \/ \E hash \in Hashes : Ch(t, hash)
      PROVE  UNCHANGED <<laParam, load>>
  BY <1>2 DEF Rr, Wrr, Rd, Ch, params
<1>3. ASSUME RrDone \/ ChDone
      PROVE  UNCHANGED <<laParam, load>>
  BY <1>3 DEF RrDone, ChDone, histories
<1>4. ASSUME Change
      PROVE  UNCHANGED <<laParam, load>>
  BY <1>4 DEF Change
<1>5. CASE Next
  BY <1>2, <1>3, <1>4, <1>5, Steps DEF ServerAdded, ServerRemoved, FailedOver, ServersReplaced
<1>. QED
  BY <1>1, <1>5

LEMMA CountsInv == Spec => []CountsOk
<1>1. Init => CountsOk
  BY DEF Init, CountsOk
<1>2. ListsOk /\ StateOk /\ CountsOk /\ [Next]_vars => CountsOk'
  <2> SUFFICES ASSUME ListsOk, StateOk, CountsOk, [Next]_vars
               PROVE  CountsOk'
    OBVIOUS
  <2>1. CASE UNCHANGED <<laParam, load>>
    BY <2>1 DEF CountsOk
  <2>2. ASSUME NEW t \in Types, MayRoute(t), La(t)
        PROVE  CountsOk'
    BY <2>2, LaStep
  <2>. QED
    BY <2>1, <2>2, LoadsStay
<1>. QED
  BY <1>1, <1>2, ListsInv, StateInv, PTL DEF Spec

\* No call widens the gap between two servers of the list that were in the list
\* of the first call, whatever servers left and came back in between.
THEOREM GapNeverWidens == Spec => NeverWidens
<1> DEFINE Narrow == \A t \in DOMAIN laParam :
             \A s, other \in DOMAIN laParam[t] \intersect Range(serversMap[t]) :
               load'[s] - load'[other] <= Max({1, load[s] - load[other]})
<1>1. ListsOk /\ StateOk /\ CountsOk /\ [Next]_vars => Narrow
  <2> SUFFICES ASSUME ListsOk, StateOk, CountsOk, [Next]_vars, NEW t \in DOMAIN laParam,
                      NEW s \in DOMAIN laParam[t] \intersect Range(serversMap[t]),
                      NEW other \in DOMAIN laParam[t] \intersect Range(serversMap[t])
               PROVE  load'[s] - load'[other] <= Max({1, load[s] - load[other]})
    OBVIOUS
  <2> DEFINE m == Max({1, load[s] - load[other]})
  <2>1. s \in Servers /\ other \in Servers /\ TypeOf[s] = t /\ TypeOf[other] = t
    BY DEF CountsOk
  <2>2. load[s] \in Nat /\ load[other] \in Nat
    BY <2>1 DEF StateOk
  <2>3. m \in Int /\ 1 <= m /\ load[s] - load[other] <= m
    <3>1. load[s] - load[other] \in Int /\ 1 \in Int
      BY <2>2
    <3>. QED
      BY <3>1, MaxOfTwo
  <2>. HIDE DEF m
  <2>4. load'[s] - load'[other] <= m
    <3>1. CASE UNCHANGED <<laParam, load>>
      BY <2>3, <3>1
    <3>2. ASSUME NEW u \in Types, MayRoute(u), La(u)
          PROVE  load'[s] - load'[other] <= m
      <4>1. PICK c \in Servers :
              /\ TypeOf[c] = u /\ load' = [load EXCEPT ![c] = @ + 1]
              /\ \A o \in Range(serversMap[u]) :
                   u \in DOMAIN laParam /\ c \in DOMAIN laParam[u]
                     /\ o \in DOMAIN laParam[u] => load[c] <= load[o]
        BY <3>2, LaStep
      <4>2. /\ load'[s] = IF s = c THEN load[s] + 1 ELSE load[s]
            /\ load'[other] = IF other = c THEN load[other] + 1 ELSE load[other]
        BY <2>1, <4>1 DEF StateOk
      <4>3. s = c => load[s] <= load[other]
        BY <2>1, <4>1
      <4>. QED
        BY <2>2, <2>3, <4>2, <4>3
    <3>. QED
      BY <3>1, <3>2, LoadsStay
  <2>. QED
    BY <2>4 DEF m
<1>2. ListsOk /\ StateOk /\ CountsOk /\ [Next]_vars
        => [routes' # routes => Narrow]_vars
  BY <1>1
<1>. QED
  BY <1>2, ListsInv, StateInv, CountsInv, PTL DEF Spec, NeverWidens

-----------------------------------------------------------------------------
(* Remainders.                                                             *)

LEMMA Division ==
  ASSUME NEW n \in Nat \ {0}, NEW a \in Int
  PROVE  /\ a % n \in 0 .. n - 1
         /\ \E q \in Int : a = n * q + (a % n)
<1>1. a % n \in 0 .. n - 1
  OBVIOUS
<1>2. a = n * (a \div n) + (a % n) /\ a \div n \in Int
  OBVIOUS
<1>. QED
  BY <1>1, <1>2

LEMMA RemainderIs ==
  ASSUME NEW n \in Nat \ {0}, NEW q \in Int, NEW r \in 0 .. n - 1
  PROVE  (n * q + r) % n = r
OBVIOUS

LEMMA RemaindersDiffer ==
  ASSUME NEW n \in Nat \ {0}, NEW a \in Int, NEW b \in Int, a < b, b < a + n
  PROVE  a % n # b % n
<1> SUFFICES ASSUME a % n = b % n
             PROVE  FALSE
  OBVIOUS
<1>1. PICK q \in Int : a = n * q + (a % n)
  BY Division
<1>2. PICK p \in Int : b = n * p + (b % n)
  BY Division
<1> DEFINE d == p - q
<1>3. d \in Int /\ b - a = n * d
  BY <1>1, <1>2, Division
<1>4. 0 < b - a /\ b - a < n
  OBVIOUS
<1>. HIDE DEF d
<1>5. CASE d <= 0
  <2>1. n * d <= 0
    BY <1>3, <1>5
  <2>. QED
    BY <1>3, <1>4, <2>1
<1>6. CASE d >= 1
  <2>1. n * d >= n
    BY <1>3, <1>6
  <2>. QED
    BY <1>3, <1>4, <2>1
<1>. QED
  BY <1>3, <1>5, <1>6

LEMMA RemainderOfSum ==
  ASSUME NEW n \in Nat \ {0}, NEW a \in Int, NEW b \in Int
  PROVE  ((a % n) + b) % n = (a + b) % n
<1>1. PICK q \in Int : a = n * q + (a % n)
  BY Division
<1> DEFINE r == a % n
<1>2. r \in Int
  BY Division
<1>. HIDE DEF r
<1>3. PICK p \in Int : r + b = n * p + ((r + b) % n)
  <2>1. r + b \in Int
    BY <1>2
  <2>. QED
    BY <2>1, Division
<1> DEFINE s == (r + b) % n
<1>4. s \in 0 .. n - 1
  <2>1. r + b \in Int
    BY <1>2
  <2>. QED
    BY <2>1, Division
<1>5. a + b = n * (q + p) + s
  <2>. HIDE DEF r, s
  <2>1. a = n * q + r /\ r + b = n * p + s /\ s \in Int
    BY <1>1, <1>3, <1>4 DEF r, s
  <2>. QED
    BY <1>2, <2>1
<1>. HIDE DEF s
<1>7. q + p \in Int
  OBVIOUS
<1>6. (n * (q + p) + s) % n = s
  BY <1>4, <1>7, RemainderIs
<1>. QED
  BY <1>5, <1>6 DEF s, r

LEMMA SmallRemainder ==
  ASSUME NEW n \in Nat \ {0}
  PROVE  /\ \A a \in 0 .. n - 1 : a % n = a
         /\ n % n = 0
<1>1. ASSUME NEW a \in 0 .. n - 1
      PROVE  a % n = a
  <2>1. (n * 0 + a) % n = a
    BY RemainderIs
  <2>. QED
    BY <2>1
<1>2. (n * 1 + 0) % n = 0
  BY RemainderIs
<1>. QED
  BY <1>1, <1>2

-----------------------------------------------------------------------------
(* Weighted round robin.  A round visits the places <<i, w>> of a list: the *)
(* indices upwards, and the weights downwards, from the greatest weight M   *)
(* to 1.  A server has a turn at each weight that is not above its own.     *)

Round(N) == (0 .. N - 1) \X (Nat \ {0})

Visit(N, M, x) ==
  LET i == (x[1] + 1) % N
  IN  <<i, IF i # 0 THEN x[2] ELSE IF x[2] - 1 <= 0 THEN M ELSE x[2] - 1>>

TurnsOf(N, W) == {x \in Round(N) : x[2] <= W[x[1]]}

Before(x, y) == x[2] > y[2] \/ (x[2] = y[2] /\ x[1] < y[1])

\* b is the first turn of P after x, or of all if there is none after x.
IsNext(P, x, b) ==
  /\ b \in P
  /\ \/ Before(x, b) /\ \A p \in P : Before(x, p) => ~Before(p, b)
     \/ \A p \in P : ~Before(x, p) /\ ~Before(p, b)

\* The weights W of a list of N servers, of which M is the greatest.
WeightsOk(N, W, M) ==
  /\ N \in Nat \ {0} /\ M \in Nat \ {0}
  /\ W \in [0 .. N - 1 -> Nat]
  /\ \A i \in 0 .. N - 1 : W[i] <= M
  /\ TurnsOf(N, W) # {}

LEMMA RoundType ==
  ASSUME NEW N \in Nat \ {0}, NEW x \in Round(N)
  PROVE  x[1] \in 0 .. N - 1 /\ x[1] \in Int /\ x[2] \in Nat \ {0} /\ x = <<x[1], x[2]>>
BY DEF Round

LEMMA VisitIs ==
  ASSUME NEW N \in Nat \ {0}, NEW M \in Nat \ {0}, NEW x \in Round(N)
  PROVE  /\ Visit(N, M, x) \in Round(N)
         /\ \/ x[1] < N - 1 /\ Visit(N, M, x) = <<x[1] + 1, x[2]>>
            \/ x[1] = N - 1 /\ x[2] > 1 /\ Visit(N, M, x) = <<0, x[2] - 1>>
            \/ x[1] = N - 1 /\ x[2] = 1 /\ Visit(N, M, x) = <<0, M>>
<1>1. x[1] \in 0 .. N - 1 /\ x[2] \in Nat \ {0}
  BY RoundType
<1>2. CASE x[1] < N - 1
  <2>1. x[1] + 1 \in 0 .. N - 1 /\ x[1] + 1 # 0
    BY <1>1, <1>2
  <2>2. (x[1] + 1) % N = x[1] + 1
    BY <2>1, SmallRemainder
  <2>3. Visit(N, M, x) = <<x[1] + 1, x[2]>>
    BY <2>1, <2>2 DEF Visit
  <2>. QED
    BY <1>1, <1>2, <2>1, <2>3 DEF Round
<1>3. CASE x[1] = N - 1
  <2>1. (x[1] + 1) % N = 0
    BY <1>3, SmallRemainder
  <2>2. Visit(N, M, x) = <<0, IF x[2] - 1 <= 0 THEN M ELSE x[2] - 1>>
    BY <2>1 DEF Visit
  <2>3. 0 \in 0 .. N - 1
    OBVIOUS
  <2>4. CASE x[2] > 1
    <3>1. Visit(N, M, x) = <<0, x[2] - 1>> /\ x[2] - 1 \in Nat \ {0}
      BY <1>1, <2>2, <2>4
    <3>. QED
      BY <1>3, <2>3, <2>4, <3>1 DEF Round
  <2>5. CASE x[2] = 1
    <3>1. Visit(N, M, x) = <<0, M>>
      BY <2>2, <2>5
    <3>. QED
      BY <1>3, <2>3, <2>5, <3>1 DEF Round
  <2>. QED
    BY <1>1, <2>4, <2>5
<1>. QED
  BY <1>1, <1>2, <1>3

\* The order of a round is total.
LEMMA NextUnique ==
  ASSUME NEW N \in Nat \ {0}, NEW P \in SUBSET Round(N), NEW x \in Round(N),
         NEW b, NEW c, IsNext(P, x, b), IsNext(P, x, c)
  PROVE  b = c
<1>1. b \in P /\ c \in P
  BY DEF IsNext
<1>2. ~Before(b, c) /\ ~Before(c, b)
  BY DEF IsNext
<1>3. b \in Round(N) /\ c \in Round(N)
  BY <1>1
<1>4. b[1] \in Int /\ b[2] \in Int /\ c[1] \in Int /\ c[2] \in Int
  BY <1>3, RoundType
<1>5. b[1] = c[1] /\ b[2] = c[2]
  BY <1>2, <1>4 DEF Before
<1>. QED
  BY <1>3, <1>5, RoundType

\* A set of places that is not empty and whose weights are bounded has a first.
LEMMA FirstOf ==
  ASSUME NEW N \in Nat \ {0}, NEW M \in Nat, NEW P \in SUBSET Round(N), P # {},
         \A p \in P : p[2] <= M
  PROVE  \E b \in P : \A p \in P : ~Before(p, b)
<1>1. \A p \in P : p[1] \in Nat /\ p[2] \in Nat /\ p[2] \in 1 .. M
  BY RoundType
<1> DEFINE V == {p[2] : p \in P}
<1>2. V \in SUBSET (1 .. M) /\ V # {} /\ V \in SUBSET Nat
  BY <1>1
<1>3. IsFiniteSet(V)
  BY <1>2, IntervalSize, FS_Subset
<1>4. PICK w \in V : \A v \in V : v <= w
  BY <1>2, <1>3, Greatest
<1> DEFINE I == {p[1] : p \in {q \in P : q[2] = w}}
<1>5. I \in SUBSET Nat /\ I # {}
  BY <1>1, <1>4
<1>6. PICK i \in I : \A j \in I : i <= j
  BY <1>5, Least
<1>7. PICK b \in P : b[2] = w /\ b[1] = i
  OBVIOUS
<1>8. ASSUME NEW p \in P
      PROVE  ~Before(p, b)
  <2>1. p[2] <= w
    BY <1>4
  <2>2. p[2] = w => i <= p[1]
    BY <1>6
  <2>3. p[1] \in Int /\ p[2] \in Int /\ w \in Int /\ i \in Int
    BY <1>1, <1>7
  <2>. QED
    BY <1>7, <2>1, <2>2, <2>3 DEF Before
<1>. QED
  BY <1>8

LEMMA TurnsBounded ==
  ASSUME NEW N, NEW W, NEW M, WeightsOk(N, W, M)
  PROVE  /\ N \in Nat \ {0} /\ M \in Nat \ {0}
         /\ TurnsOf(N, W) \in SUBSET Round(N) /\ TurnsOf(N, W) # {}
         /\ \A p \in TurnsOf(N, W) : p[2] <= M
<1>1. ASSUME NEW p \in TurnsOf(N, W)
      PROVE  p[2] <= M
  <2>1. p[1] \in 0 .. N - 1 /\ p[2] \in Nat /\ p[2] <= W[p[1]] /\ N \in Nat
    BY RoundType DEF TurnsOf, WeightsOk
  <2>2. W[p[1]] \in Nat /\ W[p[1]] <= M /\ M \in Nat
    BY <2>1 DEF WeightsOk
  <2>. QED
    BY <2>1, <2>2
<1>. QED
  BY <1>1 DEF WeightsOk, TurnsOf

LEMMA NextExists ==
  ASSUME NEW N, NEW W, NEW M, WeightsOk(N, W, M), NEW x \in Round(N)
  PROVE  \E b : IsNext(TurnsOf(N, W), x, b)
<1> DEFINE P == TurnsOf(N, W)
           After == {p \in P : Before(x, p)}
<1>1. /\ N \in Nat \ {0} /\ M \in Nat /\ P \in SUBSET Round(N) /\ P # {}
      /\ \A p \in P : p[2] <= M
  BY TurnsBounded
<1>. HIDE DEF P
<1>2. CASE After = {}
  <2>1. PICK b \in P : \A p \in P : ~Before(p, b)
    BY <1>1, FirstOf
  <2>. QED
    BY <1>2, <2>1 DEF IsNext, P
<1>3. CASE After # {}
  <2>1. After \in SUBSET Round(N) /\ \A p \in After : p[2] <= M
    BY <1>1
  <2>2. PICK b \in After : \A p \in After : ~Before(p, b)
    BY <1>1, <1>3, <2>1, FirstOf
  <2>. QED
    BY <2>2 DEF IsNext, P
<1>. QED
  BY <1>2, <1>3

\* The next turn is the place that is visited next, if it is a turn, or else the
\* next turn from there.
LEMMA VisitNext ==
  ASSUME NEW N, NEW W, NEW M, WeightsOk(N, W, M), NEW x \in Round(N)
  PROVE  /\ Visit(N, M, x) \in TurnsOf(N, W) => IsNext(TurnsOf(N, W), x, Visit(N, M, x))
         /\ Visit(N, M, x) \notin TurnsOf(N, W) =>
              \A b : IsNext(TurnsOf(N, W), Visit(N, M, x), b)
                       => IsNext(TurnsOf(N, W), x, b)
<1> DEFINE P == TurnsOf(N, W)
           y == Visit(N, M, x)
<1>1. /\ N \in Nat \ {0} /\ M \in Nat \ {0} /\ P \in SUBSET Round(N) /\ P # {}
      /\ \A p \in P : p[2] <= M
  BY TurnsBounded
<1>2. /\ y \in Round(N)
      /\ \/ x[1] < N - 1 /\ y = <<x[1] + 1, x[2]>>
         \/ x[1] = N - 1 /\ x[2] > 1 /\ y = <<0, x[2] - 1>>
         \/ x[1] = N - 1 /\ x[2] = 1 /\ y = <<0, M>>
  BY <1>1, VisitIs
<1>3. x[1] \in 0 .. N - 1 /\ x[2] \in Nat \ {0}
  BY <1>1, RoundType
<1>4. \A p \in P : /\ p[1] \in 0 .. N - 1 /\ p[2] \in Nat \ {0} /\ p = <<p[1], p[2]>>
                   /\ p[2] <= M
  BY <1>1, RoundType
<1>. HIDE DEF P, y
<1>5. CASE ~(x[1] = N - 1 /\ x[2] = 1)
  <2>1. \/ y[1] = x[1] + 1 /\ y[2] = x[2] /\ x[1] < N - 1
        \/ y[1] = 0 /\ y[2] = x[2] - 1 /\ x[1] = N - 1
    BY <1>2, <1>5
  <2>2. Before(x, y) /\ y = <<y[1], y[2]>>
    BY <1>1, <1>2, <1>3, <2>1, RoundType DEF Before
  <2>3. ASSUME NEW p \in P
        PROVE  /\ Before(x, p) => ~Before(p, y)
               /\ Before(x, p) <=> Before(y, p) \/ p = y
    <3>1. Before(x, p) => ~Before(p, y)
      BY <1>1, <1>3, <1>4, <2>1 DEF Before
    <3>2. Before(y, p) => Before(x, p)
      BY <1>1, <1>3, <1>4, <2>1 DEF Before
    <3>3. Before(x, p) /\ ~Before(y, p) => p[1] = y[1] /\ p[2] = y[2]
      BY <1>1, <1>3, <1>4, <2>1 DEF Before
    <3>. QED
      BY <1>4, <2>2, <3>1, <3>2, <3>3
  <2>. QED
    BY <2>2, <2>3 DEF IsNext, P, y
<1>6. CASE x[1] = N - 1 /\ x[2] = 1
  <2>1. y[1] = 0 /\ y[2] = M /\ y = <<0, M>>
    BY <1>1, <1>2, <1>6
  <2>2. ASSUME NEW p \in P
        PROVE  /\ ~Before(x, p) /\ ~Before(p, y)
               /\ p # y => Before(y, p)
    <3>1. ~Before(x, p) /\ ~Before(p, y)
      BY <1>1, <1>4, <1>6, <2>1 DEF Before
    <3>2. ~Before(y, p) => p[1] = 0 /\ p[2] = M
      BY <1>1, <1>4, <2>1 DEF Before
    <3>. QED
      BY <1>4, <2>1, <3>1, <3>2
  <2>. QED
    BY <1>1, <2>2 DEF IsNext, P, y
<1>. QED
  BY <1>5, <1>6

-----------------------------------------------------------------------------
(* The loop of wrrRoute finds the next turn.                               *)

Result(x) == [index |-> x[1], weight |-> x[2]]

WrrStep(N, W, M, f, x) ==
  LET y == Visit(N, M, x)
  IN  IF y[2] <= W[y[1]] THEN Result(y) ELSE f[y]

\* Where the loop may be.
WrrAt(C, top) == (-1 .. C) \X (0 .. top)

LEMMA VisitType ==
  ASSUME NEW N, NEW W, NEW M, WeightsOk(N, W, M), NEW C \in Nat, N <= C,
         NEW top \in Nat, M <= top, NEW x \in WrrAt(C, top)
  PROVE  /\ Visit(N, M, x) \in WrrAt(C, top)
         /\ Visit(N, M, x) \in TurnsOf(N, W) => Visit(N, M, x)[2] <= W[Visit(N, M, x)[1]]
         /\ ~(Visit(N, M, x)[2] <= W[Visit(N, M, x)[1]]) => Visit(N, M, x) \in Round(N)
         /\ Visit(N, M, x)[2] <= W[Visit(N, M, x)[1]] /\ Visit(N, M, x) \in Round(N)
              => Visit(N, M, x) \in TurnsOf(N, W)
         /\ x = <<-1, 0>> \/ x[2] # 0 => Visit(N, M, x) \in Round(N)
<1> DEFINE i == (x[1] + 1) % N
           w == IF i # 0 THEN x[2] ELSE IF x[2] - 1 <= 0 THEN M ELSE x[2] - 1
<1>1. x[1] \in -1 .. C /\ x[1] \in Int /\ x[2] \in 0 .. top
  BY DEF WrrAt
<1>2. N \in Nat \ {0} /\ M \in Nat \ {0} /\ W \in [0 .. N - 1 -> Nat]
  BY DEF WeightsOk
<1>3. i \in 0 .. N - 1
  <2>1. x[1] + 1 \in Int
    BY <1>1
  <2>. QED
    BY <1>2, <2>1, Division
<1>4. Visit(N, M, x) = <<i, w>>
  BY DEF Visit
<1>5. x[1] = -1 => i = 0
  BY <1>2, SmallRemainder
<1>. HIDE DEF i
<1>6. w \in 0 .. top /\ i \in -1 .. C /\ W[i] \in Nat
  <2>1. i \in -1 .. C /\ W[i] \in Nat
    BY <1>2, <1>3
  <2>2. M \in 0 .. top
    BY <1>2
  <2>3. \A v \in 0 .. top : ~(v - 1 <= 0) => v - 1 \in 0 .. top
    OBVIOUS
  <2>. QED
    BY <1>1, <2>1, <2>2, <2>3
<1>7. x = <<-1, 0>> \/ x[2] # 0 => w # 0
  BY <1>1, <1>2, <1>5
<1>. HIDE DEF w
<1>8. w # 0 => <<i, w>> \in Round(N)
  BY <1>3, <1>6 DEF Round
<1>9. ~(w <= W[i]) => w # 0
  BY <1>6
<1>. QED
  BY <1>4, <1>6, <1>7, <1>8, <1>9 DEF WrrAt, TurnsOf

LEMMA WrrExists ==
  ASSUME NEW N, NEW W, NEW M, WeightsOk(N, W, M), NEW C \in Nat, N <= C,
         NEW top \in Nat, M <= top
  PROVE  \E f : f = [x \in WrrAt(C, top) |-> WrrStep(N, W, M, f, x)]
<1> DEFINE P == TurnsOf(N, W)
           D == WrrAt(C, top)
           next(y) == CHOOSE b : IsNext(P, y, b)
           g == [x \in D |-> LET y == Visit(N, M, x)
                             IN  IF y[2] <= W[y[1]] THEN Result(y) ELSE Result(next(y))]
<1>1. N \in Nat \ {0} /\ P \in SUBSET Round(N)
  BY TurnsBounded
<1>2. ASSUME NEW y \in Round(N)
      PROVE  IsNext(P, y, next(y)) /\ \A b : IsNext(P, y, b) => b = next(y)
  <2>1. \E b : IsNext(P, y, b)
    BY NextExists
  <2>2. IsNext(P, y, next(y))
    BY <2>1
  <2>. HIDE DEF next, P
  <2>. QED
    BY <1>1, <2>2, NextUnique
<1>3. ASSUME NEW x \in D
      PROVE  g[x] = WrrStep(N, W, M, g, x)
  <2> DEFINE y == Visit(N, M, x)
             z == Visit(N, M, y)
  <2>1. y \in D /\ (~(y[2] <= W[y[1]]) => y \in Round(N))
    BY VisitType
  <2>. HIDE DEF P, next
  <2>2. CASE y[2] <= W[y[1]]
    BY <2>2 DEF WrrStep
  <2>3. CASE ~(y[2] <= W[y[1]])
    <3>1. y \in Round(N) /\ g[x] = Result(next(y)) /\ WrrStep(N, W, M, g, x) = g[y]
      BY <2>1, <2>3 DEF WrrStep
    <3>2. /\ z \in P <=> z[2] <= W[z[1]]
          /\ z \in Round(N)
      <4>1. z \in Round(N)
        BY <3>1, <1>1, VisitIs DEF WeightsOk
      <4>2. /\ z \in P => z[2] <= W[z[1]]
            /\ z[2] <= W[z[1]] /\ z \in Round(N) => z \in P
        <5>. HIDE DEF y
        <5>. QED
          BY <2>1, VisitType DEF P
      <4>. QED
        BY <4>1, <4>2
    <3>3. g[y] = IF z[2] <= W[z[1]] THEN Result(z) ELSE Result(next(z))
      BY <2>1
    <3>. HIDE DEF g, y
    <3>4. CASE z[2] <= W[z[1]]
      <4>1. IsNext(P, y, z)
        BY <3>1, <3>2, <3>4, VisitNext DEF P
      <4>2. z = next(y)
        BY <1>2, <3>1, <4>1
      <4>. QED
        BY <3>1, <3>3, <3>4, <4>2
    <3>5. CASE ~(z[2] <= W[z[1]])
      <4>1. IsNext(P, z, next(z))
        BY <1>2, <3>2
      <4>2. IsNext(P, y, next(z))
        BY <3>1, <3>2, <3>5, <4>1, VisitNext DEF P
      <4>3. next(z) = next(y)
        BY <1>2, <3>1, <4>2
      <4>. QED
        BY <3>1, <3>3, <3>5, <4>3
    <3>. QED
      BY <3>4, <3>5
  <2>. QED
    BY <2>2, <2>3
<1>4. g = [x \in D |-> g[x]]
  OBVIOUS
<1>. HIDE DEF g
<1>5. g = [x \in D |-> WrrStep(N, W, M, g, x)]
  BY <1>3, <1>4
<1>. QED
  BY <1>5

LEMMA WrrFinds ==
  ASSUME NEW N, NEW W, NEW M, WeightsOk(N, W, M), NEW C \in Nat, N <= C,
         NEW top \in Nat, M <= top,
         NEW f, f = [x \in WrrAt(C, top) |-> WrrStep(N, W, M, f, x)]
  PROVE  \A x \in WrrAt(C, top) \intersect Round(N) :
           \E b : IsNext(TurnsOf(N, W), x, b) /\ f[x] = Result(b)
<1> DEFINE P == TurnsOf(N, W)
           D == WrrAt(C, top)
           E == D \intersect Round(N)
           Good(x) == \E b : IsNext(P, x, b) /\ f[x] = Result(b)
           Code(x) == x[2] * N + (N - 1 - x[1])
           Bad == {x \in E : ~Good(x) /\ \E p \in P : Before(x, p)}
<1>1. N \in Nat \ {0} /\ M \in Nat \ {0} /\ P \in SUBSET Round(N) /\ P # {}
      /\ \A p \in P : p[2] <= M
  BY TurnsBounded
<1>. HIDE DEF P
<1>2. ASSUME NEW x \in E, ~Good(x)
      PROVE  LET z == Visit(N, M, x) IN z \in E /\ ~Good(z) /\ z \notin P
  <2> DEFINE z == Visit(N, M, x)
  <2>1. z \in D /\ z \in Round(N)
    BY <1>1, VisitType, VisitIs
  <2>2. z[2] <= W[z[1]] <=> z \in P
    <3>1. /\ z \in P => z[2] <= W[z[1]]
          /\ z[2] <= W[z[1]] /\ z \in Round(N) => z \in P
      BY VisitType DEF P
    <3>. QED
      BY <2>1, <3>1
  <2>3. f[x] = IF z[2] <= W[z[1]] THEN Result(z) ELSE f[z]
    <3>1. f[x] = WrrStep(N, W, M, f, x)
      <4>. DEFINE S(y) == WrrStep(N, W, M, f, y)
      <4>1. f = [y \in D |-> S(y)]
        OBVIOUS
      <4>. HIDE DEF S
      <4>2. f[x] = S(x)
        BY <4>1
      <4>. QED
        BY <4>2 DEF S
    <3>. QED
      BY <3>1 DEF WrrStep
  <2>4. z \notin P
    <3>1. z \in P => IsNext(P, x, z)
      BY VisitNext DEF P
    <3>. QED
      BY <1>2, <2>2, <2>3, <3>1
  <2>5. \A b : IsNext(P, z, b) => IsNext(P, x, b)
    BY <2>4, VisitNext DEF P
  <2>6. f[x] = f[z]
    BY <2>2, <2>3, <2>4
  <2>. HIDE DEF z
  <2>7. ~Good(z)
    BY <1>2, <2>5, <2>6
  <2>. QED
    BY <2>1, <2>4, <2>7 DEF z
<1>3. \A x \in E : Code(x) \in Nat
  <2> TAKE x \in E
  <2>1. x[1] \in 0 .. N - 1 /\ x[2] \in Nat /\ N \in Nat
    BY <1>1, RoundType
  <2>2. x[2] * N \in Nat /\ N - 1 - x[1] \in Nat
    BY <2>1
  <2>. QED
    BY <2>2
\* From a bad place with a turn after it the loop goes down to another one.
<1>4. ASSUME NEW x \in Bad
      PROVE  \E z \in Bad : Code(z) < Code(x)
  <2> DEFINE z == Visit(N, M, x)
  <2>1. z \in E /\ ~Good(z) /\ z \notin P
    BY <1>2
  <2>2. PICK p \in P : Before(x, p)
    OBVIOUS
  <2>3. /\ p[1] \in 0 .. N - 1 /\ p[2] \in Nat \ {0} /\ p = <<p[1], p[2]>>
        /\ x[1] \in 0 .. N - 1 /\ x[2] \in Nat \ {0}
    BY <1>1, RoundType
  <2>4. \/ x[1] < N - 1 /\ z = <<x[1] + 1, x[2]>>
        \/ x[1] = N - 1 /\ x[2] > 1 /\ z = <<0, x[2] - 1>>
        \/ x[1] = N - 1 /\ x[2] = 1 /\ z = <<0, M>>
    BY <1>1, VisitIs
  <2>5. ~(x[1] = N - 1 /\ x[2] = 1)
    BY <1>1, <2>2, <2>3 DEF Before
  <2>6. \/ z[1] = x[1] + 1 /\ z[2] = x[2] /\ x[1] < N - 1
        \/ z[1] = 0 /\ z[2] = x[2] - 1 /\ x[1] = N - 1
    BY <2>4, <2>5
  <2>7. z = <<z[1], z[2]>>
    BY <2>4
  <2>. HIDE DEF z
  <2>8. Before(z, p)
    <3>1. ~(p[1] = z[1] /\ p[2] = z[2])
      BY <2>1, <2>3, <2>7
    <3>. QED
      BY <1>1, <2>2, <2>3, <2>6, <3>1 DEF Before
  <2>9. Code(z) < Code(x)
    <3>1. CASE z[1] = x[1] + 1 /\ z[2] = x[2]
      <4>1. x[2] * N \in Int
        BY <1>1, <2>3
      <4>. QED
        BY <1>1, <2>3, <3>1, <4>1
    <3>2. CASE z[1] = 0 /\ z[2] = x[2] - 1 /\ x[1] = N - 1
      <4>1. (x[2] - 1) * N = x[2] * N - N /\ x[2] * N \in Int
        BY <1>1, <2>3
      <4>. QED
        BY <1>1, <2>3, <3>2, <4>1
    <3>. QED
      BY <2>6, <3>1, <3>2
  <2>. QED
    BY <2>1, <2>8, <2>9
<1>5. Bad = {}
  <2> SUFFICES ASSUME Bad # {} PROVE FALSE
    OBVIOUS
  <2> DEFINE V == {Code(x) : x \in Bad}
  <2>1. V \in SUBSET Nat /\ V # {}
    BY <1>3
  <2>2. PICK v \in V : \A u \in V : v <= u
    BY <2>1, Least
  <2>3. PICK x \in Bad : v = Code(x)
    OBVIOUS
  <2>4. PICK z \in Bad : Code(z) < Code(x)
    BY <1>4
  <2>. HIDE DEF Code, Bad
  <2>5. Code(z) \in Nat /\ Code(x) \in Nat /\ Code(x) <= Code(z)
    BY <1>3, <2>2, <2>3 DEF Bad
  <2>. QED
    BY <2>4, <2>5
\* From any other bad place it goes down to the start of a round, which is one.
<1>6. ASSUME NEW x \in E, ~Good(x)
      PROVE  FALSE
  <2> DEFINE Rest == {y \in E : ~Good(y)}
             V == {Code(y) : y \in Rest}
  <2>1. V \in SUBSET Nat /\ V # {}
    BY <1>3, <1>6
  <2>2. PICK v \in V : \A u \in V : v <= u
    BY <2>1, Least
  <2>3. PICK y \in Rest : v = Code(y)
    OBVIOUS
  <2> DEFINE z == Visit(N, M, y)
  <2>4. z \in E /\ ~Good(z) /\ z \notin P
    BY <1>2
  <2>5. /\ y[1] \in 0 .. N - 1 /\ y[2] \in Nat \ {0}
        /\ \/ y[1] < N - 1 /\ z = <<y[1] + 1, y[2]>>
           \/ y[1] = N - 1 /\ y[2] > 1 /\ z = <<0, y[2] - 1>>
           \/ y[1] = N - 1 /\ y[2] = 1 /\ z = <<0, M>>
    <3>1. y \in Round(N)
      BY <2>3
    <3>2. y[1] \in 0 .. N - 1 /\ y[2] \in Nat \ {0}
      BY <1>1, <3>1, RoundType
    <3>. QED
      BY <1>1, <3>1, <3>2, VisitIs
  <2>6. Code(y) <= Code(z)
    BY <2>2, <2>3, <2>4
  <2>7. z = <<0, M>>
    <3>1. CASE y[1] < N - 1 /\ z = <<y[1] + 1, y[2]>>
      <4>1. z[1] = y[1] + 1 /\ z[2] = y[2] /\ y[2] * N \in Int
        BY <1>1, <2>5, <3>1
      <4>. HIDE DEF z
      <4>. QED
        BY <1>1, <2>5, <2>6, <4>1
    <3>2. CASE y[1] = N - 1 /\ y[2] > 1 /\ z = <<0, y[2] - 1>>
      <4>1. /\ z[1] = 0 /\ z[2] = y[2] - 1
            /\ (y[2] - 1) * N = y[2] * N - N /\ y[2] * N \in Int
        BY <1>1, <2>5, <3>2
      <4>. HIDE DEF z
      <4>. QED
        BY <1>1, <2>5, <2>6, <3>2, <4>1
    <3>. QED
      BY <2>5, <3>1, <3>2
  <2>. HIDE DEF z
  <2>8. PICK p \in P : TRUE
    BY <1>1
  <2>9. /\ p[1] \in 0 .. N - 1 /\ p[2] \in Nat \ {0} /\ p = <<p[1], p[2]>>
        /\ p[2] <= M
    BY <1>1, RoundType
  <2>10. Before(z, p)
    <3>1. z[1] = 0 /\ z[2] = M
      BY <2>7
    <3>2. ~(p[1] = 0 /\ p[2] = M)
      BY <2>4, <2>7, <2>9
    <3>. QED
      BY <1>1, <2>9, <3>1, <3>2 DEF Before
  <2>. QED
    BY <1>5, <2>4, <2>10
<1>. QED
  BY <1>6 DEF P

\* The weights of the list of a type, by index.
WeightsAt(t) == [i \in 0 .. Len(serversMap[t]) - 1 |-> servers[serversMap[t][i + 1]]]

LEMMA MaxWeightHolds ==
  ASSUME ListsOk, NEW t \in Types
  PROVE  /\ MaxWeight(t) \in Nat
         /\ \A s \in Range(serversMap[t]) : servers[s] \in Nat /\ servers[s] <= MaxWeight(t)
         /\ MaxWeight(t) # 0 => \E s \in Range(serversMap[t]) : servers[s] = MaxWeight(t)
<1> DEFINE V == {servers[s] : s \in Range(serversMap[t])}
           A == {0} \union V
<1>1. \A s \in Range(serversMap[t]) : servers[s] \in Weights
  BY DEF ListsOk
<1>2. V \subseteq Weights /\ Weights \subseteq Nat /\ IsFiniteSet(Weights)
  BY <1>1, ServersAssumption
<1>3. IsFiniteSet(V)
  BY <1>2, FS_Subset
<1>4. IsFiniteSet(A) /\ A \in SUBSET Nat /\ A # {}
  <2>1. A \in SUBSET Nat /\ A # {}
    <3>1. V \subseteq Nat
      BY <1>2
    <3>. HIDE DEF V
    <3>. QED
      BY <3>1
  <2>2. IsFiniteSet({0})
    BY FS_Singleton
  <2>. HIDE DEF V
  <2>3. IsFiniteSet(A)
    BY <1>3, <2>2, FS_Union
  <2>. QED
    BY <2>1, <2>3
<1>5. Max(A) \in A /\ \A v \in A : v <= Max(A)
  BY <1>4, Greatest
<1>6. MaxWeight(t) = Max(A)
  BY DEF MaxWeight
<1>. QED
  BY <1>2, <1>4, <1>5, <1>6

LEMMA ListLength ==
  ASSUME ListsOk, NEW t \in Types
  PROVE  Len(serversMap[t]) \in Nat /\ Cardinality(Servers) \in Nat
         /\ Len(serversMap[t]) <= Cardinality(Servers)
<1> DEFINE list == serversMap[t]
<1>1. list \in Seq(Servers) /\ IsInjective(list)
  BY DEF ListsOk
<1>. HIDE DEF list
<1>2. list \in Injection(1 .. Len(list), Servers) /\ Len(list) \in Nat
  <2>1. list \in [1 .. Len(list) -> Servers] /\ Len(list) \in Nat
    BY <1>1
  <2>2. \A i, j \in 1 .. Len(list) : list[i] = list[j] => i = j
    BY <1>1, <2>1 DEF IsInjective
  <2>. QED
    BY <2>1, <2>2 DEF Injection, IsInjective
<1>3. Cardinality(1 .. Len(list)) = Len(list)
  BY <1>2, IntervalSize
<1>4. IsFiniteSet(Servers) /\ Cardinality(Servers) \in Nat
  BY ServersAssumption, FS_CardinalityType
<1>5. Cardinality(1 .. Len(list)) <= Cardinality(Servers)
  BY <1>2, <1>4, FS_Injection
<1>. QED
  BY <1>2, <1>3, <1>4, <1>5 DEF list

LEMMA WeightsAtOk ==
  ASSUME ListsOk, NEW t \in Types, serversMap[t] # <<>>, MaxWeight(t) > 0
  PROVE  WeightsOk(Len(serversMap[t]), WeightsAt(t), MaxWeight(t))
<1> DEFINE N == Len(serversMap[t])
           W == WeightsAt(t)
           M == MaxWeight(t)
<1>1. /\ N \in Nat \ {0} /\ DOMAIN serversMap[t] = 1 .. N
  BY ListHolds
<1>2. /\ M \in Nat \ {0}
      /\ \A s \in Range(serversMap[t]) : servers[s] \in Nat /\ servers[s] <= M
      /\ \E s \in Range(serversMap[t]) : servers[s] = M
  BY MaxWeightHolds
<1>3. W = [i \in 0 .. N - 1 |-> servers[serversMap[t][i + 1]]]
  BY DEF WeightsAt
<1>. HIDE DEF N, W, M
<1>4. \A i \in 0 .. N - 1 : i + 1 \in 1 .. N
  BY <1>1
<1>5. \A i \in 0 .. N - 1 : serversMap[t][i + 1] \in Range(serversMap[t])
  BY <1>1, <1>4 DEF Range
<1>6. W \in [0 .. N - 1 -> Nat] /\ \A i \in 0 .. N - 1 : W[i] <= M
  BY <1>2, <1>3, <1>5
<1>7. TurnsOf(N, W) # {}
  <2>1. PICK j \in 1 .. N : servers[serversMap[t][j]] = M
    BY <1>1, <1>2 DEF Range
  <2>2. j - 1 \in 0 .. N - 1 /\ (j - 1) + 1 = j
    BY <1>1
  <2>3. W[j - 1] = M
    BY <1>3, <2>1, <2>2
  <2>4. <<j - 1, M>> \in TurnsOf(N, W)
    BY <1>2, <2>2, <2>3 DEF TurnsOf, Round
  <2>. QED
    BY <2>4
<1>. QED
  BY <1>1, <1>2, <1>6, <1>7 DEF WeightsOk, N, W, M

\* One step of the loop, of the rest of which f knows the outcome.
WrrLoop(t, f, last) ==
  LET list == serversMap[t]
      i == (last[1] + 1) % Len(list)
      w == IF i # 0 THEN last[2]
           ELSE IF last[2] - 1 <= 0 THEN MaxWeight(t) ELSE last[2] - 1
  IN  IF servers[list[i + 1]] >= w
        THEN [index |-> i, weight |-> w] ELSE f[<<i, w>>]

WrrLoops(t, f, D) == f = [last \in D |-> WrrLoop(t, f, last)]

LEMMA WrrNextLoops ==
  ASSUME NEW t, NEW from
  PROVE  WrrNext(t, from) =
           (CHOOSE f : WrrLoops(t, f, WrrAt(Cardinality(Servers),
                                            Max({from.weight, MaxWeight(t)}))))
             [<<from.index, from.weight>>]
BY DEF WrrNext, WrrLoops, WrrLoop, WrrAt

LEMMA WrrLoopIs ==
  ASSUME ListsOk, NEW t \in Types, MayRoute(t), MaxWeight(t) > 0,
         NEW C \in Nat, Len(serversMap[t]) <= C, NEW top \in Nat, MaxWeight(t) <= top,
         NEW f, NEW x \in WrrAt(C, top)
  PROVE  WrrLoop(t, f, x) =
           WrrStep(Len(serversMap[t]), WeightsAt(t), MaxWeight(t), f, x)
<1> DEFINE list == serversMap[t]
           N == Len(list)
           W == WeightsAt(t)
           M == MaxWeight(t)
           i == (x[1] + 1) % N
           w == IF i # 0 THEN x[2] ELSE IF x[2] - 1 <= 0 THEN M ELSE x[2] - 1
<1>1. /\ N \in Nat \ {0} /\ M \in Nat \ {0} /\ x[1] \in Int /\ x[2] \in 0 .. top
  BY MayRouteHolds, MaxWeightHolds DEF WrrAt
<1>2. i \in 0 .. N - 1
  <2>. HIDE DEF N
  <2>1. x[1] + 1 \in Int
    BY <1>1
  <2>. QED
    BY <1>1, <2>1, Division
<1>3. W[i] = servers[list[i + 1]] /\ W[i] \in Nat
  <2>1. W = [j \in 0 .. N - 1 |-> servers[list[j + 1]]]
    BY DEF WeightsAt
  <2>2. W \in [0 .. N - 1 -> Nat]
    BY WeightsAtOk DEF WeightsOk, MayRoute
  <2>. HIDE DEF W, N, i
  <2>. QED
    BY <1>2, <2>1, <2>2
<1>4. w \in Int
  <2>. HIDE DEF i, M
  <2>. QED
    BY <1>1
<1>5. Visit(N, M, x) = <<i, w>>
  BY DEF Visit
<1>6. WrrLoop(t, f, x) = IF servers[list[i + 1]] >= w
                           THEN [index |-> i, weight |-> w] ELSE f[<<i, w>>]
  BY DEF WrrLoop
<1>. HIDE DEF i, w, W
<1>7. WrrStep(N, W, M, f, x) = IF w <= W[i] THEN [index |-> i, weight |-> w] ELSE f[<<i, w>>]
  BY <1>5 DEF WrrStep, Result
<1>. QED
  BY <1>3, <1>4, <1>6, <1>7 DEF W

\* The record that wrrRoute stores: before the first route, or a place.
WrrParams == {p \in [index : -1 .. Cardinality(Servers) - 1, weight : Nat] :
                (p.index = -1 /\ p.weight = 0) \/ (p.index # -1 /\ p.weight # 0)}

LEMMA WrrNextIs ==
  ASSUME ListsOk, NEW t \in Types, MayRoute(t), MaxWeight(t) > 0,
         NEW from \in WrrParams, NEW P, P = TurnsOf(Len(serversMap[t]), WeightsAt(t))
  PROVE  /\ <<from.index, from.weight>> \in Round(Len(serversMap[t])) =>
              \E b : /\ IsNext(P, <<from.index, from.weight>>, b)
                    /\ WrrNext(t, from) = Result(b)
         /\ \E b \in P : WrrNext(t, from) = Result(b)
<1> DEFINE N == Len(serversMap[t])
           W == WeightsAt(t)
           M == MaxWeight(t)
           C == Cardinality(Servers)
           top == Max({from.weight, M})
           x == <<from.index, from.weight>>
           D == WrrAt(C, top)
           next == CHOOSE f : WrrLoops(t, f, D)
<1>1. /\ N \in Nat \ {0} /\ N <= C /\ C \in Nat /\ M \in Nat \ {0}
      /\ WeightsOk(N, W, M)
  BY MayRouteHolds, ListLength, MaxWeightHolds, WeightsAtOk DEF MayRoute
<1>2. /\ from.index \in -1 .. C - 1 /\ from.weight \in Nat
      /\ x = <<-1, 0>> \/ x[2] # 0
  BY DEF WrrParams
<1>3. top \in Nat /\ M <= top /\ from.weight <= top
  <2>. HIDE DEF M
  <2>1. M \in Int /\ from.weight \in Int
    BY <1>1, <1>2
  <2>2. top \in Int /\ M <= top /\ from.weight <= top
    BY <2>1, MaxOfTwo
  <2>. HIDE DEF top
  <2>. QED
    BY <1>1, <2>2
<1>4. x \in D
  <2>. HIDE DEF top, C
  <2>. QED
    BY <1>1, <1>2, <1>3 DEF WrrAt
<1>5. WrrNext(t, from) = next[x]
  BY WrrNextLoops
<1>. HIDE DEF top
<1>6. \A f : \A y \in D : WrrLoop(t, f, y) = WrrStep(N, W, M, f, y)
  BY <1>1, <1>3, WrrLoopIs
<1>7. \A f : WrrLoops(t, f, D) <=> f = [y \in D |-> WrrStep(N, W, M, f, y)]
  <2>. HIDE DEF D, N, W, M
  <2>. QED
    BY <1>6 DEF WrrLoops
<1>8. \E f : f = [y \in D |-> WrrStep(N, W, M, f, y)]
  BY <1>1, <1>3, WrrExists
<1>9. next = [y \in D |-> WrrStep(N, W, M, next, y)]
  <2>1. WrrLoops(t, next, D)
    BY <1>7, <1>8
  <2>. HIDE DEF next
  <2>. QED
    BY <1>7, <2>1
<1>. HIDE DEF next
<1>10. \A y \in D \intersect Round(N) : \E b : IsNext(P, y, b) /\ next[y] = Result(b)
  BY <1>1, <1>3, <1>9, WrrFinds
<1>11. \E b \in P : next[x] = Result(b)
  <2> DEFINE y == Visit(N, M, x)
  <2>1. /\ y \in D /\ y \in Round(N)
        /\ y[2] <= W[y[1]] => y \in P
    <3>. HIDE DEF x, N, W, M, C
    <3>. QED
      BY <1>1, <1>2, <1>3, <1>4, VisitType DEF N, W
  <2>2. next[x] = WrrStep(N, W, M, next, x)
    <3> DEFINE S(z) == WrrStep(N, W, M, next, z)
    <3>1. next = [z \in D |-> S(z)]
      BY <1>9
    <3>. HIDE DEF S
    <3>2. next[x] = S(x)
      BY <1>4, <3>1
    <3>. QED
      BY <3>2 DEF S
  <2>3. CASE y[2] <= W[y[1]]
    BY <2>1, <2>2, <2>3 DEF WrrStep
  <2>4. CASE ~(y[2] <= W[y[1]])
    <3>1. next[x] = next[y]
      BY <2>2, <2>4 DEF WrrStep
    <3>2. PICK b : IsNext(P, y, b) /\ next[y] = Result(b)
      BY <1>10, <2>1
    <3>. QED
      BY <3>1, <3>2 DEF IsNext
  <2>. QED
    BY <2>3, <2>4
<1>. QED
  BY <1>4, <1>5, <1>10, <1>11

WrrOk == wrrParam \in [Types -> WrrParams]

LEMMA ResultHolds ==
  ASSUME ListsOk, NEW t \in Types, MayRoute(t), MaxWeight(t) > 0,
         NEW b \in TurnsOf(Len(serversMap[t]), WeightsAt(t))
  PROVE  /\ Result(b) \in WrrParams
         /\ <<Result(b).index, Result(b).weight>> = b
         /\ Result(b).index = b[1] /\ b[1] \in 0 .. Len(serversMap[t]) - 1
<1> DEFINE N == Len(serversMap[t])
           C == Cardinality(Servers)
<1>1. N \in Nat \ {0} /\ C \in Nat /\ N <= C /\ b \in Round(N)
  BY MayRouteHolds, ListLength DEF TurnsOf
<1>. HIDE DEF N, C
<1>2. b[1] \in 0 .. N - 1 /\ b[2] \in Nat \ {0} /\ b = <<b[1], b[2]>>
  BY <1>1, RoundType
<1>3. b[1] \in -1 .. C - 1 /\ b[1] # -1
  BY <1>1, <1>2
<1>. QED
  BY <1>2, <1>3 DEF Result, WrrParams, N, C

\* What a weighted round robin route does.
LEMMA WrrStepIs ==
  ASSUME ListsOk, WrrOk, NEW t \in Types, MayRoute(t), Wrr(t)
  PROVE  /\ WrrOk'
         /\ MaxWeight(t) > 0
         /\ \E b \in TurnsOf(Len(serversMap[t]), WeightsAt(t)) :
              /\ <<wrrParam'[t].index, wrrParam'[t].weight>> = b
              /\ RouteTo(t, serversMap[t][b[1] + 1])
              /\ <<wrrParam[t].index, wrrParam[t].weight>> \in Round(Len(serversMap[t])) =>
                   IsNext(TurnsOf(Len(serversMap[t]), WeightsAt(t)),
                          <<wrrParam[t].index, wrrParam[t].weight>>, b)
         /\ \A u \in Types : u # t => wrrParam'[u] = wrrParam[u]
<1> DEFINE P == TurnsOf(Len(serversMap[t]), WeightsAt(t))
           from == wrrParam[t]
           next == WrrNext(t, from)
<1>1. /\ MaxWeight(t) > 0 /\ wrrParam' = [wrrParam EXCEPT ![t] = next]
      /\ RouteTo(t, serversMap[t][next.index + 1])
  BY DEF Wrr
<1>2. from \in WrrParams
  BY DEF WrrOk
<1>3. \E b \in P : next = Result(b)
  BY <1>1, <1>2, WrrNextIs
<1>4. <<from.index, from.weight>> \in Round(Len(serversMap[t])) =>
        \E b : IsNext(P, <<from.index, from.weight>>, b) /\ next = Result(b)
  BY <1>1, <1>2, WrrNextIs
<1>. HIDE DEF next, P, from
<1>5. PICK b \in P :
        /\ next = Result(b)
        /\ <<from.index, from.weight>> \in Round(Len(serversMap[t])) =>
             IsNext(P, <<from.index, from.weight>>, b)
  <2>1. CASE <<from.index, from.weight>> \in Round(Len(serversMap[t]))
    BY <1>4, <2>1 DEF IsNext
  <2>2. CASE <<from.index, from.weight>> \notin Round(Len(serversMap[t]))
    BY <1>3, <2>2
  <2>. QED
    BY <2>1, <2>2
<1>6. /\ next \in WrrParams /\ <<next.index, next.weight>> = b /\ next.index = b[1]
  BY <1>1, <1>5, ResultHolds DEF P
<1>7. WrrOk' /\ wrrParam'[t] = next /\ \A u \in Types : u # t => wrrParam'[u] = wrrParam[u]
  BY <1>1, <1>6 DEF WrrOk
<1>. QED
  BY <1>1, <1>5, <1>6, <1>7 DEF P, from

LEMMA WrrParamStays ==
  ASSUME [Next]_vars
  PROVE  \/ \E t \in Types : schedule = "wrr" /\ MayRoute(t) /\ Wrr(t)
         \/ wrrParam' = wrrParam
<1>1. CASE UNCHANGED vars
  BY <1>1 DEF vars, params, histories
<1>2. ASSUME NEW t \in Types, Rr(t) \/ La(t) \/ Rd(t) \/ \E hash \in Hashes : Ch(t, hash)
      PROVE  wrrParam' = wrrParam
  BY <1>2 DEF Rr, La, Rd, Ch, params
<1>3. ASSUME RrDone \/ ChDone
      PROVE  wrrParam' = wrrParam
  BY <1>3 DEF RrDone, ChDone, histories
<1>4. ASSUME Change
      PROVE  wrrParam' = wrrParam
  BY <1>4 DEF Change
<1>5. CASE Next
  BY <1>2, <1>3, <1>4, <1>5, Steps DEF ServerAdded, ServerRemoved, FailedOver, ServersReplaced
<1>. QED
  BY <1>1, <1>5

LEMMA WrrInv == Spec => []WrrOk
<1>1. Init => WrrOk
  <2>1. [index |-> -1, weight |-> 0] \in WrrParams
    <3>1. Cardinality(Servers) \in Nat
      BY ServersAssumption, FS_CardinalityType
    <3>2. -1 \in -1 .. Cardinality(Servers) - 1
      BY <3>1
    <3>. QED
      BY <3>2 DEF WrrParams
  <2>. QED
    BY <2>1 DEF Init, WrrOk
<1>2. ListsOk /\ WrrOk /\ [Next]_vars => WrrOk'
  <2> SUFFICES ASSUME ListsOk, WrrOk, [Next]_vars
               PROVE  WrrOk'
    OBVIOUS
  <2>1. ASSUME NEW t \in Types, MayRoute(t), Wrr(t)
        PROVE  WrrOk'
    BY <2>1, WrrStepIs
  <2>2. CASE wrrParam' = wrrParam
    BY <2>2 DEF WrrOk
  <2>. QED
    BY <2>1, <2>2, WrrParamStays
<1>. QED
  BY <1>1, <1>2, ListsInv, PTL DEF Spec

-----------------------------------------------------------------------------
(* Types.                                                                  *)

\* Every variable keeps its type, and every ring the nodes of its keys.
THEOREM TypeCorrect == Spec => []TypeOK
<1>1. ListsOk /\ StateOk /\ CountsOk /\ WrrOk => TypeOK
  <2> SUFFICES ASSUME ListsOk, StateOk, CountsOk, WrrOk
               PROVE  TypeOK
    OBVIOUS
  <2>1. StationTypeOK
    <3>1. ASSUME NEW t \in Types
          PROVE  serversMap[t] \in Seq(DOMAIN servers)
      <4>1. /\ serversMap[t] \in Seq(Servers)
            /\ \A s \in Range(serversMap[t]) : s \in DOMAIN servers
        BY DEF ListsOk
      <4>2. serversMap[t] \in [1 .. Len(serversMap[t]) -> DOMAIN servers]
            /\ Len(serversMap[t]) \in Nat
        BY <4>1 DEF Range
      <4>. QED
        BY <4>2
    <3>. QED
      BY <3>1 DEF ListsOk, StationTypeOK, Range
  <2>2. \A t \in Types : wrrParam[t].index \in -1 .. Cardinality(Servers) - 1
                           /\ wrrParam[t].weight \in Nat
    BY DEF WrrOk, WrrParams
  <2>3. ASSUME NEW t \in DOMAIN laParam
        PROVE  /\ DOMAIN laParam[t] \subseteq Servers
               /\ \A s \in DOMAIN laParam[t] : laParam[t][s] <= load[s]
    <3>1. \A s \in DOMAIN laParam[t] : s \in Servers /\ laParam[t][s] = load[s]
      BY DEF CountsOk
    <3>2. \A s \in Servers : load[s] \in Nat /\ load[s] <= load[s]
      BY DEF StateOk
    <3>. QED
      BY <3>1, <3>2
  <2>4. ASSUME NEW t \in DOMAIN chParam
        PROVE  /\ chParam[t].nodes \in Seq(Servers)
               /\ Range(chParam[t].keys) = DOMAIN chParam[t].ring
               /\ Range(chParam[t].nodes) = Range(chParam[t].ring)
    <3> DEFINE r == chParam[t]
    <3>1. RingOk(r)
      BY DEF StateOk, RingsOk
    <3>. HIDE DEF r
    <3>2. ASSUME NEW n \in Range(r.nodes)
          PROVE  n \in Range(r.ring)
      <4>1. 0 \in Replica
        BY RingAssumption DEF Replica
      <4>2. HashOf[<<n, 0>>] \in HashesOf(Range(r.nodes))
        BY <4>1, InHashes
      <4>3. HashOf[<<n, 0>>] \in DOMAIN r.ring /\ r.ring[HashOf[<<n, 0>>]] = n
        BY <3>1, <4>1, <4>2, Zenon DEF RingOk
      <4>. QED
        BY <4>3 DEF Range
    <3>3. ASSUME NEW k \in DOMAIN r.ring
          PROVE  r.ring[k] \in Range(r.nodes)
      <4>1. k \in HashesOf(Range(r.nodes))
        BY <3>1 DEF RingOk
      <4>2. PICK n \in Range(r.nodes), i \in Replica : k = HashOf[<<n, i>>]
        BY <4>1, InHashes
      <4>3. r.ring[k] = n
        BY <3>1, <4>2, Zenon DEF RingOk
      <4>. QED
        BY <4>3
    <3>4. Range(r.nodes) = Range(r.ring)
      BY <3>2, <3>3 DEF Range
    <3>. QED
      BY <3>1, <3>4 DEF RingOk, r
  <2>. QED
    BY <2>1, <2>2, <2>3, <2>4 DEF TypeOK, StateOk, FramesOk, RingsOk
<1>. QED
  BY <1>1, ListsInv, StateInv, CountsInv, WrrInv, PTL

-----------------------------------------------------------------------------
(* The routes since the list changed.                                      *)

RouteRecords == [server : Servers \union {NoNode}, nested : BOOLEAN]

\* A type that has routes has servers.
RecentOk ==
  /\ recent \in [Types -> Seq(RouteRecords)]
  /\ \A t \in Types : recent[t] # <<>> => serversMap[t] # <<>>

Nested(t) == \E i \in DOMAIN storing : storing[i].type = t

LEMMA IndexIn ==
  ASSUME NEW n \in Nat \ {0}, NEW a \in Int
  PROVE  (a % n) + 1 \in 1 .. n
<1> DEFINE r == a % n
<1>1. r \in 0 .. n - 1
  BY Division
<1>. HIDE DEF r
<1>2. r + 1 \in 1 .. n
  BY <1>1
<1>. QED
  BY <1>2 DEF r

LEMMA RouteAppends ==
  ASSUME RecentOk, NEW t \in Types, MayRoute(t), NEW s \in Servers \union {NoNode},
         RouteTo(t, s)
  PROVE  /\ RecentOk'
         /\ Len(recent[t]) \in Nat /\ Len(recent'[t]) = Len(recent[t]) + 1
         /\ DOMAIN recent[t] = 1 .. Len(recent[t])
         /\ DOMAIN recent'[t] = 1 .. Len(recent[t]) + 1
         /\ \A i \in DOMAIN recent[t] : recent'[t][i] = recent[t][i]
         /\ recent'[t][Len(recent[t]) + 1] = [server |-> s, nested |-> Nested(t)]
         /\ \A u \in Types : u # t => recent'[u] = recent[u]
         /\ UNCHANGED <<servers, serversMap, schedule>>
<1> DEFINE e == [server |-> s, nested |-> Nested(t)]
<1>1. /\ recent' = [recent EXCEPT ![t] = Append(@, e)]
      /\ UNCHANGED <<servers, serversMap, schedule>>
  BY DEF RouteTo, Nested, station
<1>2. e \in RouteRecords /\ recent[t] \in Seq(RouteRecords)
  BY DEF RouteRecords, Nested, RecentOk
<1>. HIDE DEF e
<1>3. /\ recent'[t] = Append(recent[t], e)
      /\ \A u \in Types : u # t => recent'[u] = recent[u]
  BY <1>1 DEF RecentOk
<1>4. /\ Append(recent[t], e) \in Seq(RouteRecords)
      /\ Len(Append(recent[t], e)) = Len(recent[t]) + 1
      /\ \A i \in 1 .. Len(recent[t]) : Append(recent[t], e)[i] = recent[t][i]
      /\ Append(recent[t], e)[Len(recent[t]) + 1] = e
  BY <1>2, AppendProperties
<1>5. /\ Len(recent[t]) \in Nat /\ DOMAIN recent[t] = 1 .. Len(recent[t])
      /\ DOMAIN recent'[t] = 1 .. Len(recent[t]) + 1
  BY <1>2, <1>3, <1>4
<1>6. RecentOk'
  <2>1. recent' \in [Types -> Seq(RouteRecords)]
    BY <1>1, <1>4 DEF RecentOk
  <2>2. serversMap[t] # <<>>
    BY DEF MayRoute
  <2>. QED
    BY <1>1, <1>3, <2>1, <2>2 DEF RecentOk
<1>. QED
  BY <1>1, <1>3, <1>4, <1>5, <1>6 DEF e

LEMMA ChangeResets ==
  ASSUME RecentOk, Change
  PROVE  /\ RecentOk'
         /\ \A t \in Types :
              \/ recent'[t] = <<>>
              \/ /\ recent'[t] = recent[t] /\ serversMap'[t] = serversMap[t]
                 /\ \A s \in Range(serversMap[t]) : servers'[s] = servers[s]
<1>1. \A t \in Types :
        recent'[t] = IF serversMap'[t] = serversMap[t]
                        /\ \A s \in Range(serversMap[t]) : servers'[s] = servers[s]
                       THEN recent[t] ELSE <<>>
  BY DEF Change
<1>2. DOMAIN recent' = Types /\ recent' = [t \in Types |-> recent'[t]]
  BY DEF Change
<1>3. \A t \in Types : recent'[t] \in Seq(RouteRecords)
  <2>1. <<>> \in Seq(RouteRecords)
    OBVIOUS
  <2>. QED
    BY <1>1, <2>1, Zenon DEF RecentOk
<1>4. recent' \in [Types -> Seq(RouteRecords)]
  BY <1>2, <1>3
<1>. QED
  BY <1>1, <1>4 DEF RecentOk

\* A step routes a call, which is added to the routes, or changes servers, or
\* leaves both alone.
LEMMA HistorySteps ==
  ASSUME ListsOk, StateOk, WrrOk, [Next]_vars
  PROVE  \/ \E t \in Types : \E s \in Servers \union {NoNode} :
              MayRoute(t) /\ RouteTo(t, s)
         \/ Change
         \/ UNCHANGED <<recent, servers, serversMap, schedule>>
<1>1. CASE UNCHANGED vars
  BY <1>1 DEF vars, histories, station
<1>2. ASSUME NEW t \in Types, MayRoute(t), Rr(t)
      PROVE  \E s \in Servers \union {NoNode} : RouteTo(t, s)
  <2>1. RouteTo(t, serversMap[t][(rrParam[t] % Len(serversMap[t])) + 1])
    BY <1>2 DEF Rr
  <2>2. /\ Len(serversMap[t]) \in Nat \ {0} /\ rrParam[t] \in Int
        /\ \A i \in 1 .. Len(serversMap[t]) : serversMap[t][i] \in Servers
    BY <1>2, MayRouteHolds DEF StateOk
  <2>3. (rrParam[t] % Len(serversMap[t])) + 1 \in 1 .. Len(serversMap[t])
    BY <2>2, IndexIn
  <2>. QED
    BY <2>1, <2>2, <2>3
<1>3. ASSUME NEW t \in Types, MayRoute(t), Wrr(t)
      PROVE  \E s \in Servers \union {NoNode} : RouteTo(t, s)
  <2>1. PICK b \in TurnsOf(Len(serversMap[t]), WeightsAt(t)) :
          RouteTo(t, serversMap[t][b[1] + 1])
    BY <1>3, WrrStepIs
  <2>2. MaxWeight(t) > 0
    BY <1>3 DEF Wrr
  <2>3. b[1] \in 0 .. Len(serversMap[t]) - 1
    BY <1>3, <2>2, ResultHolds
  <2>4. b[1] + 1 \in 1 .. Len(serversMap[t])
    BY <1>3, <2>3, MayRouteHolds
  <2>. QED
    BY <1>3, <2>1, <2>4, MayRouteHolds
<1>4. ASSUME NEW t \in Types, La(t) \/ Rd(t)
      PROVE  \E s \in Servers \union {NoNode} : RouteTo(t, s)
  <2>1. PICK s \in Range(serversMap[t]) : RouteTo(t, s)
    BY <1>4 DEF La, Rd, LeastActive
  <2>. QED
    BY <2>1 DEF ListsOk
<1>5. ASSUME NEW t \in Types, NEW hash \in Hashes, Ch(t, hash)
      PROVE  \E s \in Servers \union {NoNode} : RouteTo(t, s)
  <2>1. PICK r : RingOk(r) /\ RouteTo(t, GetNode(r, hash))
    <3>1. CASE t \in DOMAIN chParam
      BY <1>5, <3>1 DEF Ch, StateOk, RingsOk
    <3>2. CASE t \notin DOMAIN chParam
      <4>1. RingOk(NewRing(serversMap[t]))
        BY NewRingOk DEF ListsOk
      <4>. QED
        BY <1>5, <3>2, <4>1 DEF Ch
    <3>. QED
      BY <3>1, <3>2
  <2>2. hash \in Int
    BY RoutingAssumption
  <2>3. GetNode(r, hash) \in Range(r.nodes) \union {NoNode}
    BY <2>1, <2>2, GetNodeOk
  <2>4. Range(r.nodes) \subseteq Servers
    BY <2>1 DEF RingOk, Range
  <2>. QED
    BY <2>1, <2>3, <2>4
<1>6. ASSUME RrDone \/ ChDone
      PROVE  UNCHANGED <<recent, servers, serversMap, schedule>>
  BY <1>6 DEF RrDone, ChDone, histories, station
<1>7. CASE Next
  BY <1>2, <1>3, <1>4, <1>5, <1>6, <1>7, Steps
  DEF ServerAdded, ServerRemoved, FailedOver, ServersReplaced
<1>. QED
  BY <1>1, <1>7

LEMMA RecentInv == Spec => []RecentOk
<1>1. Init => RecentOk
  BY DEF Init, RecentOk
<1>2. ListsOk /\ StateOk /\ WrrOk /\ RecentOk /\ [Next]_vars => RecentOk'
  <2> SUFFICES ASSUME ListsOk, StateOk, WrrOk, RecentOk, [Next]_vars
               PROVE  RecentOk'
    OBVIOUS
  <2>1. ASSUME NEW t \in Types, NEW s \in Servers \union {NoNode}, MayRoute(t), RouteTo(t, s)
        PROVE  RecentOk'
    BY <2>1, RouteAppends
  <2>2. CASE Change
    BY <2>2, ChangeResets
  <2>3. CASE UNCHANGED <<recent, servers, serversMap, schedule>>
    BY <2>3 DEF RecentOk
  <2>. QED
    BY <2>1, <2>2, <2>3, HistorySteps
<1>. QED
  BY <1>1, <1>2, ListsInv, StateInv, WrrInv, PTL DEF Spec

-----------------------------------------------------------------------------
(* Round robin.                                                            *)

\* The index of the next call of type t that is in no callback of one of its
\* type: what the outermost of these calls stores, if there is one.
NextIndex(t, v) ==
  \/ ~Nested(t) /\ v = rrParam[t]
  \/ \E i \in DOMAIN storing :
       /\ storing[i].type = t /\ v = storing[i].value
       /\ \A j \in DOMAIN storing : j < i => storing[j].type # t

\* The outermost calls, by their place among all.
Kept(t) == {i \in DOMAIN recent[t] : ~recent[t][i].nested}

\* The outermost calls went to the servers before the next index.
RotationAt(t, v) ==
  /\ v \in Nat /\ Cardinality(Kept(t)) <= v
  /\ \A i \in Kept(t) :
       recent[t][i].server =
         serversMap[t][((v - Cardinality(Kept(t)) - 1 + Rank(Kept(t), i))
                          % Len(serversMap[t])) + 1]

RotationOk ==
  schedule = "rr" => \A t \in Types : \E v : NextIndex(t, v) /\ RotationAt(t, v)

LEMMA KeptType ==
  ASSUME RecentOk, NEW t \in Types
  PROVE  /\ Kept(t) \in SUBSET Nat /\ IsFiniteSet(Kept(t))
         /\ Cardinality(Kept(t)) \in Nat /\ Kept(t) \subseteq 1 .. Len(recent[t])
         /\ Len(recent[t]) \in Nat
<1>1. recent[t] \in Seq(RouteRecords)
  BY DEF RecentOk
<1>2. /\ Kept(t) \subseteq 1 .. Len(recent[t]) /\ Len(recent[t]) \in Nat
      /\ Kept(t) \in SUBSET Nat
  BY <1>1 DEF Kept
<1>3. IsFiniteSet(Kept(t))
  BY <1>2, IntervalSize, FS_Subset
<1>. QED
  BY <1>2, <1>3, FS_CardinalityType

LEMMA RotationStays ==
  ASSUME RecentOk, NEW t \in Types, NEW v \in Nat, RotationAt(t, v),
         \/ recent'[t] = <<>>
         \/ recent'[t] = recent[t] /\ serversMap'[t] = serversMap[t]
  PROVE  RotationAt(t, v)'
<1>1. CASE recent'[t] = <<>>
  <2>1. Kept(t)' = {}
    BY <1>1 DEF Kept
  <2>2. Cardinality({}) = 0
    BY FS_EmptySet
  <2>. QED
    BY <2>1, <2>2 DEF RotationAt
<1>2. CASE recent'[t] = recent[t] /\ serversMap'[t] = serversMap[t]
  <2>1. Kept(t)' = Kept(t)
    BY <1>2 DEF Kept
  <2>. QED
    BY <1>2, <2>1 DEF RotationAt
<1>. QED
  BY <1>1, <1>2

\* A call that is in a callback of another one of its type.
LEMMA NestedRotation ==
  ASSUME RecentOk, NEW t \in Types, MayRoute(t), NEW s \in Servers, RouteTo(t, s),
         Nested(t), NEW v \in Nat, RotationAt(t, v)
  PROVE  RotationAt(t, v)'
<1>1. /\ Len(recent[t]) \in Nat
      /\ DOMAIN recent[t] = 1 .. Len(recent[t])
      /\ DOMAIN recent'[t] = 1 .. Len(recent[t]) + 1
      /\ \A i \in DOMAIN recent[t] : recent'[t][i] = recent[t][i]
      /\ recent'[t][Len(recent[t]) + 1] = [server |-> s, nested |-> Nested(t)]
      /\ serversMap' = serversMap
  BY RouteAppends
<1>2. \A i \in 1 .. Len(recent[t]) + 1 : i \in 1 .. Len(recent[t]) \/ i = Len(recent[t]) + 1
  BY <1>1
<1>3. 1 .. Len(recent[t]) \subseteq 1 .. Len(recent[t]) + 1
  BY <1>1
<1>4. recent'[t][Len(recent[t]) + 1].nested
  BY <1>1
<1>5. Kept(t)' = Kept(t)
  <2>1. \A i : i \in Kept(t)' <=> i \in Kept(t)
    BY <1>1, <1>2, <1>3, <1>4 DEF Kept
  <2>. QED
    BY <2>1
<1>6. \A i \in Kept(t) : recent'[t][i] = recent[t][i]
  BY <1>1 DEF Kept
<1>. QED
  BY <1>1, <1>5, <1>6 DEF RotationAt

\* One that is not.
LEMMA OutermostRotation ==
  ASSUME ListsOk, RecentOk, NEW t \in Types, MayRoute(t), NEW v \in Nat, ~Nested(t),
         RouteTo(t, serversMap[t][(v % Len(serversMap[t])) + 1]), RotationAt(t, v)
  PROVE  RotationAt(t, v + 1)'
<1> DEFINE N == Len(serversMap[t])
           s == serversMap[t][(v % N) + 1]
           K == Kept(t)
           m == Len(recent[t]) + 1
           c == Cardinality(K)
<1>0. N \in Nat \ {0} /\ s \in Servers
  <2>1. N \in Nat \ {0} /\ \A i \in 1 .. N : serversMap[t][i] \in Servers
    BY MayRouteHolds
  <2>2. (v % N) + 1 \in 1 .. N
    <3>1. N \in Nat \ {0} /\ v \in Int
      BY <2>1
    <3>. HIDE DEF N
    <3>. QED
      BY <3>1, IndexIn
  <2>. QED
    BY <2>1, <2>2
<1>. HIDE DEF s, N
<1>1. /\ Len(recent[t]) \in Nat
      /\ DOMAIN recent[t] = 1 .. Len(recent[t])
      /\ DOMAIN recent'[t] = 1 .. m
      /\ \A i \in DOMAIN recent[t] : recent'[t][i] = recent[t][i]
      /\ recent'[t][m] = [server |-> s, nested |-> Nested(t)]
      /\ serversMap' = serversMap
  BY <1>0, RouteAppends DEF s, N
<1>2. /\ K \in SUBSET Nat /\ IsFiniteSet(K) /\ c \in Nat /\ c <= v
      /\ K \subseteq 1 .. Len(recent[t])
  BY KeptType DEF RotationAt
<1>3. m \in Nat /\ \A i \in 1 .. Len(recent[t]) : i < m /\ ~(m <= i) /\ i <= m
  BY <1>1
<1>4. Kept(t)' = K \union {m}
  <2>1. \A i \in 1 .. m : i \in 1 .. Len(recent[t]) \/ i = m
    BY <1>1
  <2>2. 1 .. Len(recent[t]) \subseteq 1 .. m /\ m \in 1 .. m
    BY <1>1
  <2>3. ~recent'[t][m].nested
    BY <1>1
  <2>4. \A i : i \in Kept(t)' <=> i \in K \/ i = m
    <3>. HIDE DEF m
    <3>. QED
      BY <1>1, <2>1, <2>2, <2>3 DEF Kept
  <2>. QED
    BY <2>4
<1>. HIDE DEF m, K
<1>5. m \notin K /\ Cardinality(K \union {m}) = c + 1
  <2>1. m \notin K
    BY <1>2, <1>3
  <2>. QED
    BY <1>2, <2>1, FS_AddElement
<1>6. ASSUME NEW i \in K
      PROVE  Rank(K \union {m}, i) = Rank(K, i)
  <2>1. ~(m <= i)
    BY <1>2, <1>3
  <2>2. {j \in K \union {m} : j <= i} = {j \in K : j <= i}
    BY <2>1
  <2>. QED
    BY <2>2 DEF Rank
<1>7. Rank(K \union {m}, m) = c + 1
  <2>1. \A j \in K \union {m} : j <= m
    BY <1>2, <1>3
  <2>2. {j \in K \union {m} : j <= m} = K \union {m}
    BY <2>1
  <2>. QED
    BY <1>5, <2>2 DEF Rank
<1>8. ASSUME NEW i \in K \union {m}
      PROVE  recent'[t][i].server =
               serversMap[t][(((v + 1) - (c + 1) - 1 + Rank(K \union {m}, i)) % N) + 1]
  <2>1. CASE i \in K
    <3>1. recent'[t][i] = recent[t][i]
      BY <1>1, <1>2, <2>1
    <3>2. recent[t][i].server = serversMap[t][((v - c - 1 + Rank(K, i)) % N) + 1]
      BY <2>1 DEF RotationAt, K, N
    <3>3. Rank(K, i) \in Int
      <4>1. Rank(K, i) \in 0 .. Cardinality(K)
        BY <1>2, RankType
      <4>. QED
        BY <4>1
    <3>4. (v + 1) - (c + 1) - 1 + Rank(K, i) = v - c - 1 + Rank(K, i)
      <4>. HIDE DEF c
      <4>. QED
        BY <1>2, <3>3
    <3>. QED
      BY <1>6, <2>1, <3>1, <3>2, <3>4
  <2>2. CASE i = m
    <3>1. (v + 1) - (c + 1) - 1 + (c + 1) = v
      <4>. HIDE DEF c
      <4>. QED
        BY <1>2
    <3>2. recent'[t][m].server = s
      BY <1>1
    <3>. QED
      BY <1>7, <2>2, <3>1, <3>2 DEF s
  <2>. QED
    BY <2>1, <2>2
<1>9. v + 1 \in Nat /\ c + 1 <= v + 1
  <2>. HIDE DEF c
  <2>. QED
    BY <1>2
<1>. QED
  BY <1>1, <1>4, <1>5, <1>8, <1>9 DEF RotationAt, N

\* The route of a call leaves the next index of the other types alone.
LEMMA RotationRr ==
  ASSUME ListsOk, StateOk, RecentOk, schedule = "rr", RotationOk,
         NEW t \in Types, MayRoute(t), Rr(t)
  PROVE  RotationOk'
<1> DEFINE N == Len(serversMap[t])
           s == serversMap[t][(rrParam[t] % N) + 1]
           f == [type |-> t, value |-> rrParam[t] + 1]
           m == Len(storing) + 1
<1>1. RouteTo(t, s) /\ StoreAfter(t, rrParam[t] + 1) /\ rrParam' = rrParam
  BY DEF Rr, params
<1>2. s \in Servers
  <2>1. N \in Nat \ {0} /\ \A i \in 1 .. N : serversMap[t][i] \in Servers
    BY MayRouteHolds
  <2>2. (rrParam[t] % N) + 1 \in 1 .. N
    <3>1. N \in Nat \ {0} /\ rrParam[t] \in Int
      BY <2>1 DEF StateOk
    <3>. HIDE DEF N
    <3>. QED
      BY <3>1, IndexIn
  <2>. QED
    BY <2>1, <2>2
<1>3. /\ DOMAIN storing = 1 .. Len(storing) /\ DOMAIN storing' = 1 .. m
      /\ Len(storing) \in Nat
      /\ \A i \in DOMAIN storing : i \in DOMAIN storing' /\ storing'[i] = storing[i]
      /\ storing'[m] = f
      /\ \A i \in DOMAIN storing' : i \in DOMAIN storing \/ i = m
  <2>1. \E S : storing \in Seq(S)
    BY DEF StateOk, FramesOk
  <2>. QED
    BY <1>1, <2>1, Pushed
<1>4. /\ \A u \in Types : u # t => recent'[u] = recent[u]
      /\ UNCHANGED <<serversMap, schedule>>
  BY <1>1, <1>2, RouteAppends
<1>. HIDE DEF s, m
<1>5. m \in DOMAIN storing' /\ m \notin DOMAIN storing /\ \A j \in DOMAIN storing : j < m
  BY <1>3 DEF m
<1>6. f.type = t /\ f.value = rrParam[t] + 1
  OBVIOUS
<1>. HIDE DEF f
\* The frames of a type that has some have the same first one.
<1>7. ASSUME NEW u \in Types, NEW v, NextIndex(u, v), Nested(u) \/ u # t
      PROVE  NextIndex(u, v)'
  <2>1. CASE ~Nested(u)
    <3>1. u # t /\ v = rrParam[u]
      BY <1>7, <2>1 DEF NextIndex, Nested
    <3>2. ~Nested(u)'
      BY <1>3, <1>6, <2>1, <3>1 DEF Nested
    <3>. QED
      BY <1>1, <3>1, <3>2 DEF NextIndex
  <2>2. CASE Nested(u)
    <3>1. PICK i \in DOMAIN storing :
            /\ storing[i].type = u /\ v = storing[i].value
            /\ \A j \in DOMAIN storing : j < i => storing[j].type # u
      BY <1>7, <2>2 DEF NextIndex
    <3>2. ~(m < i)
      BY <1>3, <1>5, <3>1
    <3>3. /\ i \in DOMAIN storing' /\ storing'[i].type = u /\ v = storing'[i].value
          /\ \A j \in DOMAIN storing' : j < i => storing'[j].type # u
      BY <1>3, <3>1, <3>2
    <3>. QED
      BY <3>3 DEF NextIndex
  <2>. QED
    BY <2>1, <2>2
<1>8. ASSUME NEW u \in Types
      PROVE  \E v : NextIndex(u, v)' /\ RotationAt(u, v)'
  <2>1. PICK v : NextIndex(u, v) /\ RotationAt(u, v)
    BY DEF RotationOk
  <2>2. v \in Nat
    BY <2>1 DEF RotationAt
  <2>3. CASE u # t
    <3>1. RotationAt(u, v)'
      BY <1>4, <2>1, <2>2, <2>3, RotationStays
    <3>. QED
      BY <1>7, <2>1, <2>3, <3>1
  <2>4. CASE u = t /\ Nested(t)
    <3>1. RotationAt(u, v)'
      BY <1>1, <1>2, <2>1, <2>2, <2>4, NestedRotation
    <3>. QED
      BY <1>7, <2>1, <2>4, <3>1
  <2>5. CASE u = t /\ ~Nested(t)
    <3>1. v = rrParam[t]
      BY <2>1, <2>5 DEF NextIndex, Nested
    <3>2. RotationAt(t, v + 1)'
      BY <1>1, <2>1, <2>2, <2>5, <3>1, OutermostRotation DEF s
    <3>3. NextIndex(t, v + 1)'
      <4>1. /\ storing'[m].type = t /\ v + 1 = storing'[m].value
            /\ \A j \in DOMAIN storing' : j < m => storing'[j].type # t
        <5>1. ~(m < m)
          BY <1>3 DEF m
        <5>. QED
          BY <1>3, <1>6, <2>5, <3>1, <5>1 DEF Nested
      <4>. QED
        BY <1>5, <4>1 DEF NextIndex
    <3>. QED
      BY <2>5, <3>2, <3>3
  <2>. QED
    BY <2>3, <2>4, <2>5
<1>. QED
  BY <1>8 DEF RotationOk

LEMMA RotationRrDone ==
  ASSUME StateOk, RecentOk, schedule = "rr", RotationOk, storing # <<>>, RrDone
  PROVE  RotationOk'
<1> DEFINE m == Len(storing)
           frame == Last(storing)
<1>1. /\ rrParam' = [rrParam EXCEPT ![frame.type] = frame.value]
      /\ storing' = Front(storing)
      /\ UNCHANGED <<serversMap, schedule, recent>>
  BY DEF RrDone, histories, station
<1>2. /\ DOMAIN storing = 1 .. m /\ DOMAIN storing' = 1 .. m - 1 /\ m \in Nat
      /\ \A i \in DOMAIN storing' : i \in DOMAIN storing /\ storing'[i] = storing[i]
      /\ frame = storing[m] /\ m \in DOMAIN storing
  <2>1. \E S : storing \in Seq(S)
    BY DEF StateOk, FramesOk
  <2>. QED
    BY <1>1, <2>1, Popped
<1>. HIDE DEF m, frame
<1>3. \A i \in DOMAIN storing : i \in DOMAIN storing' \/ i = m
  BY <1>2
<1>4. \A u \in Types : rrParam'[u] = IF u = frame.type THEN frame.value ELSE rrParam[u]
  BY <1>1 DEF StateOk
<1>5. ASSUME NEW u \in Types, NEW v, NextIndex(u, v)
      PROVE  NextIndex(u, v)'
  <2>1. CASE ~Nested(u)
    <3>1. v = rrParam[u] /\ u # frame.type
      BY <1>2, <1>5, <2>1 DEF NextIndex, Nested
    <3>2. ~Nested(u)'
      BY <1>2, <2>1 DEF Nested
    <3>. QED
      BY <1>4, <3>1, <3>2 DEF NextIndex
  <2>2. CASE Nested(u)
    <3>1. PICK i \in DOMAIN storing :
            /\ storing[i].type = u /\ v = storing[i].value
            /\ \A j \in DOMAIN storing : j < i => storing[j].type # u
      BY <1>5, <2>2 DEF NextIndex
    <3>2. CASE i = m
      <4>1. \A j \in DOMAIN storing' : j < m
        BY <1>2
      <4>2. ~Nested(u)'
        BY <1>2, <3>1, <3>2, <4>1 DEF Nested
      <4>3. v = rrParam'[u]
        BY <1>2, <1>4, <3>1, <3>2
      <4>. QED
        BY <4>2, <4>3 DEF NextIndex
    <3>3. CASE i # m
      <4>1. /\ i \in DOMAIN storing' /\ storing'[i].type = u /\ v = storing'[i].value
            /\ \A j \in DOMAIN storing' : j < i => storing'[j].type # u
        BY <1>2, <1>3, <3>1, <3>3
      <4>. QED
        BY <4>1 DEF NextIndex
    <3>. QED
      BY <3>2, <3>3
  <2>. QED
    BY <2>1, <2>2
<1>6. ASSUME NEW u \in Types
      PROVE  \E v : NextIndex(u, v)' /\ RotationAt(u, v)'
  <2>1. PICK v : NextIndex(u, v) /\ RotationAt(u, v)
    BY DEF RotationOk
  <2>2. v \in Nat
    BY <2>1 DEF RotationAt
  <2>3. RotationAt(u, v)'
    BY <1>1, <2>1, <2>2, RotationStays
  <2>. QED
    BY <1>5, <2>1, <2>3
<1>. QED
  BY <1>6 DEF RotationOk

LEMMA RotationChange ==
  ASSUME RecentOk, schedule = "rr", RotationOk, UNCHANGED <<rrParam, storing>>,
         \A t \in Types : \/ recent'[t] = <<>>
                          \/ recent'[t] = recent[t] /\ serversMap'[t] = serversMap[t]
  PROVE  RotationOk'
<1>2. ASSUME NEW u \in Types
      PROVE  \E v : NextIndex(u, v)' /\ RotationAt(u, v)'
  <2>1. PICK v : NextIndex(u, v) /\ RotationAt(u, v)
    BY DEF RotationOk
  <2>2. v \in Nat
    BY <2>1 DEF RotationAt
  <2>3. RotationAt(u, v)'
    BY <2>1, <2>2, RotationStays
  <2>4. NextIndex(u, v)'
    BY <2>1 DEF NextIndex, Nested
  <2>. QED
    BY <2>3, <2>4
<1>. QED
  BY <1>2 DEF RotationOk

LEMMA RotationInv == Spec => []RotationOk
<1>1. Init => RotationOk
  <2> SUFFICES ASSUME Init, NEW t \in Types
               PROVE  NextIndex(t, 0) /\ RotationAt(t, 0)
    BY DEF RotationOk
  <2>1. NextIndex(t, 0)
    BY DEF Init, NextIndex, Nested
  <2>2. Kept(t) = {}
    BY DEF Init, Kept
  <2>3. Cardinality({}) = 0
    BY FS_EmptySet
  <2>. QED
    BY <2>1, <2>2, <2>3 DEF RotationAt
<1>2. ListsOk /\ StateOk /\ RecentOk /\ RotationOk /\ [Next]_vars => RotationOk'
  <2> SUFFICES ASSUME ListsOk, StateOk, RecentOk, RotationOk, [Next]_vars
               PROVE  RotationOk'
    OBVIOUS
  <2>1. CASE schedule # "rr"
    <3>1. schedule' = schedule
      BY RouteOrChange DEF vars, ServerAdded, ServerRemoved, FailedOver, ServersReplaced, Change
    <3>. QED
      BY <2>1, <3>1 DEF RotationOk
  <2>2. CASE schedule = "rr"
    <3>1. CASE UNCHANGED vars
      <4>1. UNCHANGED <<rrParam, storing, recent, serversMap>>
        BY <3>1 DEF vars, params, histories, station
      <4>. QED
        BY <2>2, <4>1, RotationChange
    <3>2. ASSUME Change, storing' = storing
          PROVE  RotationOk'
      <4>1. rrParam' = rrParam
        BY <3>2 DEF Change
      <4>2. \A t \in Types : \/ recent'[t] = <<>>
                             \/ recent'[t] = recent[t] /\ serversMap'[t] = serversMap[t]
        BY <3>2, ChangeResets
      <4>. QED
        BY <2>2, <3>2, <4>1, <4>2, RotationChange
    <3>3. CASE Next
      BY <2>2, <3>2, <3>3, Steps, RotationRr, RotationRrDone
      DEF ServerAdded, ServerRemoved, FailedOver, ServersReplaced, RingsHear
    <3>. QED
      BY <3>1, <3>3
  <2>. QED
    BY <2>1, <2>2
<1>. QED
  BY <1>1, <1>2, ListsInv, StateInv, RecentInv, PTL DEF Spec

\* As many outermost calls in a row as there are servers go to as many servers.
THEOREM RoundRobinRotates == Spec => []Rotates
<1>1. ListsOk /\ RecentOk /\ RotationOk => Rotates
  <2> SUFFICES ASSUME ListsOk, RecentOk, RotationOk, schedule = "rr", NEW t \in Types,
                      NEW i \in DOMAIN Outermost(t), NEW j \in DOMAIN Outermost(t),
                      i < j, j < i + Len(serversMap[t])
               PROVE  Outermost(t)[i] # Outermost(t)[j]
    BY DEF Rotates
  <2> DEFINE K == Kept(t)
             list == serversMap[t]
             N == Len(list)
  <2>1. PICK v : RotationAt(t, v)
    BY DEF RotationOk
  <2>2. /\ K \in SUBSET Nat /\ IsFiniteSet(K) /\ Cardinality(K) \in Nat
        /\ K \subseteq 1 .. Len(recent[t])
    BY KeptType
  <2>3. /\ DOMAIN Outermost(t) = 1 .. Cardinality(K)
        /\ \A n \in 1 .. Cardinality(K) : Outermost(t)[n] = recent[t][Nth(K, n)].server
    <3> DEFINE X == {route \in Range(recent[t]) : route.nested}
               calls == Without(recent[t], X)
    <3>1. {n \in DOMAIN recent[t] : recent[t][n] \notin X} = K
      BY DEF Kept, Range
    <3>2. calls = [n \in 1 .. Cardinality(K) |-> recent[t][Nth(K, n)]]
      BY <3>1 DEF Without
    <3>3. Outermost(t) = [n \in DOMAIN calls |-> calls[n].server]
      BY DEF Outermost
    <3>. HIDE DEF calls, K
    <3>. QED
      BY <3>2, <3>3
  <2>. HIDE DEF K
  <2>4. i \in 1 .. Cardinality(K) /\ j \in 1 .. Cardinality(K)
    BY <2>3
  <2>5. list # <<>> /\ list \in Seq(Servers) /\ IsInjective(list)
    <3>1. recent[t] # <<>>
      <4>1. recent[t] = <<>> => K = {}
        BY DEF K, Kept
      <4>2. Cardinality({}) = 0
        BY FS_EmptySet
      <4>3. Cardinality(K) # 0
        BY <2>2, <2>4
      <4>. HIDE DEF K
      <4>. QED
        BY <4>1, <4>2, <4>3
    <3>. QED
      BY <3>1 DEF RecentOk, ListsOk
  <2>6. N \in Nat \ {0} /\ DOMAIN list = 1 .. N
    BY <2>5, EmptySeq
  <2> DEFINE b == v - Cardinality(K) - 1
  <2>7. \A n \in 1 .. Cardinality(K) : Outermost(t)[n] = list[((b + n) % N) + 1]
    <3> TAKE n \in 1 .. Cardinality(K)
    <3>1. Nth(K, n) \in K /\ Rank(K, Nth(K, n)) = n
      BY <2>2, NthHolds
    <3>. QED
      BY <2>1, <2>3, <3>1 DEF RotationAt, K
  <2>8. b \in Int /\ i \in Int /\ j \in Int /\ i < j /\ j < i + N
    BY <2>1, <2>2, <2>4 DEF RotationAt
  <2>. HIDE DEF b, N
  <2>9. (b + i) % N # (b + j) % N
    <3>1. b + i \in Int /\ b + j \in Int /\ b + i < b + j /\ b + j < (b + i) + N
      BY <2>6, <2>8
    <3>. QED
      BY <2>6, <3>1, RemaindersDiffer
  <2>10. /\ ((b + i) % N) + 1 \in 1 .. N /\ ((b + j) % N) + 1 \in 1 .. N
         /\ ((b + i) % N) + 1 # ((b + j) % N) + 1
    <3>1. b + i \in Int /\ b + j \in Int
      BY <2>8
    <3>2. (b + i) % N \in Int /\ (b + j) % N \in Int
      <4>1. (b + i) % N \in 0 .. N - 1 /\ (b + j) % N \in 0 .. N - 1
        BY <2>6, <3>1, Division
      <4>. QED
        BY <4>1
    <3>3. ((b + i) % N) + 1 # ((b + j) % N) + 1
      BY <2>9, <3>2
    <3>. QED
      BY <2>6, <3>1, <3>3, IndexIn
  <2>. QED
    BY <2>4, <2>5, <2>6, <2>7, <2>10 DEF IsInjective
<1>. QED
  BY <1>1, ListsInv, RecentInv, RotationInv, PTL

-----------------------------------------------------------------------------
(* Weighted round robin: the turns of a list, in the order of a round.     *)

\* The number of turns before x.
Place(P, x) == Cardinality({p \in P : Before(p, x)})

LEMMA PlaceOfNext ==
  ASSUME NEW N \in Nat \ {0}, NEW P \in SUBSET Round(N), IsFiniteSet(P),
         NEW x \in P, NEW b, IsNext(P, x, b)
  PROVE  /\ b \in P /\ Cardinality(P) \in Nat \ {0}
         /\ Place(P, x) \in 0 .. Cardinality(P) - 1
         /\ Place(P, b) = (Place(P, x) + 1) % Cardinality(P)
<1> DEFINE Q == Cardinality(P)
           A == {p \in P : Before(p, x)}
           B == {p \in P : Before(p, b)}
<1>1. b \in P
  BY DEF IsNext
<1>2. \A p \in P : p[1] \in Int /\ p[2] \in Int /\ p = <<p[1], p[2]>>
  BY RoundType
<1>3. /\ IsFiniteSet(A) /\ IsFiniteSet(B) /\ Cardinality(A) \in Nat /\ Cardinality(B) \in Nat
      /\ Q \in Nat \ {0}
  BY FS_Subset, FS_CardinalityType, FS_EmptySet
<1>4. x \notin A /\ b \notin B
  BY <1>1, <1>2 DEF Before
\* A turn is not before itself.
<1>5. ASSUME NEW y \in P
      PROVE  Cardinality({p \in P : Before(p, y)}) \in 0 .. Q - 1
  <2> DEFINE Y == {p \in P : Before(p, y)}
  <2>1. y \notin Y
    BY <1>2 DEF Before
  <2>2. Y \in SUBSET P /\ Y # P
    BY <2>1
  <2>. HIDE DEF Y
  <2>3. Cardinality(Y) <= Q /\ Cardinality(Y) # Q
    BY <2>2, FS_Subset
  <2>4. Cardinality(Y) \in Nat
    BY <2>2, FS_Subset, FS_CardinalityType
  <2>. HIDE DEF Q
  <2>5. Cardinality(Y) \in 0 .. Q - 1
    BY <1>3, <2>3, <2>4
  <2>. QED
    BY <2>5 DEF Y
<1>6. CASE Before(x, b) /\ \A p \in P : Before(x, p) => ~Before(p, b)
  <2>1. ASSUME NEW p \in P
        PROVE  Before(p, b) <=> Before(p, x) \/ p = x
    <3>1. Before(p, x) => Before(p, b)
      BY <1>1, <1>2, <1>6 DEF Before
    <3>2. Before(p, b) /\ ~Before(p, x) => p[1] = x[1] /\ p[2] = x[2]
      BY <1>1, <1>2, <1>6 DEF Before
    <3>. QED
      BY <1>2, <1>6, <3>1, <3>2
  <2>2. B = A \union {x}
    BY <2>1
  <2>. HIDE DEF A, B
  <2>3. Cardinality(B) = Cardinality(A) + 1
    BY <1>3, <1>4, <2>2, FS_AddElement
  <2>4. Cardinality(B) \in 0 .. Q - 1
    BY <1>1, <1>5 DEF B
  <2>5. Cardinality(B) % Q = Cardinality(B)
    BY <1>3, <2>4, SmallRemainder
  <2>. QED
    BY <1>1, <1>3, <1>5, <2>3, <2>5 DEF Place, A, B
<1>7. CASE \A p \in P : ~Before(x, p) /\ ~Before(p, b)
  <2>1. A = P \ {x}
    <3>1. ASSUME NEW p \in P
          PROVE  Before(p, x) <=> p # x
      <4>1. ~Before(p, x) => p[1] = x[1] /\ p[2] = x[2]
        BY <1>2, <1>7 DEF Before
      <4>2. p # x \/ ~Before(p, x)
        BY <1>4
      <4>. QED
        BY <1>2, <4>1, <4>2
    <3>. QED
      BY <3>1
  <2>2. B = {}
    BY <1>7
  <2>. HIDE DEF A, B
  <2>3. Cardinality(A) = Q - 1 /\ Cardinality(B) = 0
    BY <2>1, <2>2, FS_RemoveElement, FS_EmptySet
  <2>4. (Q - 1) + 1 = Q /\ Q % Q = 0
    <3>. HIDE DEF Q
    <3>. QED
      BY <1>3, SmallRemainder
  <2>. QED
    BY <1>1, <1>3, <1>5, <2>3, <2>4 DEF Place, A, B
<1>. QED
  BY <1>6, <1>7 DEF IsNext

LEMMA TurnsFinite ==
  ASSUME NEW N, NEW W, NEW M, WeightsOk(N, W, M)
  PROVE  IsFiniteSet(TurnsOf(N, W))
<1> DEFINE P == TurnsOf(N, W)
<1>1. /\ N \in Nat \ {0} /\ M \in Nat \ {0} /\ P \in SUBSET Round(N)
      /\ \A p \in P : p[2] <= M
  BY TurnsBounded
<1>2. \A p \in P : p[1] \in 0 .. N - 1 /\ p[2] \in 1 .. M /\ p = <<p[1], p[2]>>
  BY <1>1, RoundType
<1>3. P \in SUBSET ((0 .. N - 1) \X (1 .. M))
  BY <1>2
<1>4. IsFiniteSet(0 .. N - 1) /\ IsFiniteSet(1 .. M)
  BY <1>1, FS_Interval
<1>. QED
  BY <1>3, <1>4, FS_Product, FS_Subset

-----------------------------------------------------------------------------
(* Weighted round robin: the routes since the list changed.                *)

WrrTurns(t) == TurnsOf(Len(serversMap[t]), WeightsAt(t))

LastTurn(t) == <<wrrParam[t].index, wrrParam[t].weight>>

\* The k-th route was the turn that is as far before the last one in the round.
TurnOfRoute(t, k, p) ==
  /\ p \in WrrTurns(t)
  /\ Place(WrrTurns(t), p) =
       ((Place(WrrTurns(t), LastTurn(t)) + (k - Len(recent[t])))
          % Cardinality(WrrTurns(t)))
  /\ recent[t][k].server = serversMap[t][p[1] + 1]

TurnsInOrder(t) ==
  recent[t] # <<>> =>
    /\ MaxWeight(t) > 0 /\ LastTurn(t) \in WrrTurns(t)
    /\ \A k \in DOMAIN recent[t] : \E p : TurnOfRoute(t, k, p)

SharesOk == schedule = "wrr" => \A t \in Types : TurnsInOrder(t)

LEMMA WrrTurnsHold ==
  ASSUME ListsOk, NEW t \in Types, serversMap[t] # <<>>, MaxWeight(t) > 0
  PROVE  /\ Len(serversMap[t]) \in Nat \ {0}
         /\ WrrTurns(t) \in SUBSET Round(Len(serversMap[t]))
         /\ IsFiniteSet(WrrTurns(t)) /\ Cardinality(WrrTurns(t)) \in Nat \ {0}
<1>1. WeightsOk(Len(serversMap[t]), WeightsAt(t), MaxWeight(t))
  BY WeightsAtOk
<1>2. /\ WrrTurns(t) \in SUBSET Round(Len(serversMap[t])) /\ WrrTurns(t) # {}
      /\ Len(serversMap[t]) \in Nat \ {0} /\ IsFiniteSet(WrrTurns(t))
  BY <1>1, TurnsBounded, TurnsFinite DEF WrrTurns
<1>. QED
  BY <1>2, FS_CardinalityType, FS_EmptySet

LEMMA PlaceType ==
  ASSUME NEW P, IsFiniteSet(P), NEW x
  PROVE  Place(P, x) \in Nat
BY FS_Subset, FS_CardinalityType DEF Place

LEMMA SharesWrr ==
  ASSUME ListsOk, WrrOk, RecentOk, NEW t \in Types, MayRoute(t), Wrr(t), TurnsInOrder(t)
  PROVE  TurnsInOrder(t)'
<1> DEFINE P == WrrTurns(t)
           Q == Cardinality(P)
           x == LastTurn(t)
           L == Len(recent[t])
<1>1. PICK b \in P :
              /\ LastTurn(t)' = b
              /\ RouteTo(t, serversMap[t][b[1] + 1])
              /\ x \in Round(Len(serversMap[t])) => IsNext(P, x, b)
  BY WrrStepIs DEF WrrTurns, LastTurn
<1>2. MaxWeight(t) > 0 /\ serversMap[t] # <<>>
  BY DEF Wrr, MayRoute
<1>3. /\ Len(serversMap[t]) \in Nat \ {0} /\ P \in SUBSET Round(Len(serversMap[t]))
      /\ IsFiniteSet(P) /\ Q \in Nat \ {0}
  BY <1>2, WrrTurnsHold
<1> DEFINE s == serversMap[t][b[1] + 1]
<1>4. s \in Servers
  <2>1. b[1] \in 0 .. Len(serversMap[t]) - 1
    BY <1>3, RoundType
  <2>2. b[1] + 1 \in 1 .. Len(serversMap[t])
    BY <1>3, <2>1
  <2>. QED
    BY <2>2, MayRouteHolds
<1>. HIDE DEF s
<1>5. /\ L \in Nat /\ Len(recent'[t]) = L + 1
      /\ DOMAIN recent[t] = 1 .. L /\ DOMAIN recent'[t] = 1 .. L + 1
      /\ \A i \in DOMAIN recent[t] : recent'[t][i] = recent[t][i]
      /\ recent'[t][L + 1] = [server |-> s, nested |-> Nested(t)]
      /\ UNCHANGED <<servers, serversMap, schedule>>
  BY <1>1, <1>4, RouteAppends DEF s
<1>6. WrrTurns(t)' = P /\ MaxWeight(t)' = MaxWeight(t)
  BY <1>5 DEF WrrTurns, WeightsAt, MaxWeight
<1>. HIDE DEF P, L
<1>7. Place(P, b) \in 0 .. Q - 1
  <2>1. {p \in P : Before(p, b)} \in SUBSET P /\ b \notin {p \in P : Before(p, b)}
    <3>1. b[1] \in Int /\ b[2] \in Int
      BY <1>3, RoundType
    <3>. QED
      BY <3>1 DEF Before
  <2>2. Place(P, b) <= Q /\ Place(P, b) # Q /\ Place(P, b) \in Nat
    BY <1>1, <1>3, <2>1, FS_Subset, FS_CardinalityType DEF Place
  <2>. HIDE DEF Q
  <2>. QED
    BY <1>3, <2>2
<1>8. ASSUME NEW k \in 1 .. L
      PROVE  \E p : TurnOfRoute(t, k, p)'
  <2>1. recent[t] # <<>>
    BY <1>5
  <2>2. x \in P /\ IsNext(P, x, b)
    BY <1>1, <1>3, <2>1 DEF TurnsInOrder, P
  <2>3. Place(P, b) = (Place(P, x) + 1) % Q
    BY <1>3, <2>2, PlaceOfNext
  <2>4. PICK p : TurnOfRoute(t, k, p)
    BY <1>5, <2>1 DEF TurnsInOrder
  <2>5. /\ p \in P /\ Place(P, p) = ((Place(P, x) + (k - L)) % Q)
        /\ recent[t][k].server = serversMap[t][p[1] + 1]
    BY <2>4 DEF TurnOfRoute, P, L
  <2>6. Place(P, x) \in Nat /\ Place(P, b) \in Nat
    BY <1>3, PlaceType
  <2>. HIDE DEF Q, x
  <2>7. (Place(P, b) + (k - (L + 1))) % Q = (Place(P, x) + (k - L)) % Q
    <3>1. Place(P, x) + 1 \in Int /\ k - (L + 1) \in Int
      BY <1>5, <2>6
    <3>2. (Place(P, b) + (k - (L + 1))) % Q = ((Place(P, x) + 1) + (k - (L + 1))) % Q
      BY <1>3, <2>3, <3>1, RemainderOfSum
    <3>3. (Place(P, x) + 1) + (k - (L + 1)) = Place(P, x) + (k - L)
      BY <1>5, <2>6
    <3>. QED
      BY <3>2, <3>3
  <2>8. recent'[t][k] = recent[t][k]
    BY <1>5
  <2>9. TurnOfRoute(t, k, p)'
    BY <1>1, <1>5, <1>6, <2>5, <2>7, <2>8 DEF TurnOfRoute, Q
  <2>. QED
    BY <2>9
<1>9. ASSUME NEW k, k = L + 1
      PROVE  TurnOfRoute(t, k, b)'
  <2>1. Place(P, b) = (Place(P, b) + ((L + 1) - (L + 1))) % Q
    <3>1. Place(P, b) + ((L + 1) - (L + 1)) = Place(P, b)
      BY <1>5, <1>7
    <3>. HIDE DEF Q
    <3>2. Place(P, b) % Q = Place(P, b)
      BY <1>3, <1>7, SmallRemainder
    <3>. QED
      BY <3>1, <3>2
  <2>2. recent'[t][L + 1].server = serversMap'[t][b[1] + 1]
    BY <1>5 DEF s
  <2>3. Place(P, b) = (Place(P, LastTurn(t)') + ((L + 1) - Len(recent'[t]))) % Cardinality(P)
    BY <1>1, <1>5, <2>1
  <2>4. Place(WrrTurns(t)', b) =
           ((Place(WrrTurns(t)', LastTurn(t)') + (k - Len(recent'[t])))
              % Cardinality(WrrTurns(t)'))
    BY <1>6, <1>9, <2>3
  <2>5. b \in WrrTurns(t)'
    BY <1>6
  <2>. QED
    BY <1>9, <2>2, <2>4, <2>5 DEF TurnOfRoute
<1>10. ASSUME NEW k \in DOMAIN recent'[t]
       PROVE  \E p : TurnOfRoute(t, k, p)'
  <2>1. CASE k \in 1 .. L
    BY <1>8, <2>1
  <2>2. CASE k = L + 1
    <3>1. TurnOfRoute(t, k, b)'
      BY <1>9, <2>2
    <3>. QED
      BY <3>1
  <2>. QED
    BY <1>5, <2>1, <2>2
<1>12. MaxWeight(t)' > 0 /\ LastTurn(t)' \in WrrTurns(t)'
  BY <1>1, <1>2, <1>6
<1>. QED
  BY <1>10, <1>12 DEF TurnsInOrder

LEMMA TurnsStay ==
  ASSUME ListsOk, NEW t \in Types, TurnsInOrder(t),
         recent'[t] = recent[t], wrrParam'[t] = wrrParam[t], serversMap'[t] = serversMap[t],
         \A s \in Range(serversMap[t]) : servers'[s] = servers[s]
  PROVE  TurnsInOrder(t)'
<1> DEFINE list == serversMap[t]
<1>1. list \in Seq(Servers)
  BY DEF ListsOk
<1>2. WeightsAt(t)' = WeightsAt(t)
  <2>1. ASSUME NEW i \in 0 .. Len(list) - 1
        PROVE  servers'[list[i + 1]] = servers[list[i + 1]]
    <3>1. i + 1 \in 1 .. Len(list) /\ 1 .. Len(list) = DOMAIN list
      BY <1>1
    <3>. QED
      BY <3>1 DEF Range
  <2>. QED
    BY <2>1 DEF WeightsAt
<1>3. WrrTurns(t)' = WrrTurns(t)
  BY <1>2 DEF WrrTurns
<1>4. MaxWeight(t)' = MaxWeight(t)
  <2>1. {servers'[s] : s \in Range(list)} = {servers[s] : s \in Range(list)}
    OBVIOUS
  <2>. QED
    BY <2>1 DEF MaxWeight
<1>5. LastTurn(t)' = LastTurn(t)
  BY DEF LastTurn
<1>. HIDE DEF list
<1>6. ASSUME NEW k, NEW p, TurnOfRoute(t, k, p)
      PROVE  TurnOfRoute(t, k, p)'
  BY <1>3, <1>5, <1>6 DEF TurnOfRoute
<1>7. CASE recent[t] = <<>>
  BY <1>7 DEF TurnsInOrder
<1>8. CASE recent[t] # <<>>
  <2>1. \A k \in DOMAIN recent[t] : \E p : TurnOfRoute(t, k, p)
    BY <1>8 DEF TurnsInOrder
  <2>2. \A k \in DOMAIN recent[t] : \E p : TurnOfRoute(t, k, p)'
    BY <1>6, <2>1
  <2>3. MaxWeight(t)' > 0 /\ LastTurn(t)' \in WrrTurns(t)'
    BY <1>3, <1>4, <1>5, <1>8 DEF TurnsInOrder
  <2>. QED
    BY <2>2, <2>3 DEF TurnsInOrder
<1>. QED
  BY <1>7, <1>8

LEMMA WrrSteps ==
  ASSUME schedule = "wrr", [Next]_vars
  PROVE  \/ \E t \in Types : MayRoute(t) /\ Wrr(t)
         \/ Change /\ UNCHANGED wrrParam
         \/ UNCHANGED <<recent, servers, serversMap, schedule, wrrParam>>
<1>1. CASE UNCHANGED vars
  BY <1>1 DEF vars, histories, station, params
<1>2. Change => UNCHANGED wrrParam
  BY DEF Change
<1>3. CASE Next
  BY <1>2, <1>3, Steps DEF ServerAdded, ServerRemoved, FailedOver, ServersReplaced
<1>. QED
  BY <1>1, <1>3

LEMMA SharesInv == Spec => []SharesOk
<1>1. Init => SharesOk
  BY DEF Init, SharesOk, TurnsInOrder
<1>2. ListsOk /\ StateOk /\ WrrOk /\ RecentOk /\ SharesOk /\ [Next]_vars => SharesOk'
  <2> SUFFICES ASSUME ListsOk, StateOk, WrrOk, RecentOk, SharesOk, [Next]_vars,
                      schedule' = "wrr", NEW t \in Types
               PROVE  TurnsInOrder(t)'
    BY DEF SharesOk
  <2>1. schedule' = schedule
    BY HistorySteps DEF RouteTo, Change
  <2>2. TurnsInOrder(t)
    BY <2>1 DEF SharesOk
  <2>3. ASSUME NEW u \in Types, MayRoute(u), Wrr(u)
        PROVE  TurnsInOrder(t)'
    <3>1. CASE u = t
      BY <2>2, <2>3, <3>1, SharesWrr
    <3>2. CASE u # t
      <4>1. PICK s \in Servers \union {NoNode} : RouteTo(u, s)
        <5>1. PICK b \in TurnsOf(Len(serversMap[u]), WeightsAt(u)) :
                     RouteTo(u, serversMap[u][b[1] + 1])
          BY <2>3, WrrStepIs
        <5>2. MaxWeight(u) > 0
          BY <2>3 DEF Wrr
        <5>3. b[1] + 1 \in 1 .. Len(serversMap[u]) /\ Len(serversMap[u]) \in Nat
          <6>1. b[1] \in 0 .. Len(serversMap[u]) - 1
            BY <2>3, <5>2, ResultHolds
          <6>. QED
            BY <2>3, <6>1, MayRouteHolds
        <5>. QED
          BY <2>3, <5>1, <5>3, MayRouteHolds
      <4>2. recent'[t] = recent[t] /\ UNCHANGED <<servers, serversMap>>
        BY <2>3, <3>2, <4>1, RouteAppends
      <4>3. wrrParam'[t] = wrrParam[t]
        BY <2>3, <3>2, WrrStepIs
      <4>. QED
        BY <2>2, <4>2, <4>3, TurnsStay
    <3>. QED
      BY <3>1, <3>2
  <2>4. CASE Change /\ UNCHANGED wrrParam
    <3>1. CASE recent'[t] = <<>>
      BY <3>1 DEF TurnsInOrder
    <3>2. CASE /\ recent'[t] = recent[t] /\ serversMap'[t] = serversMap[t]
               /\ \A s \in Range(serversMap[t]) : servers'[s] = servers[s]
      BY <2>2, <2>4, <3>2, TurnsStay
    <3>. QED
      BY <2>4, <3>1, <3>2, ChangeResets
  <2>5. CASE UNCHANGED <<recent, servers, serversMap, schedule, wrrParam>>
    BY <2>2, <2>5, TurnsStay
  <2>. QED
    BY <2>1, <2>3, <2>4, <2>5, WrrSteps
<1>. QED
  BY <1>1, <1>2, ListsInv, StateInv, WrrInv, RecentInv, PTL DEF Spec

LEMMA PlacesAt ==
  ASSUME ListsOk, NEW t \in Types, serversMap[t] # <<>>, NEW p
  PROVE  p \in WrrTurns(t) <=>
           \E i \in 1 .. Len(serversMap[t]) : \E w \in 1 .. servers[serversMap[t][i]] :
             p = <<i - 1, w>>
<1> DEFINE list == serversMap[t]
           N == Len(list)
<1>1. N \in Nat \ {0} /\ \A i \in 1 .. N : list[i] \in Range(list)
  BY ListHolds DEF Range
<1>2. \A i \in 1 .. N : servers[list[i]] \in Nat
  BY <1>1, MaxWeightHolds
<1>3. WeightsAt(t) = [i \in 0 .. N - 1 |-> servers[list[i + 1]]]
  BY DEF WeightsAt
<1>. HIDE DEF N, list
<1>4. ASSUME p \in WrrTurns(t)
      PROVE  \E i \in 1 .. N : \E w \in 1 .. servers[list[i]] : p = <<i - 1, w>>
  <2>1. p \in Round(N) /\ p[2] <= WeightsAt(t)[p[1]]
    BY <1>4 DEF WrrTurns, TurnsOf, N, list
  <2>2. p[1] \in 0 .. N - 1 /\ p[2] \in Nat \ {0} /\ p = <<p[1], p[2]>>
    BY <1>1, <2>1, RoundType
  <2>3. p[1] + 1 \in 1 .. N /\ (p[1] + 1) - 1 = p[1]
    BY <1>1, <2>2
  <2>4. WeightsAt(t)[p[1]] = servers[list[p[1] + 1]]
    BY <1>3, <2>2
  <2>5. p[2] \in 1 .. servers[list[p[1] + 1]]
    BY <1>2, <2>1, <2>2, <2>3, <2>4
  <2>6. p = <<(p[1] + 1) - 1, p[2]>>
    BY <2>2, <2>3
  <2>. QED
    BY <2>3, <2>5, <2>6
<1>5. ASSUME NEW i \in 1 .. N, NEW w \in 1 .. servers[list[i]], p = <<i - 1, w>>
      PROVE  p \in WrrTurns(t)
  <2>1. i - 1 \in 0 .. N - 1 /\ (i - 1) + 1 = i
    BY <1>1
  <2>2. w \in Nat \ {0} /\ w <= servers[list[i]]
    BY <1>2
  <2>3. p \in Round(N) /\ p[1] = i - 1 /\ p[2] = w
    BY <1>5, <2>1, <2>2 DEF Round
  <2>4. WeightsAt(t)[i - 1] = servers[list[i]]
    BY <1>3, <2>1
  <2>. QED
    BY <2>2, <2>3, <2>4 DEF WrrTurns, TurnsOf, N, list
<1>. QED
  BY <1>4, <1>5 DEF N, list

\* A round has as many turns as the weights add up to.
LEMMA TurnsCounted ==
  ASSUME ListsOk, NEW t \in Types, serversMap[t] # <<>>, MaxWeight(t) > 0
  PROVE  Cardinality(Turns(t)) = Cardinality(WrrTurns(t))
<1> DEFINE list == serversMap[t]
           P == WrrTurns(t)
           f == [p \in P |-> <<list[p[1] + 1], p[2]>>]
<1>1. IsFiniteSet(P)
  BY WrrTurnsHold
<1>2. /\ IsInjective(list) /\ DOMAIN list = 1 .. Len(list) /\ Len(list) \in Nat
  BY ListHolds DEF ListsOk
<1>. HIDE DEF list, P
<1>3. \A p : p \in P <=> \E i \in 1 .. Len(list) : \E w \in 1 .. servers[list[i]] : p = <<i - 1, w>>
  BY PlacesAt DEF P, list
<1>4. \A i \in 1 .. Len(list) : i - 1 + 1 = i
  BY <1>2
<1>5. \A i \in 1 .. Len(list) : \A w : <<i - 1, w>> \in P => f[<<i - 1, w>>] = <<list[i], w>>
  BY <1>4
<1>6. Turns(t) = {f[p] : p \in P}
  <2>1. ASSUME NEW e \in Turns(t)
        PROVE  \E p \in P : e = f[p]
    <3>1. PICK s \in Range(list) : \E w \in 1 .. servers[s] : e = <<s, w>>
      BY <2>1 DEF Turns, list
    <3>2. PICK i \in 1 .. Len(list) : s = list[i]
      BY <1>2 DEF Range
    <3>3. PICK w \in 1 .. servers[list[i]] : e = <<list[i], w>>
      BY <3>1, <3>2
    <3>4. <<i - 1, w>> \in P
      BY <1>3, <3>3
    <3>. QED
      BY <1>5, <3>3, <3>4
  <2>2. ASSUME NEW p \in P
        PROVE  f[p] \in Turns(t)
    <3>1. PICK i \in 1 .. Len(list) : \E w \in 1 .. servers[list[i]] : p = <<i - 1, w>>
      BY <1>3
    <3>2. PICK w \in 1 .. servers[list[i]] : p = <<i - 1, w>>
      BY <3>1
    <3>4. f[p] = <<list[i], w>>
      BY <1>5, <3>2
    <3>3. list[i] \in Range(list)
      BY <1>2 DEF Range
    <3>. QED
      BY <3>2, <3>3, <3>4 DEF Turns, list
  <2>. QED
    BY <2>1, <2>2
<1>7. ASSUME NEW p \in P, NEW q \in P, f[p] = f[q]
      PROVE  p = q
  <2>1. PICK i \in 1 .. Len(list) : \E w : p = <<i - 1, w>>
    BY <1>3
  <2>2. PICK j \in 1 .. Len(list) : \E v : q = <<j - 1, v>>
    BY <1>3
  <2>3. list[i] = list[j] /\ p[2] = q[2]
    BY <1>5, <1>7, <2>1, <2>2
  <2>4. i = j
    BY <1>2, <2>3 DEF IsInjective
  <2>. QED
    BY <2>1, <2>2, <2>3, <2>4
<1>8. DOMAIN f = P
  OBVIOUS
<1>. HIDE DEF f
<1>9. f \in [P -> Turns(t)]
  <2>1. f = [p \in P |-> f[p]] /\ \A p \in P : f[p] \in Turns(t)
    BY <1>6 DEF f
  <2>. QED
    BY <2>1
<1>10. f \in Bijection(P, Turns(t))
  BY <1>6, <1>7, <1>8, <1>9 DEF Bijection, Injection, Surjection, IsInjective
<1>. QED
  BY <1>1, <1>10, FS_Bijection DEF ExistsBijection, P

\* As many routes in a row as a round has turns are the turns of a round.
LEMMA RunIsRound ==
  ASSUME ListsOk, RecentOk, NEW t \in Types, TurnsInOrder(t),
         serversMap[t] # <<>>, MaxWeight(t) > 0,
         NEW first \in Nat \ {0},
         first + Cardinality(WrrTurns(t)) <= Len(recent[t]) + 1
  PROVE  \E f : LET run == first .. first + Cardinality(WrrTurns(t)) - 1 IN
           /\ f \in Injection(run, WrrTurns(t)) /\ f \in Surjection(run, WrrTurns(t))
           /\ \A k \in run : recent[t][k].server = serversMap[t][f[k][1] + 1]
<1> DEFINE P == WrrTurns(t)
           Q == Cardinality(P)
           L == Len(recent[t])
           c == Place(P, LastTurn(t))
           run == first .. first + Q - 1
           f == [k \in run |-> CHOOSE p : TurnOfRoute(t, k, p)]
<1>1. IsFiniteSet(P) /\ Q \in Nat \ {0}
  BY WrrTurnsHold
<1>2. L \in Nat /\ DOMAIN recent[t] = 1 .. L
  BY DEF RecentOk
<1>3. c \in Nat
  BY <1>1, PlaceType
<1>. HIDE DEF P, L, c
<1>4. ASSUME NEW k \in run
      PROVE  /\ k \in Nat /\ f[k] \in P /\ Place(P, f[k]) = ((c + (k - L)) % Q)
             /\ recent[t][k].server = serversMap[t][f[k][1] + 1]
  <2>1. first + Q <= L + 1
    BY DEF P, L
  <2>. HIDE DEF Q
  <2>2. k \in 1 .. L /\ k \in Nat
    BY <1>1, <1>2, <2>1
  <2>3. recent[t] # <<>>
    BY <1>2, <2>2
  <2>4. \E p : TurnOfRoute(t, k, p)
    BY <1>2, <2>2, <2>3 DEF TurnsInOrder
  <2>5. TurnOfRoute(t, k, f[k])
    BY <2>4
  <2>. HIDE DEF f
  <2>. QED
    BY <2>2, <2>5 DEF TurnOfRoute, P, Q, L, c
<1>5. DOMAIN f = run /\ f = [k \in run |-> f[k]]
  OBVIOUS
<1>. HIDE DEF f
<1>6. ASSUME NEW j \in run, NEW k \in run, j < k
      PROVE  f[j] # f[k]
  <2>1. j \in Nat /\ k \in Nat
    BY <1>4
  <2>. HIDE DEF Q
  <2>2. k < j + Q
    BY <1>1, <2>1
  <2>3. (c + (j - L)) % Q # (c + (k - L)) % Q
    <3> DEFINE a == c + (j - L)
               b == c + (k - L)
    <3>1. a \in Int /\ b \in Int /\ a < b /\ b < a + Q
      BY <1>1, <1>2, <1>3, <1>6, <2>1, <2>2
    <3>. HIDE DEF a, b
    <3>2. a % Q # b % Q
      BY <1>1, <3>1, RemaindersDiffer
    <3>. QED
      BY <3>2 DEF a, b
  <2>. QED
    BY <1>4, <2>3
<1>7. ASSUME NEW j \in run, NEW k \in run, f[j] = f[k]
      PROVE  j = k
  BY <1>4, <1>6, <1>7
<1>8. f \in Injection(run, P)
  BY <1>4, <1>5, <1>7 DEF Injection, IsInjective
<1>9. Cardinality(run) = Q
  <2>. HIDE DEF Q
  <2>1. first \in Int /\ first + Q - 1 \in Int /\ (first + Q - 1) - first + 1 = Q
        /\ first <= first + Q - 1
    BY <1>1
  <2>. QED
    BY <2>1, FS_Interval
<1>10. f \in Surjection(run, P)
  BY <1>1, <1>8, <1>9, FS_Injection
<1>. QED
  BY <1>4, <1>8, <1>10 DEF P

\* A server has as many turns in a run as its weight.
LEMMA ShareOfRun ==
  ASSUME ListsOk, NEW t \in Types, serversMap[t] # <<>>, NEW run, NEW f,
         f \in Injection(run, WrrTurns(t)), f \in Surjection(run, WrrTurns(t)),
         NEW s \in Range(serversMap[t]), NEW C \in SUBSET run,
         \A k \in run : k \in C <=> serversMap[t][f[k][1] + 1] = s
  PROVE  Cardinality(C) = servers[s]
<1> DEFINE list == serversMap[t]
           P == WrrTurns(t)
           g == [k \in C |-> f[k][2]]
           n == servers[s]
<1>1. /\ IsInjective(list) /\ DOMAIN list = 1 .. Len(list) /\ Len(list) \in Nat
  BY ListHolds DEF ListsOk
<1>2. n \in Nat
  BY MaxWeightHolds
<1>. HIDE DEF list, P
<1>3. \A p : p \in P <=> \E i \in 1 .. Len(list) : \E w \in 1 .. servers[list[i]] : p = <<i - 1, w>>
  BY PlacesAt DEF P, list
<1>4. PICK m \in 1 .. Len(list) : s = list[m]
  BY <1>1 DEF Range, list
<1>5. ASSUME NEW p \in P, list[p[1] + 1] = s
      PROVE  p[2] \in 1 .. n /\ p = <<m - 1, p[2]>>
  <2>1. PICK i \in 1 .. Len(list) : \E w \in 1 .. servers[list[i]] : p = <<i - 1, w>>
    BY <1>3
  <2>2. p[1] + 1 = i
    BY <1>1, <2>1
  <2>3. i = m
    BY <1>1, <1>4, <1>5, <2>2 DEF IsInjective
  <2>. QED
    BY <1>4, <2>1, <2>2, <2>3
<1>6. ASSUME NEW w \in 1 .. n
      PROVE  <<m - 1, w>> \in P /\ list[<<m - 1, w>>[1] + 1] = s /\ <<m - 1, w>>[2] = w
  <2>1. m - 1 + 1 = m
    BY <1>1
  <2>. QED
    BY <1>3, <1>4, <2>1
<1>7. /\ \A k \in run : f[k] \in P
      /\ \A j, k \in run : f[j] = f[k] => j = k
      /\ \A p \in P : \E k \in run : f[k] = p
  BY DEF Injection, IsInjective, Surjection, P
<1>0. \A k \in run : k \in C <=> list[f[k][1] + 1] = s
  BY DEF list
<1>. HIDE DEF n
<1>8. DOMAIN g = C /\ g = [k \in C |-> g[k]] /\ \A k \in C : g[k] = f[k][2]
  OBVIOUS
<1>. HIDE DEF g
<1>9. \A k \in C : g[k] \in 1 .. n /\ f[k] = <<m - 1, g[k]>>
  BY <1>0, <1>5, <1>7, <1>8
<1>10. g \in [C -> 1 .. n]
  BY <1>8, <1>9
<1>11. ASSUME NEW j \in C, NEW k \in C, g[j] = g[k]
       PROVE  j = k
  BY <1>7, <1>9, <1>11
<1>12. ASSUME NEW w \in 1 .. n
       PROVE  \E k \in C : g[k] = w
  <2>1. PICK k \in run : f[k] = <<m - 1, w>>
    BY <1>6, <1>7
  <2>2. k \in C
    BY <1>0, <1>6, <2>1
  <2>. QED
    BY <1>6, <1>8, <2>1, <2>2
<1>13. g \in Injection(C, 1 .. n) /\ g \in Surjection(C, 1 .. n)
  BY <1>8, <1>10, <1>11, <1>12 DEF Injection, IsInjective, Surjection
<1>14. Cardinality(C) = n
  BY <1>2, <1>13, FS_Injection, IntervalSize
<1>. QED
  BY <1>14 DEF n

\* While a list and its weights stay, each run of as many weighted round robin
\* routes as the weights add up to gives each server as many as its weight.
THEOREM WeightedSharesKept == Spec => []Proportional
<1>1. ListsOk /\ RecentOk /\ SharesOk => Proportional
  <2> SUFFICES ASSUME ListsOk, RecentOk, SharesOk, schedule = "wrr", NEW t \in Types,
                      NEW first \in 1 .. Len(recent[t]) - Cardinality(Turns(t)) + 1,
                      NEW s \in Range(serversMap[t])
               PROVE  Cardinality({i \in first .. first + Cardinality(Turns(t)) - 1 :
                                     recent[t][i].server = s}) = servers[s]
    BY DEF Proportional
  <2>1. serversMap[t] # <<>>
    BY DEF Range
  <2>2. /\ MaxWeight(t) \in Nat
        /\ \A u \in Range(serversMap[t]) : servers[u] \in Nat /\ servers[u] <= MaxWeight(t)
    BY MaxWeightHolds
  <2>3. recent[t] \in Seq(RouteRecords) /\ Len(recent[t]) \in Nat
    BY DEF RecentOk
  <2>4. TurnsInOrder(t)
    BY DEF SharesOk
  <2>5. CASE MaxWeight(t) = 0
    <3>1. \A u \in Range(serversMap[t]) : servers[u] = 0
      BY <2>2, <2>5
    <3>2. Turns(t) = {}
      BY <3>1 DEF Turns
    <3>3. Cardinality(Turns(t)) = 0
      BY <3>2, FS_EmptySet
    <3>4. first .. first + 0 - 1 = {}
      BY <2>3, <3>3
    <3>5. {i \in first .. first + Cardinality(Turns(t)) - 1 : recent[t][i].server = s} = {}
      BY <3>3, <3>4
    <3>. QED
      BY <3>1, <3>5, FS_EmptySet
  <2>6. CASE MaxWeight(t) > 0
    <3> DEFINE Q == Cardinality(WrrTurns(t))
               run == first .. first + Q - 1
    <3>1. Cardinality(Turns(t)) = Q /\ Q \in Nat \ {0}
      BY <2>1, <2>6, TurnsCounted, WrrTurnsHold
    <3>2. first \in Nat \ {0} /\ first + Q <= Len(recent[t]) + 1
      BY <2>3, <3>1
    <3>3. PICK f : /\ f \in Injection(run, WrrTurns(t)) /\ f \in Surjection(run, WrrTurns(t))
                   /\ \A k \in run : recent[t][k].server = serversMap[t][f[k][1] + 1]
      BY <2>1, <2>4, <2>6, <3>2, RunIsRound
    <3> DEFINE C == {i \in run : recent[t][i].server = s}
    <3>4. /\ C \in SUBSET run
          /\ \A k \in run : k \in C <=> serversMap[t][f[k][1] + 1] = s
      BY <3>3
    <3>. HIDE DEF run, C
    <3>5. Cardinality(C) = servers[s]
      BY <2>1, <3>3, <3>4, ShareOfRun
    <3>. QED
      BY <3>1, <3>5 DEF C, run
  <2>. QED
    BY <2>2, <2>5, <2>6
<1>. QED
  BY <1>1, ListsInv, RecentInv, SharesInv, PTL
=============================================================================
