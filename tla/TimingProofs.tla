----------------------------- MODULE TimingProofs -----------------------------
(***************************************************************************)
(* What the verdicts on latency mean, for any sequences of samples: a      *)
(* quick candidate is not slower by counting, and calm samples are         *)
(* gathered around their median.                                           *)
(***************************************************************************)
EXTENDS Timing, FiniteSetTheorems, TLAPS

\* Latencies, and the distances between them.
Samples == {s \in Seq(Nat) : s # <<>>}

\* The place of a sample: how many there are that are smaller, or equal and not later.
Before(s, i) == {j \in DOMAIN s : s[j] < s[i] \/ (s[j] = s[i] /\ j <= i)}
Rank(s) == [i \in DOMAIN s |-> Cardinality(Before(s, i))]

LEMMA LatenciesAreSamples == Latencies \subseteq Samples
<1> SUFFICES ASSUME NEW s \in Seq(Nat \ {0}), s # <<>> PROVE s \in Seq(Nat)
  BY DEF Latencies, Samples
<1>1. s \in [1..Len(s) -> Nat \ {0}] /\ Len(s) \in Nat
  OBVIOUS
<1>2. s \in [1..Len(s) -> Nat]
  BY <1>1
<1> QED
  BY <1>1, <1>2

LEMMA SamplesShape ==
  ASSUME NEW s \in Samples
  PROVE  /\ Len(s) \in Nat \ {0} /\ DOMAIN s = 1..Len(s) /\ \A i \in DOMAIN s : s[i] \in Nat
         /\ IsFiniteSet(DOMAIN s) /\ Cardinality(DOMAIN s) = Len(s)
<1>1. Len(s) \in Nat \ {0} /\ DOMAIN s = 1..Len(s) /\ \A i \in DOMAIN s : s[i] \in Nat
  BY DEF Samples
<1> QED
  BY <1>1, FS_Interval

LEMMA FiniteParts ==
  ASSUME NEW s \in Samples, NEW S \in SUBSET (DOMAIN s)
  PROVE  IsFiniteSet(S) /\ Cardinality(S) \in Nat /\ Cardinality(S) <= Len(s)
BY SamplesShape, FS_Subset, FS_CardinalityType

\* A larger set of samples is not smaller.
LEMMA LargerParts ==
  ASSUME NEW s \in Samples, NEW S \in SUBSET (DOMAIN s), NEW T \in SUBSET S
  PROVE  Cardinality(T) <= Cardinality(S)
BY FiniteParts, FS_Subset

\* Sorting is possible: ranks are a permutation, and its inverse sorts.
LEMMA RankOrders ==
  ASSUME NEW s \in Samples, NEW i \in DOMAIN s, NEW j \in DOMAIN s,
         s[i] < s[j] \/ (s[i] = s[j] /\ i < j)
  PROVE  Rank(s)[i] < Rank(s)[j]
<1> USE SamplesShape
<1>1. Before(s, i) \in SUBSET Before(s, j) /\ j \in Before(s, j) /\ j \notin Before(s, i)
  BY DEF Before
<1>2. Before(s, i) \in SUBSET (DOMAIN s) /\ Before(s, j) \in SUBSET (DOMAIN s)
  BY DEF Before
<1>3. /\ IsFiniteSet(Before(s, j)) /\ Cardinality(Before(s, j)) \in Nat
      /\ Cardinality(Before(s, i)) \in Nat
  BY <1>2, FiniteParts
<1>4. Cardinality(Before(s, i)) <= Cardinality(Before(s, j))
      /\ Cardinality(Before(s, i)) # Cardinality(Before(s, j))
  BY <1>1, <1>3, FS_Subset
<1> QED
  BY <1>3, <1>4 DEF Rank

LEMMA RankIsBijection ==
  ASSUME NEW s \in Samples
  PROVE  Rank(s) \in Bijection(DOMAIN s, DOMAIN s)
<1> USE SamplesShape
<1>1. ASSUME NEW i \in DOMAIN s
      PROVE  Cardinality(Before(s, i)) \in DOMAIN s
  <2>1. Before(s, i) \in SUBSET (DOMAIN s) /\ i \in Before(s, i)
    BY DEF Before
  <2>2. /\ IsFiniteSet(Before(s, i)) /\ Cardinality(Before(s, i)) \in Nat
        /\ Cardinality(Before(s, i)) <= Len(s)
    BY <2>1, FiniteParts
  <2>3. Cardinality(Before(s, i)) # 0
    BY <2>1, <2>2, FS_EmptySet
  <2> QED
    BY <2>2, <2>3
<1>2. Rank(s) \in [DOMAIN s -> DOMAIN s]
  BY <1>1 DEF Rank
<1>3. ASSUME NEW i \in DOMAIN s, NEW j \in DOMAIN s, Rank(s)[i] = Rank(s)[j]
      PROVE  i = j
  <2>1. Rank(s)[i] \in Nat /\ Rank(s)[j] \in Nat
    BY <1>2
  <2>2. i \in Nat /\ j \in Nat /\ s[i] \in Nat /\ s[j] \in Nat
    OBVIOUS
  <2>3. ~(s[i] < s[j] \/ (s[i] = s[j] /\ i < j)) /\ ~(s[j] < s[i] \/ (s[j] = s[i] /\ j < i))
    BY <1>3, <2>1, RankOrders
  <2> QED
    BY <2>2, <2>3
<1>4. Rank(s) \in Injection(DOMAIN s, DOMAIN s)
  BY <1>2, <1>3 DEF Injection, IsInjective
<1>5. Rank(s) \in Surjection(DOMAIN s, DOMAIN s)
  BY <1>4, FS_Injection
<1> QED
  BY <1>4, <1>5 DEF Bijection

LEMMA OrderExists ==
  ASSUME NEW s \in Samples
  PROVE  \E p \in Bijection(DOMAIN s, DOMAIN s) :
           \A i, j \in DOMAIN s : i < j => s[p[i]] <= s[p[j]]
<1> DEFINE D == DOMAIN s
           p == [k \in D |-> CHOOSE i \in D : Rank(s)[i] = k]
<1> USE SamplesShape
<1>1. /\ Rank(s) \in [D -> D] /\ \A i, j \in D : Rank(s)[i] = Rank(s)[j] => i = j
      /\ \A k \in D : \E i \in D : Rank(s)[i] = k
  BY RankIsBijection DEF Bijection, Injection, Surjection, IsInjective
<1>2. \A k \in D : p[k] \in D /\ Rank(s)[p[k]] = k
  BY <1>1
<1>3. p \in [D -> D]
  BY <1>2
<1>4. \A i, j \in D : p[i] = p[j] => i = j
  BY <1>2
<1>5. \A i \in D : p[Rank(s)[i]] = i
  BY <1>1, <1>2
<1>6. p \in Bijection(D, D)
  <2>1. p \in Injection(D, D)
    BY <1>3, <1>4 DEF Injection, IsInjective
  <2>2. \A k \in D : \E i \in D : p[i] = k
    <3> SUFFICES ASSUME NEW k \in D PROVE \E i \in D : p[i] = k
      OBVIOUS
    <3>1. Rank(s)[k] \in D /\ p[Rank(s)[k]] = k
      BY <1>1, <1>5
    <3> HIDE DEF p
    <3> QED
      BY <3>1
  <2>3. p \in Surjection(D, D)
    <3> HIDE DEF p
    <3> QED
      BY <1>3, <2>2 DEF Surjection
  <2> QED
    BY <2>1, <2>3 DEF Bijection
<1>7. ASSUME NEW i \in D, NEW j \in D, i < j
      PROVE  s[p[i]] <= s[p[j]]
  <2>1. p[i] \in D /\ p[j] \in D /\ Rank(s)[p[i]] = i /\ Rank(s)[p[j]] = j
    BY <1>2
  <2>2. s[p[j]] < s[p[i]] => j < i
    BY <2>1, RankOrders
  <2>3. s[p[i]] \in Nat /\ s[p[j]] \in Nat /\ i \in Nat /\ j \in Nat
    BY <2>1
  <2> QED
    BY <1>7, <2>2, <2>3
<1> QED
  BY <1>6, <1>7

LEMMA OrderSorts ==
  ASSUME NEW s \in Samples
  PROVE  /\ Order(s) \in Bijection(DOMAIN s, DOMAIN s)
         /\ \A i, j \in DOMAIN s : i < j => s[Order(s)[i]] <= s[Order(s)[j]]
BY OrderExists DEF Order

\* As many samples as there are places from a to b are among those that places a to b sort there.
LEMMA PlacesCount ==
  ASSUME NEW s \in Samples, NEW a \in DOMAIN s, NEW b \in DOMAIN s, a <= b,
         NEW S \in SUBSET (DOMAIN s), \A k \in a..b : Order(s)[k] \in S
  PROVE  b - a + 1 <= Cardinality(S)
<1> USE SamplesShape
<1> DEFINE f == [k \in a..b |-> Order(s)[k]]
<1>1. IsFiniteSet(S) /\ Cardinality(S) \in Nat
  BY FiniteParts
<1>2. a..b \subseteq DOMAIN s
  OBVIOUS
<1>3. \A i, j \in DOMAIN s : Order(s)[i] = Order(s)[j] => i = j
  BY OrderSorts DEF Bijection, Injection, IsInjective
<1>4. f \in Injection(a..b, S)
  BY <1>2, <1>3 DEF Injection, IsInjective
<1>5. Cardinality(a..b) <= Cardinality(S)
  BY <1>1, <1>4, FS_Injection
<1> QED
  BY <1>5, FS_Interval

\* The two middle samples: half of all are not above the lower and half not below the upper.
LEMMA Middle ==
  ASSUME NEW s \in Samples
  PROVE  \E i, j \in DOMAIN s :
           /\ Median2(s) = s[i] + s[j] /\ s[i] <= s[j]
           /\ 2 * Cardinality({k \in DOMAIN s : s[k] <= s[i]}) >= Len(s)
           /\ 2 * Cardinality({k \in DOMAIN s : s[k] >= s[j]}) >= Len(s)
<1> USE SamplesShape
<1> DEFINE n == Len(s)
           lo == (n + 1) \div 2
           hi == n \div 2 + 1
           i == Order(s)[lo]
           j == Order(s)[hi]
           Below == {k \in DOMAIN s : s[k] <= s[i]}
           Above == {k \in DOMAIN s : s[k] >= s[j]}
<1>1. /\ lo \in DOMAIN s /\ hi \in DOMAIN s /\ 1 \in DOMAIN s /\ n \in DOMAIN s
      /\ lo = hi \/ lo < hi
      /\ 2 * lo >= n /\ 2 * (n - hi + 1) >= n
  OBVIOUS
<1>2. \A k \in DOMAIN s : Order(s)[k] \in DOMAIN s
  BY OrderSorts DEF Bijection, Injection
<1>3. i \in DOMAIN s /\ j \in DOMAIN s
  BY <1>1, <1>2
<1>4. Median2(s) = s[i] + s[j]
  BY <1>1 DEF Median2, Ordered
<1>5. \A k, l \in DOMAIN s : k <= l => s[Order(s)[k]] <= s[Order(s)[l]]
  <2>1. \A k, l \in DOMAIN s : k < l => s[Order(s)[k]] <= s[Order(s)[l]]
    BY OrderSorts
  <2>2. \A k \in DOMAIN s : s[Order(s)[k]] <= s[Order(s)[k]]
    BY <1>2
  <2> QED
    BY <2>1, <2>2
<1>6. s[i] <= s[j]
  BY <1>1, <1>5
<1>7. lo <= Cardinality(Below)
  <2>1. \A k \in 1..lo : Order(s)[k] \in Below
    <3> SUFFICES ASSUME NEW k \in 1..lo PROVE Order(s)[k] \in Below
      OBVIOUS
    <3>1. k \in DOMAIN s /\ k <= lo
      BY <1>1
    <3>2. s[Order(s)[k]] <= s[i]
      BY <1>1, <1>5, <3>1
    <3> QED
      BY <1>2, <3>1, <3>2
  <2>2. Below \in SUBSET (DOMAIN s) /\ lo \in Nat /\ 1 <= lo
    BY <1>1
  <2> HIDE DEF Below, lo
  <2>3. lo - 1 + 1 <= Cardinality(Below)
    BY <1>1, <2>1, <2>2, PlacesCount
  <2> QED
    BY <2>2, <2>3
<1>8. n - hi + 1 <= Cardinality(Above)
  <2>1. \A k \in hi..n : Order(s)[k] \in Above
    <3> SUFFICES ASSUME NEW k \in hi..n PROVE Order(s)[k] \in Above
      OBVIOUS
    <3>1. k \in DOMAIN s /\ hi <= k
      BY <1>1
    <3>2. s[j] <= s[Order(s)[k]] /\ s[j] \in Nat /\ s[Order(s)[k]] \in Nat
      BY <1>1, <1>2, <1>3, <1>5, <3>1
    <3> QED
      BY <1>2, <3>1, <3>2
  <2>2. Above \in SUBSET (DOMAIN s) /\ hi <= n
    BY <1>1
  <2> HIDE DEF Above, hi
  <2> QED
    BY <1>1, <2>1, <2>2, PlacesCount
<1>9. Cardinality(Below) \in Nat /\ Cardinality(Above) \in Nat
  BY FiniteParts
<1>10. 2 * Cardinality(Below) >= n /\ 2 * Cardinality(Above) >= n
  BY <1>1, <1>7, <1>8, <1>9
<1> QED
  BY <1>3, <1>4, <1>6, <1>10

\* More than half of the samples and half of them have one in common.
LEMMA HalvesMeet ==
  ASSUME NEW s \in Samples, NEW S \in SUBSET (DOMAIN s), NEW T \in SUBSET (DOMAIN s),
         2 * Cardinality(S) > Len(s), 2 * Cardinality(T) >= Len(s)
  PROVE  \E k \in DOMAIN s : k \in S /\ k \in T
<1>1. Cardinality(S) \in Nat /\ Cardinality(T) \in Nat
  BY FiniteParts
<1>2. Cardinality(S) + Cardinality(T) > Cardinality(DOMAIN s)
  BY <1>1, SamplesShape
<1>3. S \cap T # {}
  BY <1>2, SamplesShape, FS_MajoritiesIntersect
<1> QED
  BY <1>3

LEMMA NoRoom ==
  ASSUME NEW b \in Nat, NEW ai \in Nat, NEW aj \in Nat, NEW am \in Nat,
         NEW ck \in Nat, NEW cl \in Nat, NEW co \in Nat,
         ai <= aj, aj <= am, am <= b, ck <= cl, 20 * co > 21 * b, co <= ck,
         20 * (ck + cl) <= 21 * (ai + aj)
  PROVE  FALSE
OBVIOUS

\* A candidate whose median is at most 1.05 of AITER's is not slower, counting samples.
THEOREM QuickIsNotSlower ==
  ASSUME NEW aiter \in Samples, NEW candidate \in Samples, Quick(aiter, candidate)
  PROVE  NotSlower(aiter, candidate)
<1>1. NotSlower(aiter, candidate) <=>
        \A b \in {aiter[i] : i \in DOMAIN aiter} :
           2 * Cardinality({i \in DOMAIN aiter : aiter[i] <= b}) > Len(aiter) =>
             2 * Cardinality({i \in DOMAIN candidate : 20 * candidate[i] > 21 * b}) <= Len(candidate)
  BY Zenon DEF NotSlower, Count
<1> SUFFICES ASSUME NEW x \in DOMAIN aiter,
                    2 * Cardinality({i \in DOMAIN aiter : aiter[i] <= aiter[x]}) > Len(aiter)
             PROVE  2 * Cardinality({i \in DOMAIN candidate : 20 * candidate[i] > 21 * aiter[x]})
                      <= Len(candidate)
  BY <1>1
<1> DEFINE b == aiter[x]
           Kept == {i \in DOMAIN aiter : aiter[i] <= b}
           Exceeding == {i \in DOMAIN candidate : 20 * candidate[i] > 21 * b}
<1>2. SUFFICES ASSUME 2 * Cardinality(Exceeding) > Len(candidate)
                PROVE  FALSE
  BY FiniteParts, SamplesShape
<1>3. PICK i, j \in DOMAIN aiter :
        /\ Median2(aiter) = aiter[i] + aiter[j] /\ aiter[i] <= aiter[j]
        /\ 2 * Cardinality({k \in DOMAIN aiter : aiter[k] >= aiter[j]}) >= Len(aiter)
  BY Middle
<1>4. PICK k, l \in DOMAIN candidate :
        /\ Median2(candidate) = candidate[k] + candidate[l] /\ candidate[k] <= candidate[l]
        /\ 2 * Cardinality({m \in DOMAIN candidate : candidate[m] <= candidate[k]}) >= Len(candidate)
  BY Middle
<1>5. PICK m \in DOMAIN aiter : aiter[m] <= b /\ aiter[m] >= aiter[j]
  <2>1. \E m \in DOMAIN aiter : m \in Kept /\ m \in {q \in DOMAIN aiter : aiter[q] >= aiter[j]}
    BY <1>3, HalvesMeet
  <2> QED
    BY <2>1
<1>6. PICK o \in DOMAIN candidate : 20 * candidate[o] > 21 * b /\ candidate[o] <= candidate[k]
  <2>1. \E m1 \in DOMAIN candidate :
           m1 \in Exceeding /\ m1 \in {q \in DOMAIN candidate : candidate[q] <= candidate[k]}
    BY <1>2, <1>4, HalvesMeet
  <2> QED
    BY <2>1
<1>7. /\ aiter[i] \in Nat /\ aiter[j] \in Nat /\ aiter[m] \in Nat /\ b \in Nat
      /\ candidate[k] \in Nat /\ candidate[l] \in Nat /\ candidate[o] \in Nat
  BY SamplesShape
<1>8. 20 * (candidate[k] + candidate[l]) <= 21 * (aiter[i] + aiter[j])
  BY <1>3, <1>4 DEF Quick
<1>9. /\ aiter[i] <= aiter[j] /\ aiter[j] <= aiter[m] /\ aiter[m] <= b
      /\ candidate[k] <= candidate[l] /\ 20 * candidate[o] > 21 * b /\ candidate[o] <= candidate[k]
  BY <1>3, <1>4, <1>5, <1>6, <1>7
<1> HIDE DEF b
<1> QED
  BY <1>7, <1>8, <1>9, NoRoom

LEMMA DistanceType ==
  ASSUME NEW a \in Nat, NEW b \in Nat
  PROVE  Distance(a, b) \in Nat
BY DEF Distance

\* Samples whose median absolute deviation is at most 5% of the median are gathered around it.
THEOREM CalmIsGathered ==
  ASSUME NEW s \in Samples, Calm(s)
  PROVE  Gathered(s)
<1> USE SamplesShape
<1> DEFINE d == [k \in DOMAIN s |-> Distance(2 * s[k], Median2(s))]
<1>1. PICK i, j \in DOMAIN s :
        /\ Median2(s) = s[i] + s[j] /\ s[i] <= s[j]
        /\ 2 * Cardinality({k \in DOMAIN s : s[k] <= s[i]}) >= Len(s)
        /\ 2 * Cardinality({k \in DOMAIN s : s[k] >= s[j]}) >= Len(s)
  BY Middle
<1> DEFINE c == s[i] + s[j]
<1>2. c \in Nat /\ c = Median2(s) /\ s[i] \in Nat /\ s[j] \in Nat
  BY <1>1
<1>3. \A k \in DOMAIN s : d[k] \in Nat
  <2> SUFFICES ASSUME NEW k \in DOMAIN s PROVE Distance(2 * s[k], Median2(s)) \in Nat
    OBVIOUS
  <2>1. 2 * s[k] \in Nat /\ Median2(s) \in Nat
    BY <1>2
  <2> QED
    BY <2>1, DistanceType
<1>4. d \in Samples /\ DOMAIN d = DOMAIN s /\ Len(d) = Len(s)
  <2>1. d \in [1..Len(s) -> Nat]
    BY <1>3
  <2>2. d \in Seq(Nat)
    BY <2>1
  <2>3. Len(d) = Len(s)
    BY <2>1, <2>2
  <2> QED
    BY <2>2, <2>3 DEF Samples
<1>5. PICK x, y \in DOMAIN s :
        /\ Median2(d) = d[x] + d[y] /\ d[x] <= d[y]
        /\ 2 * Cardinality({k \in DOMAIN s : d[k] <= d[x]}) >= Len(s)
  BY <1>4, Middle
<1>6. 20 * d[x] <= c
  <2>1. 10 * (d[x] + d[y]) <= c
    BY <1>2, <1>5 DEF Calm, Mad4
  <2>2. d[x] \in Nat /\ d[y] \in Nat
    BY <1>3
  <2> HIDE DEF d, c
  <2> QED
    BY <1>2, <1>5, <2>1, <2>2
<1>7. 2 * Cardinality({k \in DOMAIN s : 2 * s[k] <= c}) >= Len(s)
  <2>1. {k \in DOMAIN s : s[k] <= s[i]} \subseteq {k \in DOMAIN s : 2 * s[k] <= c}
    BY <1>1, <1>2
  <2>2. Cardinality({k \in DOMAIN s : s[k] <= s[i]}) <= Cardinality({k \in DOMAIN s : 2 * s[k] <= c})
    BY <2>1, LargerParts
  <2>3. /\ Cardinality({k \in DOMAIN s : s[k] <= s[i]}) \in Nat
        /\ Cardinality({k \in DOMAIN s : 2 * s[k] <= c}) \in Nat
    BY FiniteParts
  <2> QED
    BY <1>1, <2>2, <2>3
<1>8. 2 * Cardinality({k \in DOMAIN s : 2 * s[k] >= c}) >= Len(s)
  <2>1. {k \in DOMAIN s : s[k] >= s[j]} \subseteq {k \in DOMAIN s : 2 * s[k] >= c}
    BY <1>1, <1>2
  <2>2. Cardinality({k \in DOMAIN s : s[k] >= s[j]}) <= Cardinality({k \in DOMAIN s : 2 * s[k] >= c})
    BY <2>1, LargerParts
  <2>3. /\ Cardinality({k \in DOMAIN s : s[k] >= s[j]}) \in Nat
        /\ Cardinality({k \in DOMAIN s : 2 * s[k] >= c}) \in Nat
    BY FiniteParts
  <2> QED
    BY <1>1, <2>2, <2>3
<1>9. 2 * Cardinality({k \in DOMAIN s : 20 * d[k] <= c}) >= Len(s)
  <2>1. {k \in DOMAIN s : d[k] <= d[x]} \subseteq {k \in DOMAIN s : 20 * d[k] <= c}
    <3> HIDE DEF d, c
    <3> QED
      BY <1>2, <1>3, <1>6
  <2>2. Cardinality({k \in DOMAIN s : d[k] <= d[x]}) <= Cardinality({k \in DOMAIN s : 20 * d[k] <= c})
    BY <2>1, LargerParts
  <2>3. /\ Cardinality({k \in DOMAIN s : d[k] <= d[x]}) \in Nat
        /\ Cardinality({k \in DOMAIN s : 20 * d[k] <= c}) \in Nat
    BY FiniteParts
  <2> QED
    BY <1>5, <2>2, <2>3
<1>10. \A k \in DOMAIN s : d[k] = Distance(2 * s[k], c)
  BY <1>2
<1>11. {k \in DOMAIN s : 20 * d[k] <= c} = {k \in DOMAIN s : 20 * Distance(2 * s[k], c) <= c}
  BY <1>10
<1> QED
  BY <1>7, <1>8, <1>9, <1>11 DEF Gathered, Count

\* What score_buckets passes is so, by counting.
THEOREM BucketIsTypical ==
  ASSUME NEW aiter \in Latencies, NEW candidate \in Latencies, Bucket(aiter, candidate)
  PROVE  NotSlower(aiter, candidate) /\ Gathered(aiter) /\ Gathered(candidate)
BY LatenciesAreSamples, QuickIsNotSlower, CalmIsGathered DEF Bucket

\* What summarize_samples calls parity is so, by counting.
THEOREM ParityIsTypical ==
  ASSUME NEW aiter \in Latencies, NEW candidate \in Latencies, Parity(aiter, candidate)
  PROVE  NotSlower(aiter, candidate) /\ Gathered(aiter)
BY LatenciesAreSamples, QuickIsNotSlower, CalmIsGathered DEF Parity

=============================================================================
