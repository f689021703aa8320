---------------------------- MODULE SizingProofs ----------------------------
(***************************************************************************)
(* Proofs about percentiles, sizes and verdicts, for any number of samples *)
(* of any size, any VM and any policy.                                     *)
(***************************************************************************)
EXTENDS Sizing, FiniteSetTheorems, WellFoundedInduction, TLAPS

----------------------------------------------------------------------------
(* Sorting.                                                                *)

LEMMA Least ==
    ASSUME NEW T, T \subseteq Nat, T # {}
    PROVE  \E m \in T : \A n \in T : m <= n
<1> DEFINE R == {p \in Nat \X Nat : p[1] < p[2]}
<1>1. IsWellFoundedOn(R, Nat)
  BY NatLessThanWellFounded, Zenon DEF OpToRel
<1>2. \E m \in T : \A n \in T : ~ (<<n, m>> \in R)
  <2> HIDE DEF R
  <2> QED BY <1>1, WFMin, Zenon
<1>3. ASSUME NEW m \in Nat, NEW n \in Nat, ~ (<<n, m>> \in R)
      PROVE  m <= n
  <2>1. <<n, m>> \in Nat \X Nat /\ <<n, m>>[1] = n /\ <<n, m>>[2] = m
    OBVIOUS
  <2> QED BY <1>3, <2>1
<1> QED BY <1>2, <1>3

(* The orders in which the samples at some positions do not decrease.      *)
Orders(s, D) ==
    {p \in [1 .. Cardinality(D) -> D] :
        \A i, j \in 1 .. Cardinality(D) : i < j =>
            p[i] # p[j] /\ s[p[i]] <= s[p[j]]}

(* There is one: the position of a least sample, and then an order of the  *)
(* others.                                                                 *)
LEMMA LeastFirst ==
    ASSUME NEW s, NEW D, IsFiniteSet(D), D # {}, \A d \in D : s[d] \in Nat,
           \A d \in D : Orders(s, D \ {d}) # {}
    PROVE  Orders(s, D) # {}
<1>1. PICK d \in D : \A e \in D : s[d] <= s[e]
  <2>1. \E m \in {s[d] : d \in D} : \A n \in {s[d] : d \in D} : m <= n
    <3> DEFINE T == {s[d] : d \in D}
    <3>1. T \subseteq Nat /\ T # {}
      OBVIOUS
    <3> HIDE DEF T
    <3>2. \E m \in T : \A n \in T : m <= n
      BY <3>1, Least
    <3> QED BY <3>2 DEF T
  <2> QED BY <2>1
<1> DEFINE E == D \ {d}
           n == Cardinality(D)
<1>2. PICK q : q \in Orders(s, E)
  OBVIOUS
<1>3. n \in Nat /\ Cardinality(E) = n - 1
  BY FS_CardinalityType, FS_RemoveElement
<1>4. /\ q \in [1 .. n - 1 -> E]
      /\ \A i, j \in 1 .. n - 1 : i < j => q[i] # q[j] /\ s[q[i]] <= s[q[j]]
  BY <1>2, <1>3 DEF Orders
<1> HIDE DEF n
<1> DEFINE p == [i \in 1 .. n |-> IF i = 1 THEN d ELSE q[i - 1]]
<1>5. \A i \in 1 .. n : i # 1 => i - 1 \in 1 .. n - 1 /\ p[i] = q[i - 1] /\ p[i] \in E
  BY <1>3, <1>4
<1>6. 1 \in 1 .. n => p[1] = d
  OBVIOUS
<1>7. p \in [1 .. n -> D]
  BY <1>5, <1>6
<1>8. ASSUME NEW i \in 1 .. n, NEW j \in 1 .. n, i < j
      PROVE  p[i] # p[j] /\ s[p[i]] <= s[p[j]]
  <2>1. j # 1 /\ p[j] \in E
    BY <1>3, <1>5, <1>8
  <2>2. CASE i = 1
    BY <1>1, <1>6, <2>1, <2>2
  <2>3. CASE i # 1
    <3>1. /\ i - 1 \in 1 .. n - 1 /\ j - 1 \in 1 .. n - 1 /\ i - 1 < j - 1
          /\ p[i] = q[i - 1] /\ p[j] = q[j - 1]
      BY <1>3, <1>5, <1>8, <2>1, <2>3
    <3> HIDE DEF p
    <3> QED BY <1>4, <3>1
  <2> QED BY <2>2, <2>3
<1> HIDE DEF p
<1>9. p \in Orders(s, D)
  BY <1>7, <1>8 DEF Orders, n
<1> QED BY <1>9

LEMMA OrderExists ==
    ASSUME NEW s, NEW D, IsFiniteSet(D), \A d \in D : s[d] \in Nat
    PROVE  Orders(s, D) # {}
<1> DEFINE Bad == {n \in Nat : \E A \in SUBSET D :
                                   Cardinality(A) = n /\ Orders(s, A) = {}}
<1>1. CASE Bad = {}
  <2>1. Cardinality(D) \in Nat
    BY FS_CardinalityType
  <2> QED BY <1>1, <2>1
<1>2. CASE Bad # {}
  <2>1. PICK n \in Bad : \A m \in Bad : n <= m
    <3>1. Bad \subseteq Nat
      OBVIOUS
    <3> HIDE DEF Bad
    <3> QED BY <1>2, <3>1, Least
  <2>2. PICK A \in SUBSET D : Cardinality(A) = n /\ Orders(s, A) = {}
    BY <2>1
  <2>3. IsFiniteSet(A)
    BY FS_Subset
  <2>4. A # {}
    <3>1. ASSUME A = {} PROVE FALSE
      <4>1. Cardinality(A) = 0
        BY <3>1, FS_EmptySet
      <4>2. [i \in 1 .. 0 |-> i] \in Orders(s, A)
        BY <4>1 DEF Orders
      <4> QED BY <2>2, <4>2
    <3> QED BY <3>1
  <2>5. ASSUME NEW d \in A PROVE Orders(s, A \ {d}) # {}
    <3>1. Cardinality(A \ {d}) = n - 1 /\ n \in Nat /\ IsFiniteSet(A \ {d})
      BY <2>2, <2>3, FS_RemoveElement
    <3>2. Cardinality(A \ {d}) \in Nat
      BY <3>1, FS_CardinalityType
    <3>3. n - 1 \notin Bad
      BY <2>1, <3>1, <3>2
    <3> QED BY <3>1, <3>2, <3>3
  <2> QED BY <2>2, <2>3, <2>4, <2>5, LeastFirst
<1> QED BY <1>1, <1>2

(* What the samples of a query are.                                        *)
Numeric(s) ==
    /\ IsFiniteSet(DOMAIN s)
    /\ \A d \in DOMAIN s : s[d] \in Nat

(* The sorted samples do not decrease, and each is the sample at one of    *)
(* the positions, which are all there.                                     *)
LEMMA SortedSamples ==
    ASSUME NEW s, Numeric(s)
    PROVE  LET n == Cardinality(DOMAIN s)
               t == Float64s(s)
           IN  /\ n \in Nat
               /\ \A i \in 1 .. n : t[i] \in Nat
               /\ \A i, j \in 1 .. n : i <= j => t[i] <= t[j]
               /\ \E p \in Bijection(1 .. n, DOMAIN s) :
                      \A i \in 1 .. n : t[i] = s[p[i]]
<1> DEFINE n == Cardinality(DOMAIN s)
           t == Float64s(s)
           Sorts(p) == \A i, j \in 1 .. n : i < j =>
                           p[i] # p[j] /\ s[p[i]] <= s[p[j]]
           order == CHOOSE p \in [1 .. n -> DOMAIN s] : Sorts(p)
<1>1. \E p \in [1 .. n -> DOMAIN s] : Sorts(p)
  BY OrderExists DEF Numeric, Orders
<1>2. order \in [1 .. n -> DOMAIN s] /\ Sorts(order)
  <2> HIDE DEF Sorts
  <2> QED BY <1>1
<1>3. t = [k \in 1 .. n |-> s[order[k]]]
  BY DEF Float64s
<1>4. n \in Nat
  BY FS_CardinalityType DEF Numeric
<1> HIDE DEF n, t, order
<1>5. order \in Injection(1 .. n, DOMAIN s)
  BY <1>2, <1>4 DEF Injection, IsInjective
<1>6. order \in Surjection(1 .. n, DOMAIN s)
  <2>1. Cardinality(1 .. n) = n
    BY <1>4, FS_Interval
  <2> QED BY <1>5, <2>1, FS_Injection DEF n, Numeric
<1>7. order \in Bijection(1 .. n, DOMAIN s)
  BY <1>5, <1>6 DEF Bijection
<1>8. \A i \in 1 .. n : t[i] = s[order[i]] /\ t[i] \in Nat
  BY <1>2, <1>3 DEF Numeric
<1>9. \A i, j \in 1 .. n : i <= j => t[i] <= t[j]
  BY <1>2, <1>4, <1>8
<1> QED BY <1>4, <1>7, <1>8, <1>9 DEF n, t

(* The last of them is the largest sample.                                 *)
LEMMA LargestSample ==
    ASSUME NEW s, Numeric(s), DOMAIN s # {}
    PROVE  /\ Cardinality(DOMAIN s) \in Nat \ {0}
           /\ Max(Range(s)) = Float64s(s)[Cardinality(DOMAIN s)]
<1> DEFINE n == Cardinality(DOMAIN s)
           t == Float64s(s)
<1>1. PICK p \in Bijection(1 .. n, DOMAIN s) :
          /\ n \in Nat
          /\ \A i \in 1 .. n : t[i] \in Nat
          /\ \A i, j \in 1 .. n : i <= j => t[i] <= t[j]
          /\ \A i \in 1 .. n : t[i] = s[p[i]]
  BY SortedSamples
<1>2. n # 0
  BY FS_EmptySet DEF Numeric
<1> HIDE DEF n, t
<1>3. n \in 1 .. n
  BY <1>1, <1>2
<1>4. /\ \A i \in 1 .. n : p[i] \in DOMAIN s
      /\ \A d \in DOMAIN s : \E i \in 1 .. n : p[i] = d
  BY <1>1 DEF Bijection, Surjection
<1>5. t[n] \in Range(s)
  BY <1>1, <1>3, <1>4 DEF Range
<1>6. ASSUME NEW v \in Range(s) PROVE v \in Nat /\ v <= t[n]
  <2>1. PICK d \in DOMAIN s : v = s[d]
    BY DEF Range
  <2>2. PICK i \in 1 .. n : p[i] = d
    BY <1>4
  <2>3. v = t[i] /\ i <= n
    BY <1>1, <2>1, <2>2
  <2> QED BY <1>1, <1>3, <2>3
<1>7. Max(Range(s)) = t[n]
  <2>1. \A x \in Range(s) : (\A y \in Range(s) : x >= y) <=> x = t[n]
    BY <1>5, <1>6
  <2> QED BY <1>5, <2>1 DEF Max
<1> QED BY <1>1, <1>2, <1>7 DEF n, t

(* A point between two numbers, f hundredths of the way.                   *)
LEMMA Interpolation ==
    ASSUME NEW a \in Nat, NEW b \in Nat, a <= b, NEW f \in 0 .. 99,
           NEW q, q = (100 - f) * a + f * b
    PROVE  /\ q \in Nat /\ 100 * a <= q /\ q <= 100 * b
           /\ q - 100 * a = f * (b - a)
<1>1. /\ f * b \in Nat /\ f * a \in Nat /\ f * (b - a) \in Nat
      /\ f * (b - a) = f * b - f * a
      /\ (100 - f) * a = 100 * a - f * a
  OBVIOUS
<1>2. /\ (100 - f) * (b - a) \in Nat
      /\ (100 - f) * (b - a) = 100 * b - 100 * a - f * (b - a)
  OBVIOUS
<1> QED BY <1>1, <1>2

(* The ranks next to the 95th percentile are ranks of samples.             *)
LEMMA NearestRanks ==
    ASSUME NEW n \in Nat \ {0}
    PROVE  LET rank == 95 * (n - 1)
               lower == rank \div 100
               fraction == rank % 100
           IN  /\ fraction \in 0 .. 99
               /\ rank = 100 * lower + fraction
               /\ lower + 1 \in 1 .. n
               /\ fraction # 0 => /\ lower + 2 \in 1 .. n
                                  /\ lower + 1 = (rank + 99) \div 100
               /\ fraction = 0 => lower = (rank + 99) \div 100
OBVIOUS

(* The percentile lies between the samples of the nearest ranks.           *)
LEMMA BetweenRanks ==
    ASSUME NEW s, Numeric(s), DOMAIN s # {}
    PROVE  LET n == Cardinality(DOMAIN s) - 1
               low == (95 * n) \div 100
               high == (95 * n + 99) \div 100
               t == Float64s(s)
               p == ComputePercentile(s, 95)
           IN  /\ low + 1 \in 1 .. n + 1 /\ high + 1 \in 1 .. n + 1
               /\ p \in Nat
               /\ t[low + 1] <= t[high + 1]
               /\ p \in 100 * t[low + 1] .. 100 * t[high + 1]
               /\ p - 100 * t[low + 1]
                    = (95 * n - 100 * low) * (t[high + 1] - t[low + 1])
<1> DEFINE m == Cardinality(DOMAIN s)
           t == Float64s(s)
           rank == 95 * (m - 1)
           low == rank \div 100
           fraction == rank % 100
           high == (rank + 99) \div 100
           p == ComputePercentile(s, 95)
<1>1. /\ m \in Nat \ {0}
      /\ \A i \in 1 .. m : t[i] \in Nat
      /\ \A i, j \in 1 .. m : i <= j => t[i] <= t[j]
  BY SortedSamples, LargestSample
<1>2. p = IF fraction = 0 THEN 100 * t[low + 1]
          ELSE (100 - fraction) * t[low + 1] + fraction * t[low + 2]
  BY <1>1 DEF ComputePercentile
<1>3. /\ fraction \in 0 .. 99 /\ rank = 100 * low + fraction
      /\ low + 1 \in 1 .. m
      /\ fraction # 0 => low + 2 \in 1 .. m /\ low + 1 = high
      /\ fraction = 0 => low = high
  BY <1>1, NearestRanks
<1>4. low \in Nat /\ high \in Nat /\ rank = 95 * (m - 1)
  BY <1>1
<1> HIDE DEF m, t, rank, low, fraction, high, p
<1>5. 95 * (m - 1) - 100 * low = fraction
  BY <1>3, <1>4
<1>6. /\ high + 1 \in 1 .. m /\ t[low + 1] \in Nat /\ t[high + 1] \in Nat
      /\ t[low + 1] <= t[high + 1]
  <2>1. high + 1 \in 1 .. m /\ low <= high
    BY <1>1, <1>3, <1>4
  <2> QED BY <1>1, <1>3, <1>4, <2>1
<1>7. /\ p \in Nat /\ 100 * t[low + 1] <= p /\ p <= 100 * t[high + 1]
      /\ p - 100 * t[low + 1] = fraction * (t[high + 1] - t[low + 1])
  <2>1. PICK a \in Nat, b \in Nat :
            a = t[low + 1] /\ b = t[high + 1] /\ a <= b
    BY <1>6
  <2>2. p = (100 - fraction) * a + fraction * b
    <3>1. CASE fraction = 0
      <4>1. b = a /\ p = 100 * a
        BY <1>2, <1>3, <2>1, <3>1
      <4>2. (100 - 0) * a + 0 * a = 100 * a
        OBVIOUS
      <4> QED BY <3>1, <4>1, <4>2
    <3>2. CASE fraction # 0
      <4>1. high + 1 = low + 2
        BY <1>3, <1>4, <3>2
      <4> QED BY <1>2, <2>1, <3>2, <4>1
    <3> QED BY <3>1, <3>2
  <2>3. fraction \in 0 .. 99
    BY <1>3
  <2>4. /\ p \in Nat /\ 100 * a <= p /\ p <= 100 * b
        /\ p - 100 * a = fraction * (b - a)
    <3>1. ASSUME NEW f \in 0 .. 99, NEW q, q = (100 - f) * a + f * b
          PROVE  /\ q \in Nat /\ 100 * a <= q /\ q <= 100 * b
                 /\ q - 100 * a = f * (b - a)
      <4>1. a <= b
        BY <2>1
      <4> QED BY <3>1, <4>1, Interpolation, ZenonT(60)
    <3> QED BY <2>2, <2>3, <3>1, Zenon
  <2> QED BY <2>1, <2>4, Zenon
<1>8. m - 1 + 1 = m /\ p \in 100 * t[low + 1] .. 100 * t[high + 1]
  BY <1>1, <1>6, <1>7
<1> QED BY <1>3, <1>5, <1>6, <1>7, <1>8 DEF m, t, rank, low, high, p

(* What the calculator can rely on: the percentile is not above the        *)
(* maximum, and is the maximum when all samples are the same.              *)
LEMMA Utilized ==
    ASSUME NEW s, Numeric(s)
    PROVE  LET u == Utilization(s)
           IN  /\ u.p95 \in Nat /\ u.max \in Nat /\ u.p95 <= u.max
               /\ (\A i, j \in DOMAIN s : s[i] = s[j]) => u.p95 = u.max
<1> DEFINE u == Utilization(s)
<1>1. u.p95 = ComputePercentile(s, 95) /\ u.max = maxValue(s)
  BY DEF Utilization
<1>2. CASE DOMAIN s = {}
  BY <1>1, <1>2, FS_EmptySet DEF ComputePercentile, maxValue
<1>3. CASE DOMAIN s # {}
  <2> DEFINE n == Cardinality(DOMAIN s)
             t == Float64s(s)
  <2>1. /\ n \in Nat \ {0} /\ Max(Range(s)) = t[n]
        /\ \A i \in 1 .. n : t[i] \in Nat
        /\ \A i, j \in 1 .. n : i <= j => t[i] <= t[j]
    BY <1>3, SortedSamples, LargestSample
  <2>2. u.max = 100 * t[n]
    BY <1>1, <1>3, <2>1 DEF maxValue
  <2>3. PICK a \in 1 .. n, b \in 1 .. n :
            u.p95 \in Nat /\ u.p95 \in 100 * t[a] .. 100 * t[b]
    BY <1>1, <1>3, <2>1, BetweenRanks
  <2>4. (\A i, j \in DOMAIN s : s[i] = s[j]) => t[a] = t[n] /\ t[b] = t[n]
    <3>1. PICK p \in Bijection(1 .. n, DOMAIN s) :
              \A i \in 1 .. n : t[i] = s[p[i]]
      BY SortedSamples
    <3>2. \A i \in 1 .. n : p[i] \in DOMAIN s
      BY <3>1 DEF Bijection, Injection
    <3> HIDE DEF n, t
    <3> QED BY <2>1, <3>1, <3>2
  <2> HIDE DEF n, t
  <2>5. t[a] \in Nat /\ t[b] \in Nat /\ t[n] \in Nat /\ t[b] <= t[n]
    BY <2>1
  <2> QED BY <2>2, <2>3, <2>4, <2>5
<1> QED BY <1>2, <1>3

(* The sample of a rank, by counting, is the one that sorting puts there.  *)
LEMMA RankedIsSorted ==
    ASSUME NEW s, Numeric(s), NEW k \in 1 .. Cardinality(DOMAIN s)
    PROVE  Ranked(s, k) = Float64s(s)[k]
<1> DEFINE n == Cardinality(DOMAIN s)
           t == Float64s(s)
           Below(v) == {d \in DOMAIN s : s[d] <= v}
           Enough == {v \in Range(s) : Cardinality(Below(v)) >= k}
<1>1. PICK p \in Bijection(1 .. n, DOMAIN s) :
          /\ n \in Nat
          /\ \A i \in 1 .. n : t[i] \in Nat
          /\ \A i, j \in 1 .. n : i <= j => t[i] <= t[j]
          /\ \A i \in 1 .. n : t[i] = s[p[i]]
  BY SortedSamples
<1> HIDE DEF n, t
<1>2. k \in 1 .. n /\ k \in Nat
  BY <1>1 DEF n
<1>3. /\ p \in [1 .. n -> DOMAIN s]
      /\ \A i, j \in 1 .. n : p[i] = p[j] => i = j
      /\ \A d \in DOMAIN s : \E i \in 1 .. n : p[i] = d
  BY <1>1 DEF Bijection, Injection, Surjection, IsInjective
<1>4. \A v : IsFiniteSet(Below(v)) /\ Cardinality(Below(v)) \in Nat
  BY FS_Subset, FS_CardinalityType DEF Numeric
<1>5. IsFiniteSet(1 .. k) /\ Cardinality(1 .. k) = k
  BY <1>2, FS_Interval
<1>6. t[k] \in Enough
  <2>1. t[k] \in Range(s)
    BY <1>1, <1>2, <1>3 DEF Range
  <2> DEFINE f == [i \in 1 .. k |-> p[i]]
  <2>2. f \in Injection(1 .. k, Below(t[k]))
    <3>1. \A i \in 1 .. k : i \in 1 .. n /\ f[i] = p[i] /\ p[i] \in Below(t[k])
      BY <1>1, <1>2, <1>3
    <3> QED BY <1>3, <3>1 DEF Injection, IsInjective
  <2>3. k <= Cardinality(Below(t[k]))
    <3> HIDE DEF f, Below
    <3> QED BY <1>4, <1>5, <2>2, FS_Injection
  <2> QED BY <1>2, <1>4, <2>1, <2>3
<1>7. ASSUME NEW v \in Enough PROVE v \in Nat /\ t[k] <= v
  <2>1. v \in Nat
    BY DEF Range, Numeric
  <2>2. ASSUME v < t[k] PROVE FALSE
    <3>1. \A d \in Below(v) : \E i \in 1 .. k - 1 : p[i] = d
      <4> SUFFICES ASSUME NEW d \in Below(v)
                   PROVE  \E i \in 1 .. k - 1 : p[i] = d
        OBVIOUS
      <4>1. PICK i \in 1 .. n : p[i] = d
        BY <1>3
      <4>2. t[i] <= v /\ t[i] \in Nat
        BY <1>1, <4>1
      <4>3. ~(k <= i)
        BY <1>1, <1>2, <2>1, <2>2, <4>2
      <4> QED BY <1>1, <1>2, <4>1, <4>3
    <3> DEFINE g == [d \in Below(v) |-> CHOOSE i \in 1 .. k - 1 : p[i] = d]
    <3>2. g \in Injection(Below(v), 1 .. k - 1)
      <4>1. \A d \in Below(v) : g[d] \in 1 .. k - 1 /\ p[g[d]] = d
        BY <3>1
      <4>2. g \in [Below(v) -> 1 .. k - 1]
        BY <4>1
      <4> HIDE DEF g
      <4> QED BY <4>1, <4>2 DEF Injection, IsInjective
    <3>3. IsFiniteSet(1 .. k - 1) /\ Cardinality(1 .. k - 1) = k - 1
      BY <1>2, FS_Interval
    <3>4. Cardinality(Below(v)) <= k - 1
      <4> HIDE DEF g, Below
      <4> QED BY <3>2, <3>3, FS_Injection
    <3>5. Cardinality(Below(v)) >= k /\ Cardinality(Below(v)) \in Nat
      <4> HIDE DEF Below
      <4> QED BY <1>4
    <3> HIDE DEF Below, g
    <3> QED BY <1>2, <3>4, <3>5
  <2> QED BY <1>1, <1>2, <2>1, <2>2
<1>8. Min(Enough) = t[k]
  <2>1. t[k] \in Nat
    BY <1>1, <1>2
  <2> HIDE DEF Enough
  <2>2. \A x \in Enough : (\A y \in Enough : x =< y) <=> x = t[k]
    BY <1>6, <1>7, <2>1
  <2> QED BY <1>6, <2>2 DEF Min
<1> QED BY <1>8 DEF Ranked, t

----------------------------------------------------------------------------
(* Sizes.                                                                  *)

LEMMA TwoNumbers ==
    ASSUME NEW a \in Int, NEW b \in Int
    PROVE  /\ Max({a, b}) = IF a >= b THEN a ELSE b
           /\ Min({a, b}) = IF a <= b THEN a ELSE b
<1>1. \A x \in {a, b} : (\A y \in {a, b} : x >= y)
                            <=> x = IF a >= b THEN a ELSE b
  OBVIOUS
<1>2. \A x \in {a, b} : (\A y \in {a, b} : x =< y)
                            <=> x = IF a <= b THEN a ELSE b
  OBVIOUS
<1>3. /\ (IF a >= b THEN a ELSE b) \in {a, b}
      /\ (IF a <= b THEN a ELSE b) \in {a, b}
  OBVIOUS
<1>4. Max({a, b}) = IF a >= b THEN a ELSE b
  BY <1>1, <1>3 DEF Max
<1>5. Min({a, b}) = IF a <= b THEN a ELSE b
  BY <1>2, <1>3 DEF Min
<1> QED BY <1>4, <1>5

(* math.Ceil does not round down, and of nothing makes nothing.            *)
LEMMA Ceiling ==
    ASSUME NEW num \in Nat
    PROVE  /\ \A c \in Ceilings(num, 100 * One) :
                  c \in Nat /\ c * 100 * One >= num /\ (num = 0 => c = 0)
           /\ \A c \in Ceilings(num, 7 * One) :
                  c \in Nat /\ c * 7 * One >= num /\ (num = 0 => c = 0)
BY DEF Ceilings, One

LEMMA Downsized ==
    ASSUME NEW size \in Nat, NEW u, u.p95 \in Nat, NEW headroom \in Nat,
           NEW new \in DownsizeTo(size, u, headroom)
    PROVE  /\ new \in Nat /\ new <= size
           /\ size > 0 => /\ new > 0
                          /\ \/ new = size
                             \/ new * 100 * One >= u.p95 * (100 + headroom)
<1> DEFINE num == Used(size, u.p95) * (100 + headroom)
<1>1. num \in Nat
  BY DEF Used
<1>2. PICK c \in Ceilings(num, 100 * One) : new = Min({Max({c, 1}), size})
  BY DEF DownsizeTo
<1> HIDE DEF num
<1>3. c \in Nat /\ c * 100 * One >= num
  BY <1>1, Ceiling
<1>4. Max({c, 1}) = IF c >= 1 THEN c ELSE 1
  BY <1>3, TwoNumbers
<1>5. PICK m \in Nat : m = Max({c, 1}) /\ m >= c /\ m >= 1
  BY <1>3, <1>4
<1>6. new = IF m <= size THEN m ELSE size
  <2>1. new = Min({m, size})
    BY <1>2, <1>5
  <2>2. m \in Int /\ size \in Int
    OBVIOUS
  <2>3. Min({m, size}) = IF m <= size THEN m ELSE size
    BY <2>2, TwoNumbers, Zenon
  <2> QED BY <2>1, <2>3
<1>7. new \in Nat /\ new <= size /\ (size > 0 => new > 0)
  BY <1>5, <1>6
<1>8. ASSUME size > 0, new # size
      PROVE  new * 100 * One >= u.p95 * (100 + headroom)
  <2>1. new >= c
    BY <1>3, <1>5, <1>6, <1>8
  <2>2. new * 100 * One >= num
    BY <1>1, <1>3, <1>7, <2>1 DEF One
  <2> QED BY <1>8, <2>2 DEF num, Used
<1> QED BY <1>7, <1>8

LEMMA Upsized ==
    ASSUME NEW size \in Nat, NEW u, u.p95 \in Nat, u.max \in Nat,
           NEW new \in UpsizeTo(size, u)
    PROVE  /\ new \in Nat /\ new >= size
           /\ size = 0 => new = 0
           /\ size > 0 => new * 7 * One >= u.max * 10
<1> DEFINE peak == Max({u.p95, u.max})
           num == Used(size, peak) * 10
<1>1. peak \in Nat /\ peak >= u.max
  BY TwoNumbers
<1>2. num \in Nat /\ (size = 0 => num = 0) /\ (size > 0 => num >= u.max * 10)
  <2> HIDE DEF peak
  <2> QED BY <1>1 DEF Used
<1>3. PICK c \in Ceilings(num, 7 * One) : new = Max({c, size})
  BY DEF UpsizeTo
<1> HIDE DEF num, peak
<1>4. c \in Nat /\ c * 7 * One >= num /\ (num = 0 => c = 0)
  BY <1>2, Ceiling
<1>5. new = IF c >= size THEN c ELSE size
  BY <1>3, <1>4, TwoNumbers
<1> QED BY <1>2, <1>4, <1>5 DEF One

(* Why Analyze gives the verdict it gives.                                 *)
LEMMA Verdict ==
    ASSUME NEW v, NEW cpu, NEW mem, NEW p, NEW r \in Analyze(v, cpu, mem, p)
    PROVE  \/ r = Nil
           \/ /\ r.direction = "downsize"
              /\ r.cores \in DownsizeTo(v.cores, cpu, p.headroom)
              /\ r.memory \in DownsizeTo(v.memory, mem, p.headroom)
              /\ \A k \in {"p95", "max"} :
                     /\ AtMost(v.cores, cpu[k], p.threshold, 1)
                     /\ AtMost(v.memory, mem[k], p.threshold, 10000)
           \/ /\ r.direction = "upsize"
              /\ r.cores \in UpsizeTo(v.cores, cpu)
              /\ r.memory \in UpsizeTo(v.memory, mem)
              /\ \E k \in {"p95", "max"} :
                     \/ AtLeast(v.cores, cpu[k], p.threshold, 1)
                     \/ AtLeast(v.memory, mem[k], p.threshold, 10000)
<1>1. CASE r \in analyzeDownsize(v, cpu, mem, p)
           /\ \A k \in {"p95", "max"} :
                     /\ AtMost(v.cores, cpu[k], p.threshold, 1)
                     /\ AtMost(v.memory, mem[k], p.threshold, 10000)
  BY <1>1 DEF analyzeDownsize
<1>2. CASE r \in analyzeUpsize(v, cpu, mem, p)
           /\ \E k \in {"p95", "max"} :
                     \/ AtLeast(v.cores, cpu[k], p.threshold, 1)
                     \/ AtLeast(v.memory, mem[k], p.threshold, 10000)
  BY <1>2 DEF analyzeUpsize
<1> QED BY <1>1, <1>2 DEF Analyze

----------------------------------------------------------------------------
(* The load never changes, and a verdict is one about the VM as it is.     *)

Cpu == Utilization(FirstSeries(load.cpu))

Mem == Utilization(FirstSeries(load.memory))

Sizes == [cores: Nat, guest: Nat, requests: Nat \cup {NoRequest}]

SizeInv ==
    /\ vm \in Sizes /\ policy \in Policies
    /\ load.cpu \in Responses \cup {Failure}
    /\ load.memory \in Responses \cup {Failure}
    /\ demo \in {"off", "downsize", "upsize"}
    /\ \/ found = Nil
       \/ demo # "off" /\ found = demoResult
       \/ demo = "off" /\ found \in Analyze(getVM, Cpu, Mem, policy)

LEMMA AnswerSeries ==
    ASSUME NEW r \in Responses \cup {Failure}
    PROVE  r.series \in Seq(Seq(Nat \cup {NotANumber}))
<1>1. CASE r \in Responses
  BY <1>1, SizingAssumption
<1>2. CASE r = Failure
  BY <1>2 DEF Failure
<1> QED BY <1>1, <1>2

LEMMA NumericSamples ==
    ASSUME NEW r \in Responses \cup {Failure}
    PROVE  Numeric(FirstSeries(r))
<1>1. r.series \in Seq(Seq(Nat \cup {NotANumber}))
  BY AnswerSeries
<1>2. CASE r.series = <<>>
  BY <1>2, FS_EmptySet DEF FirstSeries, Numeric
<1>3. CASE r.series # <<>>
  <2> DEFINE values == r.series[1]
             D == {k \in DOMAIN values : values[k] # NotANumber}
  <2>1. 1 \in DOMAIN r.series /\ values \in Seq(Nat \cup {NotANumber})
    BY <1>1, <1>3
  <2>2. FirstSeries(r) = [k \in D |-> values[k]]
    BY <1>3, <2>1 DEF FirstSeries, QueryRange, Restrict
  <2>3. /\ Len(values) \in Nat /\ DOMAIN values = 1 .. Len(values)
        /\ \A k \in DOMAIN values : values[k] \in Nat \cup {NotANumber}
    BY <2>1
  <2>4. IsFiniteSet(1 .. Len(values))
    BY <2>3, FS_Interval
  <2>5. IsFiniteSet(D)
    BY <2>3, <2>4, FS_Subset
  <2>6. \A k \in D : values[k] \in Nat
    BY <2>3
  <2> HIDE DEF D, values
  <2> QED BY <2>2, <2>5, <2>6 DEF Numeric
<1> QED BY <1>2, <1>3

LEMMA SamplesAreNumbers ==
    ASSUME SizeInv
    PROVE  /\ \A s \in Samples : Numeric(s)
           /\ Cpu.p95 \in Nat /\ Cpu.max \in Nat /\ Cpu.p95 <= Cpu.max
           /\ Mem.p95 \in Nat /\ Mem.max \in Nat /\ Mem.p95 <= Mem.max
           /\ Steady => Cpu.p95 = Cpu.max /\ Mem.p95 = Mem.max
<1>1. Numeric(FirstSeries(load.cpu)) /\ Numeric(FirstSeries(load.memory))
  BY NumericSamples DEF SizeInv
<1>2. Steady => \A s \in {FirstSeries(load.cpu), FirstSeries(load.memory)} :
                    \A i, j \in DOMAIN s : s[i] = s[j]
  BY DEF Steady, Samples
<1>3. /\ Cpu.p95 \in Nat /\ Cpu.max \in Nat /\ Cpu.p95 <= Cpu.max
      /\ Steady => Cpu.p95 = Cpu.max
  BY <1>1, <1>2, Utilized DEF Cpu
<1>4. /\ Mem.p95 \in Nat /\ Mem.max \in Nat /\ Mem.p95 <= Mem.max
      /\ Steady => Mem.p95 = Mem.max
  BY <1>1, <1>2, Utilized DEF Mem
<1> QED BY <1>1, <1>3, <1>4 DEF Samples

(* The VM that the analysis sees.                                          *)
LEMMA SeenVm ==
    ASSUME SizeInv
    PROVE  /\ getVM.cores = vm.cores /\ vm.cores \in Nat /\ vm.guest \in Nat
           /\ getVM.memory \in Nat
           /\ vm.requests = NoRequest => getVM.memory = vm.guest
           /\ policy.headroom \in Nat /\ policy.threshold \in 1 .. 100
BY SizingAssumption DEF SizeInv, Sizes, getVM, NoRequest

(* What a verdict of the analysis says of one resource.                    *)
Justified(direction, new, old, u) ==
    /\ new \in Nat /\ (old = 0 => new = 0)
    /\ direction = "downsize" /\ old > 0 =>
           /\ new > 0 /\ new <= old
           /\ \/ new = old
              \/ new * 100 * One >= u.p95 * (100 + policy.headroom)
           /\ \A k \in {"p95", "max"} :
                  100 * u[k] <= policy.threshold * old * One
    /\ direction = "upsize" /\ old > 0 =>
           new >= old /\ new * 7 * One >= u.max * 10

LEMMA Analysed ==
    ASSUME SizeInv, demo = "off", found # Nil
    PROVE  /\ found.direction \in {"downsize", "upsize"}
           /\ Justified(found.direction, found.cores, getVM.cores, Cpu)
           /\ Justified(found.direction, found.memory, getVM.memory, Mem)
<1> DEFINE v == getVM
<1>1. /\ v.cores \in Nat /\ v.memory \in Nat
      /\ policy.headroom \in Nat /\ policy.threshold \in 1 .. 100
      /\ Cpu.p95 \in Nat /\ Cpu.max \in Nat
      /\ Mem.p95 \in Nat /\ Mem.max \in Nat
  BY SeenVm, SamplesAreNumbers
<1>2. found \in Analyze(v, Cpu, Mem, policy)
  BY DEF SizeInv
<1> HIDE DEF v
<1>3. CASE /\ found.direction = "downsize"
           /\ found.cores \in DownsizeTo(v.cores, Cpu, policy.headroom)
           /\ found.memory \in DownsizeTo(v.memory, Mem, policy.headroom)
           /\ \A k \in {"p95", "max"} :
                  /\ AtMost(v.cores, Cpu[k], policy.threshold, 1)
                  /\ AtMost(v.memory, Mem[k], policy.threshold, 10000)
  <2>1. ASSUME NEW old \in Nat, NEW u, u.p95 \in Nat, NEW raw,
               NEW new \in DownsizeTo(old, u, policy.headroom),
               \A k \in {"p95", "max"} : AtMost(old, u[k], policy.threshold, raw)
        PROVE  Justified("downsize", new, old, u)
    <3>1. /\ new \in Nat /\ new <= old
          /\ old > 0 => /\ new > 0
                        /\ \/ new = old
                           \/ new * 100 * One >= u.p95 * (100 + policy.headroom)
      BY <1>1, <2>1, Downsized
    <3>2. old = 0 => new = 0
      BY <3>1
    <3>3. old > 0 => \A k \in {"p95", "max"} :
                         100 * u[k] <= policy.threshold * old * One
      BY <2>1 DEF AtMost
    <3> QED BY <3>1, <3>2, <3>3 DEF Justified
  <2> QED BY <1>1, <1>3, <2>1 DEF v
<1>4. CASE /\ found.direction = "upsize"
           /\ found.cores \in UpsizeTo(v.cores, Cpu)
           /\ found.memory \in UpsizeTo(v.memory, Mem)
  <2>1. ASSUME NEW old \in Nat, NEW u, u.p95 \in Nat, u.max \in Nat,
               NEW new \in UpsizeTo(old, u)
        PROVE  Justified("upsize", new, old, u)
    BY <2>1, Upsized DEF Justified
  <2> QED BY <1>1, <1>4, <2>1 DEF v
<1> QED BY <1>2, <1>3, <1>4, Verdict

LEMMA DemoSizes ==
    ASSUME SizeInv, demo # "off", NEW old \in Nat
    PROVE  /\ DemoSize(old) \in Nat
           /\ old > 0 => /\ DemoSize(old) > 0
                         /\ demo = "downsize" => DemoSize(old) <= old
                         /\ demo = "upsize" => DemoSize(old) >= old
<1>1. Max({old \div 2, 1}) = IF old \div 2 >= 1 THEN old \div 2 ELSE 1
  BY TwoNumbers
<1> QED BY <1>1 DEF DemoSize, SizeInv

LEMMA SizeStep == SizeInv /\ [Next]_vars => SizeInv'
<1> SUFFICES ASSUME SizeInv, [Next]_vars PROVE SizeInv'
  OBVIOUS
<1>1. CASE Reconcile
  <2>1. UNCHANGED <<vm, load, demo, policy>>
    BY <1>1 DEF Reconcile
  <2>2. Cpu' = Cpu /\ Mem' = Mem /\ getVM' = getVM
    BY <2>1 DEF Cpu, Mem, getVM
  <2>3. demo # "off" => demoResult' = demoResult
    BY <2>1, <2>2 DEF demoResult, DemoSize
  <2>4. \/ demo # "off" /\ found' = demoResult
        \/ demo = "off" /\ found' \in Analyze(getVM, Cpu, Mem, policy)
    BY <1>1 DEF Reconcile, GetVMUtilization, GetVMMetrics, Cpu, Mem
  <2> QED BY <2>1, <2>2, <2>3, <2>4 DEF SizeInv
<1>2. CASE Patch
  <2>1. /\ vm' = [vm EXCEPT !.cores = found.cores, !.guest = found.memory]
        /\ found # Nil /\ found' = Nil /\ UNCHANGED <<load, demo, policy>>
    BY <1>2 DEF Patch
  <2>2. found.cores \in Nat /\ found.memory \in Nat
    <3>1. CASE demo = "off"
      BY <2>1, <3>1, Analysed DEF Justified
    <3>2. CASE demo # "off"
      <4>1. found = demoResult
        BY <2>1, <3>2 DEF SizeInv
      <4>2. DemoSize(getVM.cores) \in Nat /\ DemoSize(getVM.memory) \in Nat
        BY <3>2, SeenVm, DemoSizes
      <4> QED BY <4>1, <4>2 DEF demoResult
    <3> QED BY <3>1, <3>2
  <2>3. vm' \in Sizes
    BY <2>1, <2>2 DEF SizeInv, Sizes
  <2> QED BY <2>1, <2>3 DEF SizeInv
<1>3. CASE UNCHANGED vars
  <2>1. UNCHANGED <<vm, load, demo, policy, found>>
    BY <1>3 DEF vars
  <2> QED BY <2>1 DEF SizeInv, Cpu, Mem, getVM, demoResult, DemoSize
<1> QED BY <1>1, <1>2, <1>3 DEF Next

LEMMA SizeInit == Init => SizeInv
<1> SUFFICES ASSUME Init PROVE SizeInv
  OBVIOUS
<1>1. vm \in Sizes
  BY SizingAssumption DEF Init, Sizes
<1> QED BY <1>1 DEF Init, SizeInv

(* Where there are samples, ComputePercentile returns what its comment     *)
(* says, for any number of samples in any order.                           *)
THEOREM PercentilesAreRanked == Spec => []PercentileIsRanked
<1>1. SizeInv => PercentileIsRanked
  <2> SUFFICES ASSUME SizeInv PROVE PercentileIsRanked
    OBVIOUS
  <2>1. \A s \in Samples : Numeric(s)
    BY SamplesAreNumbers
  <2>2. ASSUME NEW s \in Samples, DOMAIN s # {}
        PROVE  LET n == Cardinality(DOMAIN s) - 1
                   low == (95 * n) \div 100
                   high == (95 * n + 99) \div 100
                   p == ComputePercentile(s, 95)
               IN  /\ p \in 100 * Ranked(s, low + 1) .. 100 * Ranked(s, high + 1)
                   /\ p - 100 * Ranked(s, low + 1)
                      = (95 * n - 100 * low)
                        * (Ranked(s, high + 1) - Ranked(s, low + 1))
    <3> DEFINE n == Cardinality(DOMAIN s) - 1
               low == (95 * n) \div 100
               high == (95 * n + 99) \div 100
               t == Float64s(s)
               p == ComputePercentile(s, 95)
    <3>1. Cardinality(DOMAIN s) \in Nat \ {0}
      BY <2>1, <2>2, LargestSample
    <3>2. n + 1 = Cardinality(DOMAIN s)
      BY <3>1
    <3>3. /\ low + 1 \in 1 .. n + 1 /\ high + 1 \in 1 .. n + 1
          /\ p \in 100 * t[low + 1] .. 100 * t[high + 1]
          /\ p - 100 * t[low + 1]
                = (95 * n - 100 * low) * (t[high + 1] - t[low + 1])
      BY <2>1, <2>2, BetweenRanks
    <3> HIDE DEF n, low, high, t, p
    <3>4. Ranked(s, low + 1) = t[low + 1] /\ Ranked(s, high + 1) = t[high + 1]
      BY <2>1, <3>2, <3>3, RankedIsSorted DEF t
    <3> QED BY <3>3, <3>4, Zenon DEF n, low, high, p
  <2> QED BY <2>2, Zenon DEF PercentileIsRanked
<1> QED BY <1>1, SizeInit, SizeStep, PTL DEF Spec

(* A downsize never adds and an upsize never takes away, and a size is     *)
(* never brought down to none, by analysis or in demo mode.                *)
THEOREM DirectionsAreTrue == Spec => []DirectionIsTrue
<1>1. SizeInv => DirectionIsTrue
  <2> SUFFICES ASSUME SizeInv, found # Nil,
                      NEW s \in {<<vm.cores, found.cores>>,
                                 <<getVM.memory, found.memory>>},
                      s[1] > 0
               PROVE  /\ s[2] > 0
                      /\ found.direction = "downsize" => s[2] <= s[1]
                      /\ found.direction = "upsize" => s[2] >= s[1]
    BY DEF DirectionIsTrue
  <2>1. /\ getVM.cores = vm.cores /\ vm.cores \in Nat /\ getVM.memory \in Nat
    BY SeenVm
  <2>2. CASE demo = "off"
    <3>1. /\ found.direction \in {"downsize", "upsize"}
          /\ Justified(found.direction, found.cores, getVM.cores, Cpu)
          /\ Justified(found.direction, found.memory, getVM.memory, Mem)
      BY <2>2, Analysed
    <3> QED BY <2>1, <3>1 DEF Justified
  <2>3. CASE demo # "off"
    <3>1. found = demoResult
      BY <2>3 DEF SizeInv
    <3>2. /\ found.direction = demo
          /\ found.cores = DemoSize(vm.cores)
          /\ found.memory = DemoSize(getVM.memory)
      BY <2>1, <3>1 DEF demoResult
    <3> QED BY <2>1, <2>3, <3>2, DemoSizes
  <2> QED BY <2>2, <2>3
<1> QED BY <1>1, SizeInit, SizeStep, PTL DEF Spec

LEMMA WithinThreshold ==
    ASSUME NEW p \in Nat, NEW t \in 1 .. 100, NEW c \in Nat,
           100 * p <= t * c
    PROVE  c >= p
<1>1. t * c <= 100 * c
  OBVIOUS
<1>2. t * c \in Nat
  OBVIOUS
<1> QED BY <1>1, <1>2

LEMMA WithHeadroom ==
    ASSUME NEW p \in Nat, NEW h \in Nat, NEW c \in Nat,
           c * 100 >= p * (100 + h)
    PROVE  c >= p
<1>1. p * h \in Nat /\ p * (100 + h) = 100 * p + p * h
  OBVIOUS
<1> QED BY <1>1

(* A recommendation carries the load that the numbers among the samples    *)
(* describe.                                                               *)
THEOREM LoadIsCovered == Spec => []CoversLoad
<1> DEFINE Numbers(r) == IF r.series = <<>> THEN <<>>
                         ELSE Restrict(r.series[1],
                                       {k \in DOMAIN r.series[1] :
                                           r.series[1][k] # NotANumber})
           Fits(new, old, u) ==
               \/ old = 0
               \/ /\ found.direction = "downsize"
                  /\ \/ new = old
                     \/ new * 100 * One >= u.p95 * (100 + policy.headroom)
                  /\ new * One >= u.p95
               \/ /\ found.direction = "upsize"
                  /\ new * 7 * One >= u.max * 10
<1>1. SizeInv => CoversLoad
  <2> SUFFICES ASSUME SizeInv, demo = "off", found # Nil
               PROVE  /\ Fits(found.cores, vm.cores,
                              Utilization(Numbers(load.cpu)))
                      /\ Fits(found.memory, getVM.memory,
                              Utilization(Numbers(load.memory)))
    BY DEF CoversLoad
  <2>1. ASSUME NEW r \in Responses \cup {Failure}
        PROVE  Numbers(r) = FirstSeries(r)
    <3>1. r.series \in Seq(Seq(Nat \cup {NotANumber}))
      BY AnswerSeries
    <3>2. r.series # <<>> => 1 \in DOMAIN r.series
      BY <3>1
    <3> QED BY <3>2, Zenon DEF FirstSeries, QueryRange
  <2>2. /\ Utilization(Numbers(load.cpu)) = Cpu
        /\ Utilization(Numbers(load.memory)) = Mem
    BY <2>1 DEF SizeInv, Cpu, Mem
  <2>3. ASSUME NEW old \in Nat, NEW new, NEW u, u.p95 \in Nat,
               found.direction \in {"downsize", "upsize"},
               Justified(found.direction, new, old, u)
        PROVE  Fits(new, old, u)
    <3>1. new \in Nat /\ policy.headroom \in Nat /\ policy.threshold \in 1 .. 100
      BY <2>3, SeenVm DEF Justified
    <3>2. CASE old > 0 /\ found.direction = "upsize"
      BY <2>3, <3>2 DEF Justified
    <3>3. CASE old > 0 /\ found.direction = "downsize"
      <4>1. \/ new = old
            \/ new * 100 * One >= u.p95 * (100 + policy.headroom)
        BY <2>3, <3>3 DEF Justified
      <4>2. new * One >= u.p95
        <5>1. CASE new = old
          <6>1. 100 * u.p95 <= policy.threshold * new * One
            BY <2>3, <3>3, <5>1 DEF Justified
          <6>2. PICK c \in Nat : c = new * One
            BY <3>1 DEF One
          <6>3. 100 * u.p95 <= policy.threshold * c
            BY <3>1, <6>1, <6>2 DEF One
          <6> QED BY <2>3, <3>1, <6>2, <6>3, WithinThreshold
        <5>2. CASE new * 100 * One >= u.p95 * (100 + policy.headroom)
          <6>1. PICK c \in Nat : c = new * One
            BY <3>1 DEF One
          <6>2. c * 100 = new * 100 * One
            BY <3>1, <6>1 DEF One
          <6>3. c * 100 >= u.p95 * (100 + policy.headroom)
            BY <5>2, <6>2
          <6> QED BY <2>3, <3>1, <6>1, <6>3, WithHeadroom
        <5> QED BY <4>1, <5>1, <5>2
      <4> QED BY <3>3, <4>1, <4>2
    <3> QED BY <2>3, <3>2, <3>3
  <2> HIDE DEF Fits, Numbers
  <2> QED BY <2>2, <2>3, Analysed, SeenVm, SamplesAreNumbers
<1> QED BY <1>1, SizeInit, SizeStep, PTL DEF Spec

----------------------------------------------------------------------------
(* A size that was changed.                                                *)

(* What the size of a VM is owed to, when it was changed in the fields     *)
(* that the analysis reads.                                                *)
Settled(size, u) ==
    /\ applied = "upsize" => size * 7 * One >= u.max * 10
    /\ applied = "downsize" =>
           \/ size * 100 * One >= u.p95 * (100 + policy.headroom)
           \/ 100 * u.max <= policy.threshold * size * One

AppliedInv ==
    /\ SizeInv
    /\ demo = "off" /\ vm.requests = NoRequest =>
           /\ vm.cores > 0 => Settled(vm.cores, Cpu)
           /\ vm.guest > 0 => Settled(vm.guest, Mem)

LEMMA AppliedStep == AppliedInv /\ [Next]_vars => AppliedInv'
<1> SUFFICES ASSUME AppliedInv, [Next]_vars PROVE AppliedInv'
  OBVIOUS
<1>1. SizeInv /\ SizeInv'
  BY SizeStep DEF AppliedInv
<1>2. CASE UNCHANGED <<vm, load, demo, policy, applied>>
  BY <1>1, <1>2 DEF AppliedInv, Settled, Cpu, Mem
<1>3. CASE Patch
  <2> SUFFICES ASSUME demo = "off", vm.requests = NoRequest
               PROVE  /\ vm'.cores > 0 => Settled(vm.cores, Cpu)'
                      /\ vm'.guest > 0 => Settled(vm.guest, Mem)'
    <3>1. demo' = demo /\ vm'.requests = vm.requests
      BY <1>1, <1>3 DEF Patch, SizeInv, Sizes
    <3> QED BY <1>1, <3>1 DEF AppliedInv
  <2>1. /\ vm'.cores = found.cores /\ vm'.guest = found.memory
        /\ found # Nil /\ applied' = found.direction
        /\ UNCHANGED <<load, demo, policy>>
    BY <1>1, <1>3 DEF Patch, SizeInv, Sizes
  <2>2. Cpu' = Cpu /\ Mem' = Mem
    BY <2>1 DEF Cpu, Mem
  <2>3. /\ Justified(applied', vm'.cores, vm.cores, Cpu)
        /\ Justified(applied', vm'.guest, vm.guest, Mem)
    BY <1>1, <2>1, Analysed, SeenVm
  <2>4. ASSUME NEW old \in Nat, NEW new, NEW u, new > 0,
               Justified(applied', new, old, u)
        PROVE  /\ applied' = "upsize" => new * 7 * One >= u.max * 10
               /\ applied' = "downsize" =>
                      \/ new * 100 * One >= u.p95 * (100 + policy.headroom)
                      \/ 100 * u.max <= policy.threshold * new * One
    <3>1. old > 0
      BY <2>4 DEF Justified
    <3> QED BY <2>4, <3>1 DEF Justified
  <2>5. vm.cores \in Nat /\ vm.guest \in Nat
    BY <1>1, SeenVm
  <2> QED BY <2>1, <2>2, <2>3, <2>4, <2>5 DEF Settled
<1> QED BY <1>2, <1>3 DEF Next, Reconcile, vars

(* Seventy percent used is below a threshold above seventy.                *)
LEMMA BelowThreshold ==
    ASSUME NEW m \in Nat, NEW c \in Nat, c > 0, NEW t \in Nat, t > 70,
           c * 7 >= m * 10
    PROVE  ~ (100 * m >= t * c)
<1>1. t * c >= 71 * c
  OBVIOUS
<1>2. t * c \in Nat
  OBVIOUS
<1> QED BY <1>1, <1>2

(* A size with the headroom of a roomy policy stays below its threshold.   *)
LEMMA RoomLeft ==
    ASSUME NEW m \in Nat, NEW c \in Nat, c > 0, NEW t \in Nat, t > 0,
           NEW g \in Nat, c * 100 >= m * g, 10000 < t * g
    PROVE  ~ (100 * m >= t * c)
<1> SUFFICES ASSUME 100 * m >= t * c PROVE FALSE
  OBVIOUS
<1>1. t * c \in Nat /\ t * c > 0
  OBVIOUS
<1>2. m > 0
  BY <1>1
<1>3. t * (c * 100) >= t * (m * g)
  <2>1. PICK a \in Nat, b \in Nat : a = c * 100 /\ b = m * g
    OBVIOUS
  <2>2. t * a >= t * b
    BY <2>1
  <2> QED BY <2>1, <2>2
<1>4. t * (m * g) = m * (t * g) /\ t * (c * 100) = 100 * (t * c)
  OBVIOUS
<1>5. m * (t * g) > m * 10000
  <2>1. PICK a \in Nat : a = t * g
    OBVIOUS
  <2>2. m * a > m * 10000
    BY <1>2, <2>1
  <2> QED BY <2>1, <2>2
<1>6. 100 * (t * c) <= 10000 * m
  BY <1>1
<1> QED BY <1>3, <1>4, <1>5, <1>6

(* An upsize is found only for a resource that reaches the threshold.      *)
LEMMA UpsizeFound ==
    ASSUME SizeInv, demo = "off", found.direction = "upsize",
           vm.cores > 0, vm.guest > 0, vm.requests = NoRequest
    PROVE  \E k \in {"p95", "max"} :
               \/ 100 * Cpu[k] >= policy.threshold * vm.cores * One
               \/ 100 * Mem[k] >= policy.threshold * vm.guest * One
<1>1. getVM.cores = vm.cores /\ getVM.memory = vm.guest
  BY SeenVm
<1>2. found # Nil
  BY DEF Nil
<1>3. found \in Analyze(getVM, Cpu, Mem, policy)
  BY <1>2 DEF SizeInv
<1>4. \E k \in {"p95", "max"} :
          \/ AtLeast(getVM.cores, Cpu[k], policy.threshold, 1)
          \/ AtLeast(getVM.memory, Mem[k], policy.threshold, 10000)
  BY <1>2, <1>3, Verdict
<1> QED BY <1>1, <1>4 DEF AtLeast

(* A VM whose size was changed is not found too small afterwards by the    *)
(* analysis that chose the size.                                           *)
THEOREM SizesDoNotFlap == Spec => []NoFlapping
<1>1. Init => AppliedInv
  BY SizeInit DEF Init, AppliedInv, Settled
<1>2. AppliedInv => NoFlapping
  <2> SUFFICES ASSUME AppliedInv, demo = "off", vm.cores > 0, vm.guest > 0,
                      vm.requests = NoRequest,
                      \/ applied = "upsize" /\ policy.threshold > 70
                      \/ applied = "downsize" /\ Steady /\ Roomy /\ ~Borderline,
                      found.direction = "upsize"
               PROVE  FALSE
    BY DEF NoFlapping
  <2>1. /\ vm.cores \in Nat /\ vm.guest \in Nat /\ getVM.cores = vm.cores
        /\ getVM.memory = vm.guest
        /\ policy.headroom \in Nat /\ policy.threshold \in 1 .. 100
    BY SeenVm DEF AppliedInv
  <2>2. /\ Cpu.p95 \in Nat /\ Cpu.max \in Nat /\ Cpu.p95 <= Cpu.max
        /\ Mem.p95 \in Nat /\ Mem.max \in Nat /\ Mem.p95 <= Mem.max
        /\ Steady => Cpu.p95 = Cpu.max /\ Mem.p95 = Mem.max
    BY SamplesAreNumbers DEF AppliedInv
  <2>3. Settled(vm.cores, Cpu) /\ Settled(vm.guest, Mem)
    BY DEF AppliedInv
  <2>4. \E k \in {"p95", "max"} :
            \/ 100 * Cpu[k] >= policy.threshold * vm.cores * One
            \/ 100 * Mem[k] >= policy.threshold * vm.guest * One
    BY UpsizeFound DEF AppliedInv
  <2>5. ~Borderline => /\ 100 * Cpu.max # policy.threshold * vm.cores * One
                       /\ 100 * Mem.max # policy.threshold * vm.guest * One
    BY <2>1 DEF Borderline, GetVMUtilization, GetVMMetrics, Cpu, Mem
  <2>6. ASSUME NEW size \in Nat, size > 0, NEW u, u.p95 \in Nat, u.max \in Nat,
               u.p95 <= u.max, Steady => u.p95 = u.max, Settled(size, u),
               ~Borderline => 100 * u.max # policy.threshold * size * One
        PROVE  ~ (100 * u.max >= policy.threshold * size * One)
    <3>1. PICK c \in Nat, g \in Nat :
              /\ c = size * One /\ c > 0 /\ g = 100 + policy.headroom
      <4>1. size * One \in Nat /\ size * One > 0
        BY <2>6 DEF One
      <4>2. 100 + policy.headroom \in Nat
        BY <2>1
      <4> QED BY <4>1, <4>2
    <3>2. /\ size * 7 * One = c * 7 /\ size * 100 * One = c * 100
          /\ policy.threshold * size * One = policy.threshold * c
      BY <2>1, <2>6, <3>1 DEF One
    <3>3. policy.threshold \in Nat /\ policy.threshold > 0
      BY <2>1
    <3>4. CASE applied = "upsize" /\ policy.threshold > 70
      <4>1. c * 7 >= u.max * 10
        BY <2>6, <3>2, <3>4 DEF Settled
      <4>2. ~ (100 * u.max >= policy.threshold * c)
        BY <2>6, <3>1, <3>3, <3>4, <4>1, BelowThreshold
      <4> QED BY <3>2, <4>2
    <3>5. CASE applied = "downsize" /\ Steady /\ Roomy /\ ~Borderline
      <4>1. \/ c * 100 >= u.max * g
            \/ 100 * u.max <= policy.threshold * c
        BY <2>6, <3>1, <3>2, <3>5 DEF Settled
      <4>2. CASE c * 100 >= u.max * g
        <5>1. 10000 < policy.threshold * g
          BY <3>1, <3>5 DEF Roomy
        <5>2. ~ (100 * u.max >= policy.threshold * c)
          BY <2>6, <3>1, <3>3, <4>2, <5>1, RoomLeft
        <5> QED BY <3>2, <5>2
      <4>3. CASE 100 * u.max <= policy.threshold * c
        <5>1. 100 * u.max # policy.threshold * c
          BY <2>6, <3>2, <3>5
        <5>2. PICK a \in Nat, b \in Nat :
                  a = 100 * u.max /\ b = policy.threshold * c
          BY <2>6, <3>1, <3>3
        <5> QED BY <3>2, <4>3, <5>1, <5>2
      <4> QED BY <4>1, <4>2, <4>3
    <3> QED BY <3>4, <3>5
  <2>7. /\ ~ (100 * Cpu.max >= policy.threshold * vm.cores * One)
        /\ ~ (100 * Mem.max >= policy.threshold * vm.guest * One)
    BY <2>1, <2>2, <2>3, <2>5, <2>6
  <2>8. ASSUME NEW p \in Nat, NEW m \in Nat, p <= m, NEW b \in Nat, 100 * p >= b
        PROVE  100 * m >= b
    BY <2>8
  <2>9. /\ policy.threshold * vm.cores * One \in Nat
        /\ policy.threshold * vm.guest * One \in Nat
    BY <2>1 DEF One
  <2> QED BY <2>2, <2>4, <2>7, <2>8, <2>9
<1> QED BY <1>1, <1>2, AppliedStep, PTL DEF Spec

=============================================================================
