------------------------- MODULE LatencyHarnessProofs -------------------------
(***************************************************************************)
(* Proofs about the latency harness.  The figures it prints, for every     *)
(* number of buckets, every set of latencies and every number of           *)
(* iterations: what percentile computes from the buckets is a rank of the  *)
(* latencies that were recorded.  And the benchmarks it runs, for all      *)
(* numbers of orders, prices, shares and iterations that fit the book as   *)
(* HarnessSizes says: what the book holds after any number of iterations   *)
(* is known order by order, so no operation that is timed misses, the book *)
(* stays in its steady state, and the window stays where the warm-up put   *)
(* it.                                                                     *)
(***************************************************************************)
EXTENDS LatencyHarness, OrderBookFeedProofs

Recorded == 1 .. total_

In(i)   == {j \in Recorded : bucket_of(recorded[j]) = i}
UpTo(i) == {j \in Recorded : bucket_of(recorded[j]) <= i}

(* The buckets count the latencies recorded in this benchmark. *)
HistInv ==
    /\ total_ \in Nat
    /\ recorded \in [Recorded -> Nanoseconds]
    /\ buckets_ \in [Buckets -> Nat]
    /\ \A i \in Buckets : buckets_[i] = Cardinality(In(i))

LEMMA BucketOf ==
    ASSUME NEW ns \in Nat
    PROVE  /\ bucket_of(ns) \in Buckets
           /\ \A m \in Nat : ns <= m => bucket_of(ns) <= bucket_of(m)
BY HistogramAssumption DEF bucket_of, Buckets

LEMMA BucketsNat == Buckets \subseteq Nat /\ kBuckets \in Nat \ {0} /\ kBuckets - 1 \in Buckets
BY HistogramAssumption DEF Buckets

(* An empty histogram. *)
LEMMA EmptyHist ==
    ASSUME total_ = 0, recorded = [k \in {} |-> 0], buckets_ = [i \in Buckets |-> 0]
    PROVE  HistInv
<1>1. Recorded = {}
    BY DEF Recorded
<1>2. \A i \in Buckets : In(i) = {} /\ Cardinality(In(i)) = 0
    BY <1>1, FS_EmptySet DEF In
<1> QED BY <1>1, <1>2 DEF HistInv

(* A latency is counted in its bucket and in no other. *)
LEMMA RecordHist ==
    ASSUME HistInv, NEW ns \in Nanoseconds, record(ns)
    PROVE  HistInv'
<1> DEFINE n == total_ + 1
           b == bucket_of(ns)
<1>1. /\ total_ \in Nat /\ recorded \in [Recorded -> Nanoseconds] /\ buckets_ \in [Buckets -> Nat]
      /\ \A i \in Buckets : buckets_[i] = Cardinality(In(i))
    BY DEF HistInv
<1>2. /\ total_' = n /\ buckets_' = [buckets_ EXCEPT ![b] = @ + 1]
      /\ recorded' = [k \in 1 .. n |-> IF k <= total_ THEN recorded[k] ELSE ns]
    BY DEF record
<1>3. b \in Buckets
    BY BucketOf, HistogramAssumption
<1>4. Recorded' = Recorded \cup {n} /\ n \notin Recorded /\ n \in Nat
    BY <1>1, <1>2 DEF Recorded
<1>5. recorded'[n] = ns /\ \A j \in Recorded : recorded'[j] = recorded[j]
    BY <1>1, <1>2 DEF Recorded
<1>6. recorded' \in [Recorded' -> Nanoseconds]
    BY <1>1, <1>2 DEF Recorded
<1>7. \A i : In(i)' = IF i = b THEN In(i) \cup {n} ELSE In(i)
    BY <1>4, <1>5 DEF In, bucket_of
<1>8. ASSUME NEW i \in Buckets PROVE buckets_'[i] = Cardinality(In(i)')
  <2>1. IsFiniteSet(In(i)) /\ n \notin In(i)
    <3>1. IsFiniteSet(Recorded)
        BY <1>1, FS_Interval DEF Recorded
    <3>2. In(i) \subseteq Recorded
        BY DEF In
    <3> QED BY <1>4, <3>1, <3>2, FS_Subset
  <2>2. Cardinality(In(i) \cup {n}) = Cardinality(In(i)) + 1
      BY <2>1, FS_AddElement
  <2>3. buckets_'[i] = IF i = b THEN buckets_[i] + 1 ELSE buckets_[i]
      BY <1>1, <1>2, <1>3
  <2> QED BY <1>1, <1>7, <2>2, <2>3
<1>9. buckets_' \in [Buckets -> Nat] /\ total_' \in Nat
    BY <1>1, <1>2, <1>3
<1> QED BY <1>6, <1>8, <1>9 DEF HistInv

(* Whatever the harness does, it keeps count. *)
LEMMA HarnessHist == HarnessSpec => []HistInv
<1>1. HarnessInit => HistInv
    BY EmptyHist DEF HarnessInit, HistogramInit
<1>2. ASSUME HistInv, [HarnessNext]_state PROVE HistInv'
  <2>1. CASE UNCHANGED hist
    <3>1. \A i : In(i)' = In(i)
        BY <2>1 DEF hist, In, Recorded, bucket_of
    <3> QED BY <1>2, <2>1, <3>1 DEF HistInv, hist, Recorded
  <2>2. CASE \E ns \in Nanoseconds : record(ns)
      BY <1>2, <2>2, RecordHist
  <2>3. CASE NewHistogram
    <3>1. total_' = 0 /\ recorded' = [k \in {} |-> 0] /\ buckets_' = [i \in Buckets |-> 0]
        BY <2>3 DEF NewHistogram
    <3>2. Recorded' = {}
        BY <3>1 DEF Recorded
    <3>3. \A i \in Buckets : In(i)' = {} /\ Cardinality(In(i)') = 0
        BY <3>2, FS_EmptySet DEF In
    <3> QED BY <3>1, <3>2, <3>3 DEF HistInv
  <2> QED BY <1>2, <2>1, <2>2, <2>3
          DEF HarnessNext, SendUntimed, Measure, PrintRow, Returned, state
<1> QED BY <1>1, <1>2, PTL DEF HarnessSpec


-----------------------------------------------------------------------------
(* Subsets of the recordings. *)
LEMMA CountsOf ==
    ASSUME HistInv, NEW T \in SUBSET Recorded
    PROVE  /\ IsFiniteSet(T) /\ Cardinality(T) \in Nat /\ Cardinality(T) <= total_
           /\ Cardinality(Recorded) = total_
           /\ \A U \in SUBSET T : Cardinality(U) <= Cardinality(T)
           /\ \A U \in SUBSET T : U # T => Cardinality(U) < Cardinality(T)
<1>1. total_ \in Nat
    BY DEF HistInv
<1>2. IsFiniteSet(Recorded) /\ Cardinality(Recorded) = total_
    BY <1>1, FS_Interval DEF Recorded
<1>3. IsFiniteSet(T) /\ Cardinality(T) <= Cardinality(Recorded)
    BY <1>2, FS_Subset
<1>4. Cardinality(T) \in Nat
    BY <1>3, FS_CardinalityType
<1>5. ASSUME NEW U \in SUBSET T
      PROVE  Cardinality(U) <= Cardinality(T) /\ (U # T => Cardinality(U) < Cardinality(T))
  <2>1. IsFiniteSet(U) /\ Cardinality(U) <= Cardinality(T) /\ (Cardinality(T) = Cardinality(U) => T = U)
      BY <1>3, FS_Subset
  <2>2. Cardinality(U) \in Nat
      BY <2>1, FS_CardinalityType
  <2> QED BY <1>4, <2>1, <2>2
<1> QED BY <1>2, <1>3, <1>4, <1>5

(* The running sum of percentile counts the recordings up to a bucket. *)
LEMMA CumIs ==
    ASSUME HistInv, NEW b \in -1 .. kBuckets - 1
    PROVE  cum[b] = Cardinality(UpTo(b))
<1> DEFINE D == -1 .. kBuckets - 1
           F == [i \in D |-> Cardinality(UpTo(i))]
           Rec(g) == g = [i \in D |-> IF i < 0 THEN 0 ELSE g[i - 1] + buckets_[i]]
<1>1. kBuckets \in Nat \ {0} /\ Buckets = 0 .. kBuckets - 1
    BY HistogramAssumption DEF Buckets
<1>2. recorded \in [Recorded -> Nat] /\ \A j \in Recorded : bucket_of(recorded[j]) \in Buckets
    BY BucketOf, HistogramAssumption DEF HistInv
<1>3. F[-1] = 0
  <2>1. UpTo(-1) = {}
      BY <1>1, <1>2 DEF UpTo
  <2>2. -1 \in D
      BY <1>1
  <2> QED BY <2>1, <2>2, FS_EmptySet
<1>4. ASSUME NEW i \in D, ~(i < 0)
      PROVE  i - 1 \in D /\ i \in Buckets /\ F[i] = F[i - 1] + buckets_[i]
  <2>1. i - 1 \in D /\ i \in Buckets /\ i \in Int
      BY <1>1, <1>4
  <2>2. UpTo(i) = UpTo(i - 1) \cup In(i) /\ UpTo(i - 1) \cap In(i) = {}
    <3>1. \A j \in Recorded : /\ bucket_of(recorded[j]) <= i
                                    <=> (bucket_of(recorded[j]) <= i - 1 \/ bucket_of(recorded[j]) = i)
                              /\ ~(bucket_of(recorded[j]) <= i - 1 /\ bucket_of(recorded[j]) = i)
        BY <1>1, <1>2, <2>1
    <3> QED BY <3>1 DEF UpTo, In
  <2>3. /\ IsFiniteSet(UpTo(i - 1)) /\ IsFiniteSet(In(i))
        /\ Cardinality(UpTo(i - 1)) \in Nat /\ Cardinality(In(i)) \in Nat
      BY CountsOf DEF UpTo, In
  <2>4. Cardinality(UpTo(i - 1) \cup In(i))
            = Cardinality(UpTo(i - 1)) + Cardinality(In(i)) - Cardinality(UpTo(i - 1) \cap In(i))
      BY <2>3, FS_Union
  <2>5. Cardinality(UpTo(i - 1) \cap In(i)) = 0
      BY <2>2, FS_EmptySet
  <2>6. Cardinality(UpTo(i)) = Cardinality(UpTo(i - 1)) + Cardinality(In(i))
      BY <2>2, <2>3, <2>4, <2>5
  <2> QED BY <1>4, <2>1, <2>6 DEF HistInv
<1>5. Rec(F)
  <2>1. ASSUME NEW i \in D PROVE F[i] = IF i < 0 THEN 0 ELSE F[i - 1] + buckets_[i]
    <3>1. CASE i < 0
      <4>1. i = -1
          BY <3>1
      <4> QED BY <3>1, <4>1, <1>3
    <3>2. CASE ~(i < 0)
        BY <3>2, <1>4
    <3> QED BY <3>1, <3>2
  <2>2. F = [i \in D |-> F[i]]
      OBVIOUS
  <2> QED BY <2>1, <2>2
<1>6. cum = CHOOSE g : Rec(g)
    BY DEF cum
<1>7. Rec(cum)
  <2> HIDE DEF Rec
  <2> QED BY <1>5, <1>6
<1>8. \A i \in D : cum[i] = IF i < 0 THEN 0 ELSE cum[i - 1] + buckets_[i]
    BY <1>7
<1> HIDE DEF F, Rec
<1>9. ASSUME NEW c \in D, cum[c] # F[c] PROVE FALSE
  <2> DEFINE Bad == {n \in Nat : n - 1 \in D /\ cum[n - 1] # F[n - 1]}
             m == Least(Bad)
             i == m - 1
  <2>1. c + 1 \in Bad
    <3>1. c \in Int /\ c + 1 \in Nat /\ (c + 1) - 1 = c
        BY <1>1
    <3> QED BY <1>9, <3>1
  <2>2. m \in Bad /\ \A n \in Bad : m <= n
      BY <2>1, LeastIsLeast
  <2>3. m \in Nat /\ i \in D /\ cum[i] # F[i]
      BY <2>2
  <2>4. ~(i < 0)
    <3>1. ASSUME i < 0 PROVE FALSE
      <4>1. i = -1
          BY <2>3, <3>1
      <4>2. cum[i] = 0
          BY <1>8, <2>3, <3>1
      <4> QED BY <1>3, <2>3, <4>1, <4>2
    <3> QED BY <3>1
  <2>5. i - 1 \in D /\ F[i] = F[i - 1] + buckets_[i] /\ cum[i] = cum[i - 1] + buckets_[i]
      BY <1>4, <1>8, <2>3, <2>4
  <2>6. i \notin Bad /\ i \in Nat
    <3>1. i \in Nat /\ ~(m <= i)
        BY <2>3, <2>4
    <3> HIDE DEF Bad, m
    <3> QED BY <2>2, <3>1
  <2>7. cum[i - 1] = F[i - 1]
      BY <2>5, <2>6
  <2> QED BY <2>3, <2>5, <2>7
<1> QED BY <1>9 DEF F

-----------------------------------------------------------------------------
(* The recordings below a latency, and up to it. *)
Below(v) == {j \in Recorded : recorded[j] < v}
Until(v) == {j \in Recorded : recorded[j] <= v}

(* Among some recordings there is a largest one. *)
LEMMA LargestOf ==
    ASSUME HistInv, NEW T \in SUBSET Recorded, T # {}
    PROVE  \E j \in T : \A i \in T : recorded[i] <= recorded[j]
<1> DEFINE U(j) == {i \in T : recorded[i] <= recorded[j]}
           key(j) == total_ - Cardinality(U(j))
           K == {key(j) : j \in T}
<1>1. recorded \in [Recorded -> Nat] /\ total_ \in Nat
    BY HistogramAssumption DEF HistInv
<1>2. ASSUME NEW j \in T PROVE key(j) \in Nat /\ Cardinality(U(j)) \in Nat
  <2>1. U(j) \in SUBSET Recorded
      OBVIOUS
  <2>2. Cardinality(U(j)) \in Nat /\ Cardinality(U(j)) <= total_
      BY <2>1, CountsOf
  <2> HIDE DEF U
  <2> QED BY <1>1, <2>2
<1>3. K \in SUBSET Nat /\ K # {}
    BY <1>2
<1>4. Least(K) \in K /\ \A x \in K : Least(K) <= x
    BY <1>3, LeastIsLeast
<1>5. PICK j \in T : Least(K) = key(j)
    BY <1>4
<1>6. ASSUME NEW i \in T, ~(recorded[i] <= recorded[j]) PROVE FALSE
  <2>1. recorded[i] \in Nat /\ recorded[j] \in Nat /\ recorded[j] < recorded[i]
      BY <1>1, <1>6
  <2>2. \A x \in T : recorded[x] <= recorded[j] => recorded[x] <= recorded[i]
      BY <1>1, <2>1
  <2>3. U(j) \in SUBSET U(i) /\ i \notin U(j) /\ i \in U(i) /\ U(i) \in SUBSET Recorded
      BY <1>6, <2>1, <2>2
  <2>4. U(j) # U(i)
      BY <2>3
  <2> HIDE DEF U
  <2>5. Cardinality(U(j)) < Cardinality(U(i))
      BY <2>3, <2>4, CountsOf
  <2>6. key(i) < key(j)
      BY <1>1, <1>2, <2>5
  <2>7. key(j) <= key(i)
      BY <1>4, <1>5
  <2> HIDE DEF key
  <2> QED BY <1>2, <2>6, <2>7
<1> QED BY <1>6

(* The latency at position k is well defined. *)
LEMMA RankedIs ==
    ASSUME HistInv, NEW k \in 0 .. total_ - 1
    PROVE  /\ Ranked(k) \in Nanoseconds
           /\ Cardinality(Below(Ranked(k))) <= k
           /\ k < Cardinality(Until(Ranked(k)))
<1> DEFINE C == {v \in Nanoseconds : k < Cardinality(Until(v))}
           v0 == Least(C)
<1>1. recorded \in [Recorded -> Nanoseconds] /\ Nanoseconds \subseteq Nat /\ total_ \in Nat /\ k \in Nat
    BY HistogramAssumption DEF HistInv
<1>2. \A v : Until(v) \in SUBSET Recorded /\ Below(v) \in SUBSET Recorded
    BY DEF Until, Below
<1>3. C # {}
  <2>1. Recorded # {}
      BY <1>1 DEF Recorded
  <2>2. PICK j \in Recorded : \A i \in Recorded : recorded[i] <= recorded[j]
      BY <2>1, LargestOf
  <2>3. Until(recorded[j]) = Recorded
      BY <2>2 DEF Until
  <2>4. Cardinality(Until(recorded[j])) = total_
      BY <2>3, CountsOf
  <2> QED BY <1>1, <2>4
<1>4. v0 \in C /\ \A v \in C : v0 <= v
  <2>1. C \in SUBSET Nat
      BY <1>1
  <2> HIDE DEF C
  <2> QED BY <1>3, <2>1, LeastIsLeast
<1>5. v0 \in Nanoseconds /\ v0 \in Nat /\ k < Cardinality(Until(v0))
    BY <1>1, <1>4
<1> HIDE DEF v0
<1>6. ASSUME k < Cardinality(Below(v0)) PROVE FALSE
  <2>1. Below(v0) # {}
      BY <1>1, <1>6, FS_EmptySet
  <2>2. PICK j \in Below(v0) : \A i \in Below(v0) : recorded[i] <= recorded[j]
      BY <1>2, <2>1, LargestOf
  <2>3. j \in Recorded /\ recorded[j] \in Nat /\ recorded[j] < v0 /\ recorded[j] \in Nanoseconds
      BY <1>1, <2>2 DEF Below
  <2>4. Until(recorded[j]) = Below(v0)
    <3>1. \A i \in Recorded : recorded[i] <= recorded[j] => recorded[i] < v0
      <4>1. \A i \in Recorded : recorded[i] \in Nat
          BY <1>1
      <4>2. \A x, y, z \in Nat : x <= y /\ y < z => x < z
          OBVIOUS
      <4> QED BY <1>5, <2>3, <4>1, <4>2
    <3> QED BY <2>2, <3>1 DEF Until, Below
  <2>5. v0 <= recorded[j]
      BY <1>4, <1>6, <2>3, <2>4
  <2> QED BY <1>5, <2>3, <2>5
<1>7. Cardinality(Below(v0)) <= k
  <2>1. Cardinality(Below(v0)) \in Nat
      BY <1>2, CountsOf
  <2> QED BY <1>1, <1>6, <2>1
<1>8. DOMAIN recorded = Recorded
    BY <1>1
<1>9. Ranked(k) = CHOOSE v \in Nanoseconds : Cardinality(Below(v)) <= k /\ k < Cardinality(Until(v))
    BY <1>8 DEF Ranked, Below, Until
<1> QED BY <1>5, <1>7, <1>9

(***************************************************************************)
(* The first bucket at which the running sum exceeds k is the bucket of    *)
(* the latency at position k.                                              *)
(***************************************************************************)
Over(k) == {i \in Buckets : cum[i] > k}

LEMMA FirstOver ==
    ASSUME HistInv, NEW k \in 0 .. total_ - 1
    PROVE  /\ Over(k) \in SUBSET Nat /\ Over(k) # {}
           /\ Least(Over(k)) = bucket_of(Ranked(k))
<1> DEFINE v == Ranked(k)
           b == bucket_of(v)
<1>1. /\ recorded \in [Recorded -> Nat] /\ total_ \in Nat /\ k \in Nat
      /\ Buckets = 0 .. kBuckets - 1 /\ kBuckets \in Nat \ {0}
  <2>1. recorded \in [Recorded -> Nat]
      BY HistogramAssumption DEF HistInv
  <2>2. total_ \in Nat
      BY DEF HistInv
  <2>3. k \in Nat
      BY <2>2
  <2> QED BY <2>1, <2>2, <2>3, HistogramAssumption DEF Buckets
<1>2. v \in Nat /\ Cardinality(Below(v)) <= k /\ k < Cardinality(Until(v))
    BY RankedIs, HistogramAssumption
<1> HIDE DEF v
<1>3. b \in Buckets /\ b \in Nat
    BY <1>1, <1>2, BucketOf
<1>4. \A i \in Buckets : cum[i] = Cardinality(UpTo(i)) /\ cum[i] \in Nat /\ UpTo(i) \in SUBSET Recorded
  <2>1. \A i \in Buckets : i \in -1 .. kBuckets - 1
      BY <1>1
  <2>2. \A i : UpTo(i) \in SUBSET Recorded
      BY DEF UpTo
  <2> QED BY <2>1, <2>2, CumIs, CountsOf
<1>5. b \in Over(k)
  <2>1. \A j \in Recorded : recorded[j] <= v => bucket_of(recorded[j]) <= b
      BY <1>1, <1>2, BucketOf
  <2>2. Until(v) \in SUBSET UpTo(b)
      BY <2>1 DEF Until, UpTo
  <2>3. Cardinality(Until(v)) <= Cardinality(UpTo(b)) /\ Cardinality(Until(v)) \in Nat
    <3>1. Until(v) \in SUBSET Recorded
        BY DEF Until
    <3> QED BY <1>3, <1>4, <2>2, <3>1, CountsOf
  <2>4. k < cum[b]
      BY <1>1, <1>2, <1>3, <1>4, <2>3
  <2> QED BY <1>1, <1>3, <1>4, <2>4 DEF Over
<1>6. ASSUME NEW i \in Over(k), ~(b <= i) PROVE FALSE
  <2>1. i \in Buckets /\ i \in Nat /\ cum[i] > k
      BY <1>1 DEF Over
  <2>2. ASSUME NEW j \in Recorded, bucket_of(recorded[j]) <= i PROVE recorded[j] < v
    <3>1. recorded[j] \in Nat /\ bucket_of(recorded[j]) \in Nat
        BY <1>1, BucketOf, BucketsNat
    <3>2. v <= recorded[j] => b <= bucket_of(recorded[j])
        BY <1>2, <3>1, BucketOf
    <3> HIDE DEF b
    <3> QED BY <1>2, <1>3, <1>6, <2>1, <2>2, <3>1, <3>2
  <2>3. UpTo(i) \in SUBSET Below(v) /\ Below(v) \in SUBSET Recorded
      BY <2>2 DEF UpTo, Below
  <2>4. Cardinality(UpTo(i)) <= Cardinality(Below(v)) /\ Cardinality(Below(v)) \in Nat
      BY <2>3, CountsOf
  <2> QED BY <1>1, <1>2, <1>4, <2>1, <2>4
<1>7. Over(k) \in SUBSET Nat
    BY <1>1 DEF Over
<1>8. Least(Over(k)) = b
    BY <1>5, <1>6, <1>7, LeastUnique
<1> QED BY <1>5, <1>7, <1>8 DEF v

(* percentile finds that bucket. *)
LEMMA PercentileAt ==
    ASSUME HistInv, NEW num \in Nat, NEW den \in Nat \ {0}, total_ > 0,
           (num * total_) \div den \in 0 .. total_ - 1
    PROVE  LET k == (num * total_) \div den
           IN  percentile(num, den) = Least(Over(k)) /\ Over(k) # {}
<1> DEFINE k == (num * total_) \div den
<1>1. Over(k) # {}
    BY FirstOver
<1>2. total_ # 0
    BY DEF HistInv
<1> QED BY <1>1, <1>2 DEF percentile, Over, Least


(***************************************************************************)
(* For every run of the harness, whatever latencies it measures: p50, p99  *)
(* and p999 are the latencies at positions floor(0.50 * total),            *)
(* floor(0.99 * total) and floor(0.999 * total) of those the benchmark has *)
(* recorded, in increasing order, cut off at the last bucket.              *)
(***************************************************************************)
THEOREM PercentilesAreRanks == HarnessSpec => []PercentileIsRank
<1>1. ASSUME HistInv, total_ > 0
      PROVE  /\ p50 = bucket_of(Ranked((50 * total_) \div 100))
             /\ p99 = bucket_of(Ranked((99 * total_) \div 100))
             /\ p999 = bucket_of(Ranked((999 * total_) \div 1000))
  <2> DEFINE a == (50 * total_) \div 100
             b == (99 * total_) \div 100
             c == (999 * total_) \div 1000
  <2>1. total_ \in Nat
      BY <1>1 DEF HistInv
  <2>2. a \in 0 .. total_ - 1 /\ b \in 0 .. total_ - 1 /\ c \in 0 .. total_ - 1
      BY <1>1, <2>1
  <2>3. p50 = Least(Over(a))
      BY <1>1, <2>2, PercentileAt DEF p50
  <2>4. p99 = Least(Over(b))
      BY <1>1, <2>2, PercentileAt DEF p99
  <2>5. p999 = Least(Over(c))
      BY <1>1, <2>2, PercentileAt DEF p999
  <2> HIDE DEF a, b, c
  <2>6. /\ Least(Over(a)) = bucket_of(Ranked(a))
        /\ Least(Over(b)) = bucket_of(Ranked(b))
        /\ Least(Over(c)) = bucket_of(Ranked(c))
      BY <1>1, <2>2, FirstOver
  <2> QED BY <2>3, <2>4, <2>5, <2>6 DEF a, b, c
<1>2. HistInv => PercentileIsRank
    BY <1>1 DEF PercentileIsRank
<1> QED BY <1>2, HarnessHist, PTL

(* A larger position is not in an earlier bucket. *)
LEMMA OverGrows ==
    ASSUME HistInv, NEW k \in 0 .. total_ - 1, NEW m \in 0 .. total_ - 1, k <= m
    PROVE  Least(Over(k)) <= Least(Over(m))
<1>1. /\ Over(k) \in SUBSET Nat /\ Over(k) # {}
      /\ Over(m) \in SUBSET Nat /\ Over(m) # {}
    BY FirstOver
<1>2. Over(m) \subseteq Over(k)
  <2>1. \A i \in Buckets : cum[i] \in Nat
    <3>1. \A i : UpTo(i) \in SUBSET Recorded
        BY DEF UpTo
    <3>2. \A i \in Buckets : i \in -1 .. kBuckets - 1
        BY HistogramAssumption DEF Buckets
    <3> QED BY <3>1, <3>2, CumIs, CountsOf
  <2>2. k \in Int /\ m \in Int
      BY DEF HistInv
  <2> QED BY <2>1, <2>2 DEF Over
<1>3. Least(Over(m)) \in Over(k)
    BY <1>1, <1>2, LeastIsLeast
<1> QED BY <1>1, <1>3, LeastIsLeast

(***************************************************************************)
(* For every run of the harness: the figures of a row are in order, and    *)
(* none exceeds the largest latency recorded.                              *)
(***************************************************************************)
THEOREM RowsAreOrdered == HarnessSpec => []PrintedInOrder
<1>1. ASSUME HistInv PROVE PrintedInOrder
  <2>1. total_ \in Nat
      BY <1>1 DEF HistInv
  <2>2. CASE total_ = 0
    <3>1. p50 = 0 /\ p99 = 0 /\ p999 = 0
        BY <2>2 DEF p50, p99, p999, percentile
    <3> QED BY <2>2, <3>1 DEF PrintedInOrder
  <2>3. CASE total_ # 0
    <3> DEFINE a == (50 * total_) \div 100
               b == (99 * total_) \div 100
               c == (999 * total_) \div 1000
               d == total_ - 1
    <3>1. /\ total_ > 0
          /\ a \in 0 .. total_ - 1 /\ b \in 0 .. total_ - 1 /\ c \in 0 .. total_ - 1
          /\ d \in 0 .. total_ - 1 /\ a <= b /\ b <= c /\ c <= d
        BY <2>1, <2>3
    <3>2. p50 = Least(Over(a))
        BY <1>1, <3>1, PercentileAt DEF p50
    <3>3. p99 = Least(Over(b))
        BY <1>1, <3>1, PercentileAt DEF p99
    <3>4. p999 = Least(Over(c))
        BY <1>1, <3>1, PercentileAt DEF p999
    <3>5. Least(Over(d)) = bucket_of(Ranked(d))
        BY <1>1, <3>1, FirstOver
    <3> HIDE DEF a, b, c
    <3>6. Least(Over(a)) <= Least(Over(b))
        BY <1>1, <3>1, OverGrows
    <3>7. Least(Over(b)) <= Least(Over(c))
        BY <1>1, <3>1, OverGrows
    <3>8. Least(Over(c)) <= Least(Over(d))
        BY <1>1, <3>1, OverGrows
    <3> QED BY <3>2, <3>3, <3>4, <3>5, <3>6, <3>7, <3>8 DEF PrintedInOrder
  <2> QED BY <2>2, <2>3
<1> QED BY <1>1, HarnessHist, PTL


-----------------------------------------------------------------------------
(***************************************************************************)
(* The messages of a benchmark.                                            *)
(***************************************************************************)

(* The messages of a loop that sends two a turn. *)
Pairs(f, g, n) == [i \in 1 .. n |-> <<f[i], g[i]>>]
Braid(f, g, n) == [j \in 1 .. 2 * n |-> IF j % 2 = 1 THEN f[(j + 1) \div 2] ELSE g[j \div 2]]

LEMMA FlatPairs ==
    ASSUME NEW n \in Nat \ {0}, NEW M, NEW f \in [1 .. n -> M], NEW g \in [1 .. n -> M]
    PROVE  FlattenSeq(Pairs(f, g, n)) = Braid(f, g, n)
<1> USE DEF Pairs, Braid
<1> DEFINE s == [i \in 1 .. n |-> <<f[i], g[i]>>]
           at(j) == IF j % 2 = 1 THEN f[(j + 1) \div 2] ELSE g[j \div 2]
           F == [i \in 1 .. n |-> [j \in 1 .. 2 * i |-> at(j)]]
           Rec(h) == h = [i \in 1 .. n |-> IF i = 1 THEN s[i] ELSE h[i - 1] \o s[i]]
<1>1. s \in Seq(Seq(M)) /\ Len(s) = n /\ \A i \in 1 .. n : s[i] = <<f[i], g[i]>>
    OBVIOUS
<1>2. ASSUME NEW i \in 1 .. n, NEW j \in 1 .. 2 * i PROVE at(j) \in M
  <2>1. j % 2 = 1 => (j + 1) \div 2 \in 1 .. n
      OBVIOUS
  <2>2. j % 2 # 1 => j \div 2 \in 1 .. n
      OBVIOUS
  <2> QED BY <2>1, <2>2
<1>3. ASSUME NEW i \in 1 .. n PROVE F[i] \in Seq(M) /\ Len(F[i]) = 2 * i
    BY <1>2
<1>4. ASSUME NEW i \in 1 .. n
      PROVE  /\ (2 * i - 1) % 2 = 1 /\ ((2 * i - 1) + 1) \div 2 = i
             /\ (2 * i) % 2 # 1 /\ (2 * i) \div 2 = i
    OBVIOUS
<1>5. ASSUME NEW i \in 1 .. n PROVE at(2 * i - 1) = f[i] /\ at(2 * i) = g[i]
    BY <1>4
<1> HIDE DEF at
<1>6. ASSUME NEW i \in 1 .. n PROVE F[i] = IF i = 1 THEN s[i] ELSE F[i - 1] \o s[i]
  <2>1. CASE i = 1
    <3>1. F[i] \in Seq(M) /\ Len(F[i]) = 2 /\ F[i][1] = f[1] /\ F[i][2] = g[1]
      <4>1. at(1) = f[1] /\ at(2) = g[1]
          BY <1>5, <2>1
      <4> QED BY <1>3, <2>1, <4>1
    <3>2. s[i] = <<f[1], g[1]>>
        BY <2>1
    <3> QED BY <2>1, <3>1, <3>2
  <2>2. CASE i # 1
    <3> DEFINE e == <<f[i], g[i]>>
               h == F[i - 1] \o e
    <3>1. i - 1 \in 1 .. n
        BY <2>2
    <3>2. F[i - 1] \in Seq(M) /\ Len(F[i - 1]) = 2 * (i - 1)
        BY <1>3, <3>1
    <3>3. e \in Seq(M) /\ Len(e) = 2 /\ e[1] = f[i] /\ e[2] = g[i]
        OBVIOUS
    <3>4. \A j \in 1 .. 2 * (i - 1) : F[i - 1][j] = at(j)
        BY <3>1
    <3>5. F[i] \in Seq(M) /\ Len(F[i]) = 2 * i /\ \A j \in 1 .. 2 * i : F[i][j] = at(j)
        BY <1>3
    <3> HIDE DEF F, e
    <3>6. /\ h \in Seq(M) /\ Len(h) = 2 * i
          /\ \A j \in 1 .. 2 * i : h[j] = IF j <= 2 * (i - 1) THEN F[i - 1][j] ELSE e[j - 2 * (i - 1)]
      <4>1. /\ h \in Seq(M) /\ Len(h) = Len(F[i - 1]) + Len(e)
            /\ \A j \in 1 .. Len(F[i - 1]) + Len(e) :
                  h[j] = IF j <= Len(F[i - 1]) THEN F[i - 1][j] ELSE e[j - Len(F[i - 1])]
          BY <3>2, <3>3, ConcatProperties
      <4>2. Len(F[i - 1]) + Len(e) = 2 * i
          BY <3>2, <3>3
      <4> HIDE DEF h
      <4> QED BY <4>1, <4>2, <3>2
    <3>7. ASSUME NEW j \in 1 .. 2 * i PROVE h[j] = at(j)
      <4>1. CASE j <= 2 * (i - 1)
        <5>1. j \in 1 .. 2 * (i - 1)
            BY <4>1
        <5> QED BY <5>1, <4>1, <3>4, <3>6
      <4>2. CASE j = 2 * i - 1
        <5>1. j - 2 * (i - 1) = 1 /\ ~(j <= 2 * (i - 1))
            BY <4>2
        <5> QED BY <5>1, <4>2, <3>3, <3>6, <1>5
      <4>3. CASE j = 2 * i
        <5>1. j - 2 * (i - 1) = 2 /\ ~(j <= 2 * (i - 1))
            BY <4>3
        <5> QED BY <5>1, <4>3, <3>3, <3>6, <1>5
      <4>4. j \in Nat /\ i \in Nat /\ j <= 2 * i
          OBVIOUS
      <4>5. j <= 2 * (i - 1) \/ j = 2 * i - 1 \/ j = 2 * i
          BY <4>4
      <4> QED BY <4>1, <4>2, <4>3, <4>5
    <3> HIDE DEF h
    <3>8. h = F[i]
      <4>1. \A j \in 1 .. Len(h) : h[j] = F[i][j]
          BY <3>5, <3>6, <3>7
      <4> QED BY <4>1, <3>5, <3>6, SeqEqual
    <3> QED BY <3>8, <2>2 DEF h, e
  <2> QED BY <2>1, <2>2
<1>7. Rec(F)
  <2>1. F = [i \in 1 .. n |-> F[i]]
      OBVIOUS
  <2> HIDE DEF F
  <2>2. [i \in 1 .. n |-> F[i]] = [i \in 1 .. n |-> IF i = 1 THEN s[i] ELSE F[i - 1] \o s[i]]
      BY <1>6
  <2> QED BY <2>1, <2>2
<1> DEFINE h == CHOOSE x : Rec(x)
<1>8. Rec(h)
  <2> HIDE DEF Rec
  <2> QED BY <1>7
<1>9. \A i \in 1 .. n : h[i] = IF i = 1 THEN s[i] ELSE h[i - 1] \o s[i]
    BY <1>8
<1>10. FlattenSeq(s) = h[n]
  <2>1. Len(s) # 0
      BY <1>1
  <2> QED BY <1>1, <2>1 DEF FlattenSeq
<1> HIDE DEF F, Rec, h
<1>11. ASSUME NEW c \in 1 .. n, h[c] # F[c] PROVE FALSE
  <2> DEFINE Bad == {i \in 1 .. n : h[i] # F[i]}
             m == Least(Bad)
  <2>1. Bad \in SUBSET Nat /\ c \in Bad
      BY <1>11
  <2>2. m \in Bad /\ \A i \in Bad : m <= i
      BY <2>1, LeastIsLeast
  <2>3. m \in 1 .. n /\ h[m] # F[m]
      BY <2>2
  <2>4. m # 1
      BY <2>3, <1>6, <1>9
  <2>5. m - 1 \in 1 .. n /\ ~(m <= m - 1)
      BY <2>3, <2>4
  <2> HIDE DEF m
  <2>6. h[m - 1] = F[m - 1]
      BY <2>2, <2>5
  <2>7. h[m] = h[m - 1] \o s[m] /\ F[m] = F[m - 1] \o s[m]
      BY <2>3, <2>4, <1>6, <1>9
  <2> QED BY <2>3, <2>6, <2>7
<1>12. h[n] = F[n]
    BY <1>11
<1> QED BY <1>10, <1>12 DEF F, at

(* The benchmarks with a book, and those of them with a pool of orders. *)
Booked == {"AddBid", "AddAsk", "BBO", "Delete", "CancelPartial", "Replace_SameLevel"}
Pooled == {"Delete", "CancelPartial"}

(* The references of the warm-up and of the pool. *)
Warm == 1 .. 2 * kWarm
Pool == 2 * kWarm + 1 .. 2 * kWarm + kN

(* The shares that i partial cancels, in turn, have taken from the k-th order of the pool. *)
Taken(k, i) == (i \div kN) + (IF k < i % kN THEN 1 ELSE 0)

WarmOrder(r) ==
    IF r <= kWarm
    THEN [side |-> "B", price |-> kBid - (r % kSpread) * kTick, shares |-> 2 * kLot]
    ELSE [side |-> "S", price |-> kAsk + ((r - kWarm) % kSpread) * kTick, shares |-> 2 * kLot]

PoolOrder(b, i, r) ==
    [side |-> "B", price |-> kBid,
     shares |-> IF b = "Delete" THEN kLot ELSE kBig - Taken(r - (2 * kWarm + 1), i)]

Target == [side |-> "B", price |-> kBid, shares |-> kLot]

(* The live orders of benchmark b after its set-up and i iterations. *)
SteadyAt(b, i, r) ==
    IF b \in Booked /\ r \in Warm THEN WarmOrder(r)
    ELSE IF b \in Pooled /\ r \in Pool THEN PoolOrder(b, i, r)
    ELSE IF b = "Replace_SameLevel" /\ r = ReplaceRef(i) THEN Target
    ELSE nullptr

Steady(b, i) == [r \in Refs |-> SteadyAt(b, i, r)]

(* The set-up: how many messages, and the k-th of them. *)
ScriptLen(b) ==
    (2 * kWarm + 1) + (IF b \in Pooled THEN kN ELSE IF b = "Replace_SameLevel" THEN 1 ELSE 0)

ScriptRef(b, k) ==
    IF k > 2 * kWarm + 1 THEN IF b \in Pooled THEN k - 1 ELSE ReplaceRef(0)
    ELSE IF k % 2 = 0 THEN k \div 2 ELSE kWarm + (k \div 2)

Script(b, k) ==
    IF k = 1 THEN make_sys("O")
    ELSE LET r == ScriptRef(b, k)
             o == SteadyAt(b, 0, r)
         IN  make_add(o.side, o.price, o.shares, r)

LEMMA Numbers ==
    /\ kWarm \in Nat \ {0} /\ kN \in Nat \ {0} /\ kSpread \in Nat \ {0} /\ kTick \in Nat \ {0}
    /\ kBid \in Nat \ {0} /\ kAsk \in Nat \ {0} /\ kGap \in Nat \ {0}
    /\ kLot \in Nat \ {0} /\ kBig \in Nat \ {0} /\ kIter \in Nat
    /\ kSpread <= kWarm /\ kIter <= (kBig - 1) * kN
BY WorkloadAssumption, HarnessSizes, HistogramAssumption DEF kIter

LEMMA WarmBook ==
    /\ Len(warm_book) = 2 * kWarm + 1
    /\ \E M : warm_book \in Seq(M)
    /\ \A b \in Booked : \A k \in 1 .. 2 * kWarm + 1 : warm_book[k] = Script(b, k)
<1> DEFINE n == kWarm
           f == [i \in 1 .. n |-> make_add("B", kBid - (i % kSpread) * kTick, 2 * kLot, i)]
           g == [i \in 1 .. n |-> make_add("S", kAsk + (i % kSpread) * kTick, 2 * kLot, AskRef(i))]
           M == {f[i] : i \in 1 .. n} \cup {g[i] : i \in 1 .. n} \cup {make_sys("O")}
           F == Braid(f, g, n)
           e == <<make_sys("O")>>
<1>0. n \in Nat \ {0} /\ kSpread \in Nat \ {0}
    BY Numbers
<1>1. f \in [1 .. n -> M] /\ g \in [1 .. n -> M] /\ make_sys("O") \in M
    OBVIOUS
<1>2. warm_book = e \o FlattenSeq(Pairs(f, g, n))
  <2>1. Pairs(f, g, n) =
          [i \in 1 .. kWarm |->
             <<make_add("B", kBid - (i % kSpread) * kTick, 2 * kLot, i),
               make_add("S", kAsk + (i % kSpread) * kTick, 2 * kLot, AskRef(i))>>]
      BY DEF Pairs
  <2> QED BY <2>1 DEF warm_book
<1>3. ASSUME NEW i \in 1 .. n
      PROVE  /\ f[i] = make_add("B", kBid - (i % kSpread) * kTick, 2 * kLot, i)
             /\ g[i] = make_add("S", kAsk + (i % kSpread) * kTick, 2 * kLot, kWarm + i)
    BY DEF AskRef
<1> HIDE DEF f, g, M
<1>4. warm_book = e \o F
  <2>1. FlattenSeq(Pairs(f, g, n)) = F
      BY <1>0, <1>1, FlatPairs
  <2> QED BY <2>1, <1>2
<1>5. F \in Seq(M) /\ Len(F) = 2 * n
  <2>1. ASSUME NEW j \in 1 .. 2 * n PROVE (IF j % 2 = 1 THEN f[(j + 1) \div 2] ELSE g[j \div 2]) \in M
    <3>1. j % 2 = 1 => (j + 1) \div 2 \in 1 .. n
        BY <1>0
    <3>2. j % 2 # 1 => j \div 2 \in 1 .. n
        BY <1>0
    <3> QED BY <3>1, <3>2, <1>1
  <2> QED BY <2>1, <1>0 DEF Braid
<1>6. e \in Seq(M) /\ Len(e) = 1 /\ e[1] = make_sys("O")
    BY <1>1
<1>F. \A j \in 1 .. 2 * n : F[j] = IF j % 2 = 1 THEN f[(j + 1) \div 2] ELSE g[j \div 2]
    BY DEF Braid
<1> HIDE DEF e, F
<1>7. /\ warm_book \in Seq(M) /\ Len(warm_book) = 1 + 2 * n
      /\ \A k \in 1 .. 1 + 2 * n : warm_book[k] = IF k <= 1 THEN e[k] ELSE F[k - 1]
  <2>1. /\ e \o F \in Seq(M) /\ Len(e \o F) = Len(e) + Len(F)
        /\ \A k \in 1 .. Len(e) + Len(F) :
              (e \o F)[k] = IF k <= Len(e) THEN e[k] ELSE F[k - Len(e)]
      BY <1>5, <1>6, ConcatProperties
  <2> QED BY <2>1, <1>4, <1>5, <1>6
<1>8. ASSUME NEW b \in Booked, NEW k \in 1 .. 2 * n + 1 PROVE warm_book[k] = Script(b, k)
  <2>1. CASE k = 1
    <3>1. k \in 1 .. 1 + 2 * n /\ k <= 1
        BY <2>1, <1>0
    <3>2. warm_book[k] = e[1]
        BY <3>1, <2>1, <1>7
    <3> QED BY <3>2, <2>1, <1>6 DEF Script
  <2>2. CASE k # 1 /\ k % 2 = 0
    <3> DEFINE i == k \div 2
    <3>1. i \in 1 .. n /\ k - 1 \in 1 .. 2 * n /\ (k - 1) % 2 = 1 /\ ((k - 1) + 1) \div 2 = i
        BY <2>2, <1>0
    <3>2. ScriptRef(b, k) = i /\ i \in Warm /\ i <= kWarm
        BY <2>2, <3>1, <1>0 DEF ScriptRef, Warm
    <3>3. warm_book[k] = f[i]
      <4>1. warm_book[k] = F[k - 1]
          BY <2>2, <1>0, <1>7
      <4> QED BY <4>1, <3>1, <1>F
    <3> HIDE DEF i
    <3>4. SteadyAt(b, 0, i) = [side |-> "B", price |-> kBid - (i % kSpread) * kTick, shares |-> 2 * kLot]
        BY <3>2 DEF SteadyAt, WarmOrder
    <3> QED BY <2>2, <3>1, <3>2, <3>3, <3>4, <1>3 DEF Script
  <2>3. CASE k # 1 /\ k % 2 # 0
    <3> DEFINE i == k \div 2
               r == kWarm + i
    <3>1. i \in 1 .. n /\ k - 1 \in 1 .. 2 * n /\ (k - 1) % 2 # 1 /\ (k - 1) \div 2 = i
        BY <2>3, <1>0
    <3>2. ScriptRef(b, k) = r /\ r \in Warm /\ ~(r <= kWarm) /\ r - kWarm = i
        BY <2>3, <3>1, <1>0 DEF ScriptRef, Warm
    <3>3. warm_book[k] = g[i]
      <4>1. warm_book[k] = F[k - 1]
          BY <2>3, <1>0, <1>7
      <4> QED BY <4>1, <3>1, <1>F
    <3> HIDE DEF i
    <3>4. g[i] = make_add("S", kAsk + (i % kSpread) * kTick, 2 * kLot, r)
        BY <3>1, <1>3
    <3> HIDE DEF r
    <3>5. SteadyAt(b, 0, r) = [side |-> "S", price |-> kAsk + (i % kSpread) * kTick, shares |-> 2 * kLot]
        BY <3>2 DEF SteadyAt, WarmOrder
    <3> QED BY <2>3, <3>2, <3>3, <3>4, <3>5 DEF Script
  <2> QED BY <2>1, <2>2, <2>3
<1>9. 1 + 2 * n = 2 * n + 1
    BY <1>0
<1> QED BY <1>7, <1>8, <1>9

(* The references of a benchmark are the feed's, and no two of its uses meet. *)
LEMMA RefFacts ==
    /\ Warm \subseteq Refs /\ Pool \subseteq Refs /\ Warm \cap Pool = {}
    /\ \A i \in 0 .. kIter : /\ AddRef(i) \in Refs /\ AddRef(i) \notin Warm /\ AddRef(i) \notin Pool
                             /\ ReplaceRef(i) \in Refs /\ ReplaceRef(i) \notin Warm
                             /\ ReplaceRef(i) \notin Pool /\ ReplaceRef(i) \in Nat
    /\ \A i, j \in 0 .. kIter : ReplaceRef(i) = ReplaceRef(j) => i = j
<1>1. /\ kWarm \in Nat /\ kN \in Nat /\ kGap \in Nat /\ kIter \in Nat
      /\ 1 .. 2 * kWarm + kN + 1 + (kGap + kIter) \subseteq Refs
    BY Numbers, HarnessSizes DEF AddRef
<1>2. \A i \in 0 .. kIter : AddRef(i) = 2 * kWarm + kN + 1 + i
    BY DEF AddRef
<1>3. \A i \in 0 .. kIter : ReplaceRef(i) = 2 * kWarm + kN + 1 + (kGap + i)
    BY DEF AddRef, ReplaceRef
<1>4. Warm \subseteq Refs /\ Pool \subseteq Refs /\ Warm \cap Pool = {}
    BY <1>1 DEF Warm, Pool
<1>5. ASSUME NEW i \in 0 .. kIter
      PROVE  /\ AddRef(i) \in Refs /\ AddRef(i) \notin Warm /\ AddRef(i) \notin Pool
             /\ ReplaceRef(i) \in Refs /\ ReplaceRef(i) \notin Warm
             /\ ReplaceRef(i) \notin Pool /\ ReplaceRef(i) \in Nat
  <2>1. /\ AddRef(i) \in Nat /\ AddRef(i) > 2 * kWarm + kN
        /\ AddRef(i) <= 2 * kWarm + kN + 1 + (kGap + kIter)
      BY <1>1, <1>2
  <2>2. /\ ReplaceRef(i) \in Nat /\ ReplaceRef(i) > 2 * kWarm + kN
        /\ ReplaceRef(i) <= 2 * kWarm + kN + 1 + (kGap + kIter)
      BY <1>1, <1>3
  <2>3. \A x \in Nat : /\ x > 2 * kWarm + kN => x \notin Warm /\ x \notin Pool
                       /\ x > 0 /\ x <= 2 * kWarm + kN + 1 + (kGap + kIter) => x \in Refs
      BY <1>1 DEF Warm, Pool
  <2>4. AddRef(i) > 0 /\ ReplaceRef(i) > 0
      BY <2>1, <2>2, <1>1
  <2> QED BY <2>1, <2>2, <2>3, <2>4
<1>6. \A i, j \in 0 .. kIter : ReplaceRef(i) = ReplaceRef(j) => i = j
    BY <1>1, <1>3
<1> QED BY <1>4, <1>5, <1>6

(* The cursor stays in the pool. *)
LEMMA CursorInPool ==
    ASSUME NEW i \in Nat
    PROVE  PoolRef(i) \in Pool /\ PoolRef(i) - (2 * kWarm + 1) = i % kN
<1>1. i % kN \in 0 .. kN - 1 /\ kWarm \in Nat /\ kN \in Nat \ {0}
    BY Numbers
<1> DEFINE x == i % kN
<1>2. PoolRef(i) = 2 * kWarm + 1 + x
    BY DEF PoolRef
<1> HIDE DEF x
<1> QED BY <1>1, <1>2 DEF Pool, x

(* A set-up sends its script. *)
LEMMA SetupIs ==
    ASSUME NEW b \in Booked
    PROVE  /\ \E M : Setup(b) \in Seq(M)
           /\ Len(Setup(b)) = ScriptLen(b)
           /\ \A k \in 1 .. ScriptLen(b) : Setup(b)[k] = Script(b, k)
<1> DEFINE w == 2 * kWarm + 1
           q == IF b = "Delete" THEN kLot ELSE kBig
           ext == IF b \in Pooled THEN pool(q)
                  ELSE IF b = "Replace_SameLevel" THEN <<make_add("B", kBid, kLot, ReplaceRef(0))>>
                  ELSE <<>>
           E == {ext[j] : j \in 1 .. Len(ext)}
<1>0. kWarm \in Nat \ {0} /\ kN \in Nat \ {0} /\ kLot \in Nat /\ kBig \in Nat /\ w \in Nat
    BY Numbers
<1>1. PICK M : warm_book \in Seq(M)
    BY WarmBook
<1>2. Setup(b) = warm_book \o ext
    BY DEF Setup, Booked, Pooled
<1>3. /\ ext \in Seq(E) /\ Len(ext) = ScriptLen(b) - w
      /\ \A j \in 1 .. Len(ext) : ext[j] = Script(b, w + j)
  <2>1. CASE b \in Pooled
    <3>1. ext = pool(q)
        BY <2>1
    <3>2. /\ ext \in [1 .. kN -> E] /\ Len(ext) = kN
          /\ \A j \in 1 .. kN : ext[j] = make_add("B", kBid, q, PoolRef(j - 1))
      <4> HIDE DEF ext, q
      <4>1. ext = [k \in 1 .. kN |-> make_add("B", kBid, q, PoolRef(k - 1))]
          BY <3>1 DEF pool
      <4>2. Len(ext) = kN
          BY <4>1, <1>0
      <4> QED BY <4>1, <4>2
    <3>3. ASSUME NEW j \in 1 .. kN PROVE ext[j] = Script(b, w + j)
      <4> DEFINE r == 2 * kWarm + j
      <4>1. j - 1 \in Nat /\ (j - 1) % kN = j - 1
        <5>1. j - 1 \in 0 .. kN - 1
            BY <1>0
        <5> QED BY <5>1, <1>0
      <4>2. PoolRef(j - 1) = r
        <5>1. PoolRef(j - 1) = 2 * kWarm + 1 + (j - 1)
            BY <4>1 DEF PoolRef
        <5> QED BY <5>1, <1>0
      <4>3. ScriptRef(b, w + j) = r /\ w + j # 1
          BY <2>1, <1>0 DEF ScriptRef
      <4>4. r \in Pool /\ r \notin Warm
          BY <1>0 DEF Pool, Warm
      <4>5. Taken(r - (2 * kWarm + 1), 0) = 0
        <5>1. 0 \div kN = 0 /\ 0 % kN = 0
            BY <1>0
        <5>2. ~(r - (2 * kWarm + 1) < 0)
            BY <1>0
        <5> QED BY <5>1, <5>2 DEF Taken
      <4> HIDE DEF r
      <4>6. SteadyAt(b, 0, r) = [side |-> "B", price |-> kBid, shares |-> q]
          BY <4>4, <4>5, <2>1, <1>0 DEF SteadyAt, PoolOrder, Pooled
      <4>7. Script(b, w + j) = make_add("B", kBid, q, r)
        <5> HIDE DEF q, w
        <5> QED BY <4>3, <4>6 DEF Script
      <4> QED BY <4>2, <4>7, <3>2
    <3>4. ScriptLen(b) - w = kN
        BY <2>1, <1>0 DEF ScriptLen
    <3> HIDE DEF ext, E, w
    <3> QED BY <3>2, <3>3, <3>4, <1>0
  <2>2. CASE b = "Replace_SameLevel"
    <3>1. b \notin Pooled
        BY <2>2 DEF Pooled
    <3>2. ext = <<make_add("B", kBid, kLot, ReplaceRef(0))>> /\ Len(ext) = 1
        BY <2>2, <3>1
    <3>3. ScriptLen(b) - w = 1
        BY <2>2, <3>1, <1>0 DEF ScriptLen
    <3>4. Script(b, w + 1) = make_add("B", kBid, kLot, ReplaceRef(0))
      <4>1. ScriptRef(b, w + 1) = ReplaceRef(0) /\ w + 1 # 1
          BY <3>1, <1>0 DEF ScriptRef
      <4>2. SteadyAt(b, 0, ReplaceRef(0)) = Target
        <5>1. 0 \in 0 .. kIter
            BY Numbers
        <5>2. ReplaceRef(0) \notin Warm
            BY <5>1, RefFacts
        <5> QED BY <5>2, <2>2, <3>1 DEF SteadyAt
      <4> HIDE DEF w
      <4> QED BY <4>1, <4>2 DEF Script, Target
    <3>5. ext[1] = Script(b, w + 1)
        BY <3>2, <3>4
    <3> DEFINE x == make_add("B", kBid, kLot, ReplaceRef(0))
    <3> HIDE DEF w, ext, x
    <3>6. ext = <<x>>
        BY <3>2 DEF x
    <3>7. x \in E /\ E = {x}
        BY <3>2, <3>6
    <3> HIDE DEF E
    <3>8. ext \in Seq(E)
        BY <3>6, <3>7
    <3>9. \A j \in 1 .. Len(ext) : j = 1
        BY <3>2
    <3> QED BY <3>2, <3>3, <3>5, <3>8, <3>9
  <2>3. CASE b \notin Pooled /\ b # "Replace_SameLevel"
    <3>1. ext = <<>> /\ Len(ext) = 0
        BY <2>3
    <3>2. ScriptLen(b) - w = 0
        BY <2>3, <1>0 DEF ScriptLen
    <3> HIDE DEF ext, E, w
    <3>3. ext \in Seq(E) /\ 1 .. Len(ext) = {}
        BY <3>1
    <3> QED BY <3>1, <3>2, <3>3
  <2> QED BY <2>1, <2>2, <2>3
<1> DEFINE U == M \cup E
<1> HIDE DEF ext, E, q
<1>4. warm_book \in Seq(U) /\ ext \in Seq(U)
    BY <1>1, <1>3
<1> HIDE DEF U
<1>5. /\ Setup(b) \in Seq(U) /\ Len(Setup(b)) = Len(warm_book) + Len(ext)
      /\ \A k \in 1 .. Len(warm_book) + Len(ext) :
            Setup(b)[k] = IF k <= Len(warm_book) THEN warm_book[k] ELSE ext[k - Len(warm_book)]
    BY <1>2, <1>4, ConcatProperties
<1>6. Len(warm_book) = w /\ \A k \in 1 .. w : warm_book[k] = Script(b, k)
    BY WarmBook
<1> HIDE DEF w
<1>7. ScriptLen(b) \in Nat /\ Len(ext) \in Nat
    BY <1>0, Numbers DEF ScriptLen
<1>8. Len(warm_book) + Len(ext) = ScriptLen(b)
    BY <1>0, <1>3, <1>6, <1>7
<1>9. ASSUME NEW k \in 1 .. ScriptLen(b) PROVE Setup(b)[k] = Script(b, k)
  <2>1. CASE k <= w
    <3>1. k \in 1 .. w
        BY <2>1, <1>0, <1>7
    <3>2. Setup(b)[k] = warm_book[k]
        BY <2>1, <1>5, <1>6, <1>8
    <3> QED BY <3>1, <3>2, <1>6
  <2>2. CASE ~(k <= w)
    <3> DEFINE n == Len(ext)
               L == ScriptLen(b)
    <3>1. n \in Nat /\ L \in Nat /\ w + n = L /\ k \in 1 .. L
        BY <1>6, <1>7, <1>8
    <3> HIDE DEF n, L
    <3>2. k - w \in 1 .. n /\ w + (k - w) = k
        BY <2>2, <3>1, <1>0
    <3> USE DEF n, L
    <3>3. Setup(b)[k] = ext[k - w]
        BY <2>2, <1>5, <1>6, <1>8
    <3> QED BY <3>2, <3>3, <1>3
  <2> QED BY <2>1, <2>2
<1> QED BY <1>5, <1>8, <1>9

(* The partial cancels go round the pool and never take an order's last share. *)
LEMMA NextQuotient ==
    ASSUME NEW n \in Nat \ {0}, NEW i \in Nat
    PROVE  IF (i % n) + 1 < n
           THEN (i + 1) \div n = i \div n /\ (i + 1) % n = (i % n) + 1
           ELSE (i + 1) \div n = (i \div n) + 1 /\ (i + 1) % n = 0
<1> DEFINE q == i \div n
           m == i % n
           x == (i + 1) \div n
           y == (i + 1) % n
<1>1. q \in Int /\ m \in 0 .. n - 1 /\ i = n * q + m
    BY Euclid
<1>2. x \in Int /\ y \in 0 .. n - 1 /\ i + 1 = n * x + y
    BY Euclid
<1> HIDE DEF q, m, x, y
<1>3. n * q \in Int /\ n * x \in Int
    BY <1>1, <1>2
<1>4. n * (x - q) = n * x - n * q
    BY <1>1, <1>2
<1>5. n * (x - q) = m + 1 - y
    BY <1>1, <1>2, <1>3, <1>4
<1>6. CASE m + 1 < n
  <2>1. x - q = 0
    <3>1. n * (x - q) < n /\ -n < n * (x - q)
        BY <1>1, <1>2, <1>5, <1>6
    <3> QED BY <3>1, <1>1, <1>2, SmallMultiple
  <2>2. y = m + 1
      BY <2>1, <1>1, <1>2, <1>5
  <2> QED BY <1>1, <1>2, <1>6, <2>1, <2>2 DEF q, m, x, y
<1>7. CASE ~(m + 1 < n)
  <2>1. n * (x - q - 1) = n * (x - q) - n
      BY <1>1, <1>2
  <2>2. m + 1 = n /\ n * (x - q - 1) = -y
      BY <2>1, <1>1, <1>2, <1>5, <1>7
  <2>3. x - q - 1 = 0
    <3>1. n * (x - q - 1) < n /\ -n < n * (x - q - 1)
        BY <2>2, <1>1, <1>2
    <3> QED BY <3>1, <1>1, <1>2, SmallMultiple
  <2>4. y = 0
      BY <2>2, <2>3, <1>2
  <2> QED BY <1>1, <1>2, <1>7, <2>3, <2>4 DEF q, m, x, y
<1> QED BY <1>6, <1>7 DEF m

LEMMA TakenStep ==
    ASSUME NEW i \in Nat, NEW k \in 0 .. kN - 1
    PROVE  Taken(k, i + 1) = Taken(k, i) + (IF k = i % kN THEN 1 ELSE 0)
<1> DEFINE q == i \div kN
           m == i % kN
<1>1. kN \in Nat \ {0} /\ q \in Int /\ m \in 0 .. kN - 1
    BY Numbers, Euclid
<1>2. IF m + 1 < kN THEN (i + 1) \div kN = q /\ (i + 1) % kN = m + 1
                    ELSE (i + 1) \div kN = q + 1 /\ (i + 1) % kN = 0
    BY <1>1, NextQuotient
<1>3. Taken(k, i) = q + (IF k < m THEN 1 ELSE 0)
    BY DEF Taken
<1> DEFINE x == (i + 1) \div kN
           y == (i + 1) % kN
<1>4. Taken(k, i + 1) = x + (IF k < y THEN 1 ELSE 0)
    BY DEF Taken
<1> HIDE DEF q, m, x, y
<1>5. IF m + 1 < kN THEN x = q /\ y = m + 1 ELSE x = q + 1 /\ y = 0
    BY <1>2 DEF q, m, x, y
<1>6. Taken(k, i + 1) = Taken(k, i) + (IF k = m THEN 1 ELSE 0)
    BY <1>1, <1>3, <1>4, <1>5
<1> QED BY <1>6 DEF m

LEMMA TakenBound ==
    ASSUME NEW i \in 0 .. kIter, NEW k \in 0 .. kN - 1
    PROVE  /\ Taken(k, i) \in 0 .. kBig - 1
           /\ i < kIter /\ k = i % kN => Taken(k, i) < kBig - 1
<1> DEFINE q == i \div kN
           m == i % kN
           c == kBig - 1
<1>1. /\ kN \in Nat \ {0} /\ kIter \in Nat /\ i \in Nat /\ c \in Nat
      /\ q \in Int /\ m \in 0 .. kN - 1 /\ i = kN * q + m /\ kIter <= c * kN
  <2>1. kN \in Nat \ {0} /\ kIter \in Nat /\ i \in Nat /\ c \in Nat /\ kIter <= c * kN
      BY Numbers
  <2>2. i \in Int
      BY <2>1
  <2>3. i \div kN \in Int /\ i % kN \in 0 .. kN - 1 /\ i = kN * (i \div kN) + (i % kN)
      BY <2>1, <2>2, Euclid
  <2> HIDE DEF c
  <2> QED BY <2>1, <2>3
<1>2. Taken(k, i) = q + (IF k < m THEN 1 ELSE 0)
    BY DEF Taken
<1> HIDE DEF q, m, c
<1>3. q >= 0
  <2>1. ASSUME q < 0 PROVE FALSE
    <3>1. kN * q <= -kN
        BY <2>1, <1>1
    <3>2. kN * q \in Int
        BY <1>1
    <3> QED BY <3>1, <3>2, <1>1
  <2> QED BY <2>1, <1>1
<1>4. /\ q <= c
      /\ q = c => m = 0 /\ i = kIter
  <2>1. kN * q \in Int /\ c * kN \in Int /\ kN * q + m <= c * kN /\ kN * q + m <= kIter
      BY <1>1
  <2>2. ASSUME q > c PROVE FALSE
    <3> DEFINE d == q - (c + 1)
    <3>0. d \in Nat /\ q = c + 1 + d
        BY <2>2, <1>1
    <3> HIDE DEF d
    <3>1. kN * q >= kN * (c + 1)
      <4>1. kN * q = kN * (c + 1) + kN * d /\ kN * d >= 0
          BY <3>0, <1>1
      <4>2. kN * (c + 1) \in Int /\ kN * d \in Int
          BY <3>0, <1>1
      <4> QED BY <4>1, <4>2
    <3>2. kN * (c + 1) = c * kN + kN
        BY <1>1
    <3> QED BY <2>1, <3>1, <3>2, <1>1
  <2>3. ASSUME q = c PROVE m = 0 /\ i = kIter
    <3>1. kN * q = c * kN
        BY <2>3, <1>1
    <3> QED BY <2>1, <3>1, <1>1
  <2> QED BY <2>2, <2>3, <1>1
<1>5. ASSUME k < m PROVE q < c
    BY <1>1, <1>4, <1>5
<1>6. Taken(k, i) \in 0 .. c
    BY <1>1, <1>2, <1>3, <1>4, <1>5
<1>7. ASSUME i < kIter, k = m PROVE Taken(k, i) < c
    BY <1>1, <1>2, <1>4, <1>7
<1> QED BY <1>6, <1>7 DEF m, c

(* The orders of a benchmark: their prices and shares. *)
LEMMA RestingIsNot == nullptr \notin Resting
<1>1. Resting \subseteq [side : Side, price : Prices \cup {0}, shares : 0 .. W32 - 1]
    BY DEF Resting
<1> QED BY <1>1, NullAssumption

LEMMA GoodPrice ==
    /\ \A p \in WarmPrices : p \in Prices \ {0} /\ p \in Nat /\ p > 0
    /\ kBid \in WarmPrices /\ kAsk \in WarmPrices
    /\ \A i \in Nat : /\ kBid - (i % kSpread) * kTick \in WarmPrices
                      /\ kBid - (i % kSpread) * kTick <= kBid
                      /\ kAsk + (i % kSpread) * kTick \in WarmPrices
                      /\ kAsk + (i % kSpread) * kTick >= kAsk
<1>1. \A p \in WarmPrices : p \in Prices \ {0} /\ p \in Nat /\ p > 0
    BY HarnessSizes, BookAssumption, WidthAssumption
<1>2. kSpread \in Nat \ {0} /\ kTick \in Nat /\ kBid \in Nat /\ kAsk \in Nat
    BY Numbers
<1>3. ASSUME NEW k \in 0 .. kSpread - 1
      PROVE  /\ kBid - k * kTick \in WarmPrices /\ kAsk + k * kTick \in WarmPrices
             /\ kBid - k * kTick <= kBid /\ kAsk + k * kTick >= kAsk
  <2>1. k * kTick \in Nat
      BY <1>2
  <2> QED BY <2>1, <1>2 DEF WarmPrices
<1>4. kBid - 0 * kTick = kBid /\ kAsk + 0 * kTick = kAsk /\ 0 \in 0 .. kSpread - 1
    BY <1>2
<1>5. \A i \in Nat : i % kSpread \in 0 .. kSpread - 1
    BY <1>2
<1>6. kBid \in WarmPrices /\ kAsk \in WarmPrices
    BY <1>3, <1>4
<1> QED BY <1>1, <1>3, <1>5, <1>6

(* Prices of a side's orders: at the best price or behind it. *)
SidePrices(s) ==
    {p \in WarmPrices : IF s = "B" THEN p <= kBid ELSE p >= kAsk}

LEMMA GoodOrders ==
    /\ \A r \in Warm : /\ WarmOrder(r) \in Resting
                       /\ WarmOrder(r).price \in SidePrices(WarmOrder(r).side)
                       /\ WarmOrder(r).shares \in Quantities
    /\ \A b \in Pooled, i \in 0 .. kIter, r \in Pool :
                       /\ PoolOrder(b, i, r) \in Resting
                       /\ PoolOrder(b, i, r).price \in SidePrices("B")
    /\ Target \in Resting /\ Target.price \in SidePrices("B") /\ Target.shares \in Quantities
<1>0. /\ kWarm \in Nat /\ kN \in Nat \ {0} /\ kBid \in Nat /\ kLot \in Nat \ {0} /\ kBig \in Nat \ {0}
      /\ kLot \in Quantities /\ 2 * kLot \in Quantities /\ kBig \in Quantities
      /\ W32 \in Nat /\ Quantities \subseteq 0 .. W32 - 1
    BY Numbers, HarnessSizes, BookAssumption, WidthAssumption
<1>1. 2 * kLot \in 1 .. W32 - 1 /\ kLot \in 1 .. W32 - 1 /\ kBig \in 1 .. W32 - 1
    BY <1>0
<1>2. "B" \in Side /\ "S" \in Side
    BY DEF Side
<1>3. ASSUME NEW r \in Warm
      PROVE  /\ WarmOrder(r) \in Resting
             /\ WarmOrder(r).price \in SidePrices(WarmOrder(r).side)
             /\ WarmOrder(r).shares \in Quantities
  <2>1. r \in Nat /\ (~(r <= kWarm) => r - kWarm \in Nat)
      BY <1>0 DEF Warm
  <2>2. CASE r <= kWarm
    <3> DEFINE p == kBid - (r % kSpread) * kTick
    <3>1. p \in WarmPrices /\ p <= kBid /\ p \in Prices \ {0}
        BY <2>1, GoodPrice
    <3>2. WarmOrder(r) = [side |-> "B", price |-> p, shares |-> 2 * kLot]
        BY <2>2 DEF WarmOrder
    <3> HIDE DEF p
    <3> QED BY <3>1, <3>2, <1>0, <1>1, <1>2 DEF Resting, SidePrices
  <2>3. CASE ~(r <= kWarm)
    <3> DEFINE p == kAsk + ((r - kWarm) % kSpread) * kTick
    <3>1. p \in WarmPrices /\ p >= kAsk /\ p \in Prices \ {0}
        BY <2>1, <2>3, GoodPrice
    <3>2. WarmOrder(r) = [side |-> "S", price |-> p, shares |-> 2 * kLot]
        BY <2>3 DEF WarmOrder
    <3> HIDE DEF p
    <3> QED BY <3>1, <3>2, <1>0, <1>1, <1>2 DEF Resting, SidePrices
  <2> QED BY <2>2, <2>3
<1>4. kBid \in SidePrices("B") /\ kBid \in Prices \ {0}
    BY <1>0, GoodPrice DEF SidePrices
<1>5. ASSUME NEW b \in Pooled, NEW i \in 0 .. kIter, NEW r \in Pool
      PROVE  PoolOrder(b, i, r) \in Resting /\ PoolOrder(b, i, r).price \in SidePrices("B")
  <2> DEFINE k == r - (2 * kWarm + 1)
             q == IF b = "Delete" THEN kLot ELSE kBig - Taken(k, i)
  <2>1. k \in 0 .. kN - 1
      BY <1>0 DEF Pool
  <2>2. Taken(k, i) \in 0 .. kBig - 1
    <3> HIDE DEF k
    <3> QED BY <2>1, TakenBound
  <2>3. q \in 1 .. W32 - 1
    <3> HIDE DEF k
    <3> QED BY <2>2, <1>0, <1>1
  <2>4. PoolOrder(b, i, r) = [side |-> "B", price |-> kBid, shares |-> q]
      BY DEF PoolOrder
  <2> HIDE DEF q
  <2> QED BY <2>3, <2>4, <1>2, <1>4 DEF Resting
<1>6. Target \in Resting /\ Target.price \in SidePrices("B") /\ Target.shares \in Quantities
    BY <1>0, <1>1, <1>2, <1>4 DEF Target, Resting
<1> QED BY <1>3, <1>5, <1>6

(* The references live after i iterations. *)
LiveSet(b, i) ==
    IF b \notin Booked THEN {}
    ELSE Warm \cup (IF b \in Pooled THEN Pool
                    ELSE IF b = "Replace_SameLevel" THEN {ReplaceRef(i)} ELSE {})

LEMMA SteadyOrder ==
    ASSUME NEW b, NEW i \in 0 .. kIter, NEW r
    PROVE  /\ r \in LiveSet(b, i) => /\ SteadyAt(b, i, r) \in Resting
                                     /\ SteadyAt(b, i, r) # nullptr
                                     /\ SteadyAt(b, i, r).price \in SidePrices(SteadyAt(b, i, r).side)
           /\ r \notin LiveSet(b, i) => SteadyAt(b, i, r) = nullptr
<1>1. Pooled \subseteq Booked /\ "Replace_SameLevel" \in Booked /\ "Replace_SameLevel" \notin Pooled
    BY DEF Pooled, Booked
<1>2. CASE b \in Booked /\ r \in Warm
  <2>1. SteadyAt(b, i, r) = WarmOrder(r) /\ r \in LiveSet(b, i)
      BY <1>2 DEF SteadyAt, LiveSet
  <2> QED BY <2>1, <1>2, GoodOrders, RestingIsNot
<1>3. CASE b \in Pooled /\ r \in Pool /\ r \notin Warm
  <2>1. SteadyAt(b, i, r) = PoolOrder(b, i, r) /\ r \in LiveSet(b, i)
      BY <1>1, <1>3 DEF SteadyAt, LiveSet
  <2>2. PoolOrder(b, i, r).side = "B"
      BY DEF PoolOrder
  <2> QED BY <2>1, <2>2, <1>3, GoodOrders, RestingIsNot
<1>4. CASE b = "Replace_SameLevel" /\ r = ReplaceRef(i) /\ r \notin Warm
  <2>1. SteadyAt(b, i, r) = Target /\ r \in LiveSet(b, i)
      BY <1>1, <1>4 DEF SteadyAt, LiveSet
  <2>2. Target.side = "B"
      BY DEF Target
  <2> QED BY <2>1, <2>2, GoodOrders, RestingIsNot
<1>5. CASE r \notin LiveSet(b, i)
    BY <1>1, <1>5 DEF SteadyAt, LiveSet
<1> QED BY <1>1, <1>2, <1>3, <1>4, <1>5 DEF LiveSet

(* Where in the script a reference is added. *)
Pos(b, r) ==
    IF r \in Warm THEN IF r <= kWarm THEN 2 * r ELSE 2 * (r - kWarm) + 1
    ELSE IF b \in Pooled THEN r + 1 ELSE 2 * kWarm + 2

LEMMA ScriptRefs ==
    ASSUME NEW b \in Booked
    PROVE  /\ \A k \in 2 .. ScriptLen(b) :
                 ScriptRef(b, k) \in LiveSet(b, 0) /\ Pos(b, ScriptRef(b, k)) = k
           /\ \A r \in LiveSet(b, 0) :
                 Pos(b, r) \in 2 .. ScriptLen(b) /\ ScriptRef(b, Pos(b, r)) = r
<1>0. kWarm \in Nat \ {0} /\ kN \in Nat \ {0} /\ 0 \in 0 .. kIter
    BY Numbers
<1>1. /\ ReplaceRef(0) \notin Warm /\ ReplaceRef(0) \in Nat
      /\ Pooled \subseteq Booked /\ "Replace_SameLevel" \notin Pooled
    BY <1>0, RefFacts DEF Pooled, Booked
<1>2. ASSUME NEW k \in 2 .. ScriptLen(b)
      PROVE  ScriptRef(b, k) \in LiveSet(b, 0) /\ Pos(b, ScriptRef(b, k)) = k
  <2>0. k \in Nat /\ k >= 2
      BY <1>0 DEF ScriptLen
  <2>1. CASE k > 2 * kWarm + 1 /\ b \in Pooled
    <3>1. k <= 2 * kWarm + 1 + kN
        BY <2>1, <1>0 DEF ScriptLen
    <3>2. ScriptRef(b, k) = k - 1 /\ k - 1 \in Pool /\ k - 1 \notin Warm
        BY <2>0, <2>1, <3>1, <1>0 DEF ScriptRef, Pool, Warm
    <3> QED BY <2>0, <2>1, <3>2, <1>0, <1>1 DEF Pos, LiveSet
  <2>2. CASE k > 2 * kWarm + 1 /\ b \notin Pooled
    <3>1. b = "Replace_SameLevel" /\ k = 2 * kWarm + 2
        BY <2>0, <2>2, <1>0 DEF ScriptLen
    <3>2. ScriptRef(b, k) = ReplaceRef(0)
        BY <2>2 DEF ScriptRef
    <3> QED BY <2>2, <3>1, <3>2, <1>1 DEF Pos, LiveSet
  <2>3. CASE ~(k > 2 * kWarm + 1) /\ k % 2 = 0
    <3>1. k \div 2 \in 1 .. kWarm /\ 2 * (k \div 2) = k
        BY <2>0, <2>3, <1>0
    <3>2. ScriptRef(b, k) = k \div 2
        BY <2>3 DEF ScriptRef
    <3>3. k \div 2 \in Warm /\ k \div 2 <= kWarm
        BY <3>1, <1>0 DEF Warm
    <3> QED BY <3>1, <3>2, <3>3 DEF Pos, LiveSet
  <2>4. CASE ~(k > 2 * kWarm + 1) /\ k % 2 # 0
    <3> DEFINE i == k \div 2
    <3>1. i \in 1 .. kWarm /\ 2 * i + 1 = k
        BY <2>0, <2>4, <1>0
    <3>2. ScriptRef(b, k) = kWarm + i
        BY <2>4 DEF ScriptRef
    <3> HIDE DEF i
    <3>3. kWarm + i \in Warm /\ ~(kWarm + i <= kWarm) /\ (kWarm + i) - kWarm = i
        BY <3>1, <1>0 DEF Warm
    <3> QED BY <3>1, <3>2, <3>3 DEF Pos, LiveSet
  <2> QED BY <2>1, <2>2, <2>3, <2>4
<1>3. ASSUME NEW r \in LiveSet(b, 0)
      PROVE  Pos(b, r) \in 2 .. ScriptLen(b) /\ ScriptRef(b, Pos(b, r)) = r
  <2>0. ScriptLen(b) \in Nat /\ ScriptLen(b) >= 2 * kWarm + 1
      BY <1>0 DEF ScriptLen
  <2>1. CASE r \in Warm /\ r <= kWarm
    <3>1. Pos(b, r) = 2 * r /\ r \in 1 .. kWarm
        BY <2>1, <1>0 DEF Pos, Warm
    <3>2. ~(2 * r > 2 * kWarm + 1) /\ (2 * r) % 2 = 0 /\ (2 * r) \div 2 = r /\ 2 * r \in 2 .. 2 * kWarm + 1
        BY <3>1, <1>0
    <3>3. ScriptRef(b, 2 * r) = r
        BY <3>2 DEF ScriptRef
    <3> QED BY <3>1, <3>2, <3>3, <2>0, <1>0
  <2>2. CASE r \in Warm /\ ~(r <= kWarm)
    <3> DEFINE i == r - kWarm
    <3>1. Pos(b, r) = 2 * i + 1 /\ i \in 1 .. kWarm /\ kWarm + i = r
        BY <2>2, <1>0 DEF Pos, Warm
    <3> HIDE DEF i
    <3>2. /\ ~(2 * i + 1 > 2 * kWarm + 1) /\ (2 * i + 1) % 2 # 0 /\ (2 * i + 1) \div 2 = i
          /\ 2 * i + 1 \in 2 .. 2 * kWarm + 1
        BY <3>1, <1>0
    <3>3. ScriptRef(b, 2 * i + 1) = r
        BY <3>1, <3>2 DEF ScriptRef
    <3> QED BY <3>1, <3>2, <3>3, <2>0, <1>0
  <2>3. CASE r \notin Warm /\ b \in Pooled
    <3>1. r \in Pool /\ Pos(b, r) = r + 1
        BY <2>3 DEF LiveSet, Pos
    <3>2. r \in Nat /\ r > 2 * kWarm /\ r <= 2 * kWarm + kN
        BY <3>1, <1>0 DEF Pool
    <3>3. ScriptLen(b) = 2 * kWarm + 1 + kN
        BY <2>3 DEF ScriptLen
    <3>4. ScriptRef(b, r + 1) = r
        BY <2>3, <3>2, <1>0 DEF ScriptRef
    <3> QED BY <3>1, <3>2, <3>3, <3>4, <1>0
  <2>4. CASE r \notin Warm /\ b \notin Pooled
    <3>1. b = "Replace_SameLevel" /\ r = ReplaceRef(0) /\ Pos(b, r) = 2 * kWarm + 2
        BY <2>4 DEF LiveSet, Pos
    <3>2. ScriptLen(b) = 2 * kWarm + 1 + 1
        BY <2>4, <3>1 DEF ScriptLen
    <3>3. ScriptRef(b, 2 * kWarm + 2) = ReplaceRef(0)
        BY <2>4, <1>0 DEF ScriptRef
    <3> QED BY <3>1, <3>2, <3>3, <1>0
  <2> QED BY <2>1, <2>2, <2>3, <2>4
<1> QED BY <1>2, <1>3

(* Every message of a script but the first adds an order the book can take. *)
LEMMA ScriptAdds ==
    ASSUME NEW b \in Booked, NEW k \in 2 .. ScriptLen(b)
    PROVE  LET r == ScriptRef(b, k)
               o == SteadyAt(b, 0, r)
               m == Script(b, k)
           IN  /\ m.type = "A" /\ m.ref = r /\ r \in Refs
               /\ m.side = o.side /\ m.price = o.price /\ m.shares = o.shares
               /\ o = [side |-> m.side, price |-> m.price, shares |-> m.shares]
               /\ Fielded(m) /\ m.shares > 0 /\ m.price > 0
               /\ m.price \in SidePrices(m.side)
<1> DEFINE r == ScriptRef(b, k)
           o == SteadyAt(b, 0, r)
           m == Script(b, k)
<1>0. 0 \in 0 .. kIter /\ k # 1
    BY Numbers
<1>1. r \in LiveSet(b, 0)
    BY ScriptRefs
<1>2. r \in Refs
    BY <1>0, <1>1, RefFacts DEF LiveSet
<1>3. o \in Resting /\ o.price \in SidePrices(o.side)
    BY <1>0, <1>1, SteadyOrder
<1>4. o.shares \in Quantities
  <2>1. kLot \in Quantities /\ 2 * kLot \in Quantities /\ kBig \in Quantities
      BY HarnessSizes
  <2>2. CASE r \in Warm
    <3>1. o = WarmOrder(r)
        BY <2>2 DEF SteadyAt
    <3> QED BY <3>1, <2>2, GoodOrders
  <2>3. CASE r \notin Warm /\ b \in Pooled
    <3>1. r \in Pool /\ o = PoolOrder(b, 0, r)
        BY <2>3, <1>1 DEF LiveSet, SteadyAt
    <3> DEFINE c == r - (2 * kWarm + 1)
    <3>2. Taken(c, 0) = 0
      <4>1. kN \in Nat \ {0} /\ kWarm \in Nat
          BY Numbers
      <4>2. 0 \div kN = 0 /\ 0 % kN = 0
          BY <4>1
      <4>3. ~(c < 0)
        <5> HIDE DEF r
        <5> QED BY <3>1, <4>1 DEF Pool
      <4> HIDE DEF c
      <4> QED BY <4>2, <4>3 DEF Taken
    <3>3. kBig - 0 = kBig
        BY Numbers
    <3>4. o.shares = IF b = "Delete" THEN kLot ELSE kBig - Taken(c, 0)
        BY <3>1 DEF PoolOrder
    <3> HIDE DEF c, o
    <3> QED BY <2>1, <3>2, <3>3, <3>4
  <2>4. CASE r \notin Warm /\ b \notin Pooled
    <3>1. o = Target
        BY <2>4, <1>1 DEF LiveSet, SteadyAt
    <3> QED BY <3>1, GoodOrders
  <2> QED BY <2>2, <2>3, <2>4
<1>5. m = make_add(o.side, o.price, o.shares, r)
    BY <1>0 DEF Script
<1> HIDE DEF m, o, r
<1>6. /\ m.type = "A" /\ m.ref = r /\ m.side = o.side /\ m.price = o.price /\ m.shares = o.shares
    BY <1>5 DEF make_add
<1>7. o.side \in Side /\ o.price \in Prices \ {0} /\ o.shares \in 1 .. W32 - 1
    BY <1>3 DEF Resting
<1>8. m.shares > 0 /\ m.price > 0
  <2>1. o.shares > 0
      BY <1>7
  <2>2. o.price > 0
      BY <1>7, PriceRange
  <2> QED BY <2>1, <2>2, <1>6
<1>9. Fielded(m)
    BY <1>2, <1>4, <1>6, <1>7 DEF Fielded
<1>10. o = [side |-> m.side, price |-> m.price, shares |-> m.shares]
    BY <1>3, <1>6 DEF Resting
<1> QED BY <1>2, <1>3, <1>6, <1>8, <1>9, <1>10 DEF m, o, r

-----------------------------------------------------------------------------
(***************************************************************************)
(* A book that a benchmark drives: sound, not stopped, and every side      *)
(* centred on one of its prices with no order left out.                    *)
(***************************************************************************)
Good ==
    /\ IndInv /\ Fed(Here) /\ Accounts(Here)
    /\ fault = "none"
    /\ KeptIn(Here, WarmPrices)
    /\ \A s \in Side : book[s].ref \in SidePrices(s) \cup {0}

(* A side is re-centred on the price of the order that arrives, or not at all. *)
LEMMA PlacedRef ==
    ASSUME NEW st, NEW new, NEW r, NEW s, NEW q, NEW p, PlacedFor(st, new, r, s, q, p),
           NEW t \in Side
    PROVE  new.bk[t].ref = st.bk[t].ref \/ (t = s /\ new.bk[t].ref = p)
<1>1. PICK o, i, sd : /\ Entered(st, new, r, s, q, p, o, i, sd)
                      /\ \/ InWindow(st, new, s, p, o, i, sd)
                         \/ Recentred(st, new, s, p, o, i, sd)
    BY DEF PlacedFor
<1>2. CASE t # s
    BY <1>1, <1>2 DEF Entered
<1>3. CASE t = s
  <2>1. new.bk[t].ref = sd.ref
      BY <1>1, <1>3 DEF Entered
  <2>2. sd.ref = st.bk[t].ref \/ sd.ref = p
      BY <1>1, <1>3 DEF InWindow, Recentred
  <2> QED BY <2>1, <2>2, <1>3
<1> QED BY <1>2, <1>3

LEMMA AppliedRef ==
    ASSUME NEW m, Applied(m), NEW t \in Side
    PROVE  \/ book'[t].ref = book[t].ref
           \/ m.type \in {"A", "F"} /\ t = m.side /\ book'[t].ref = m.price
           \/ m.type = "U" /\ t = pool_[order_map_[m.ref]].side /\ book'[t].ref = m.price
<1>0. Here.bk = book /\ Here'.bk = book'
    BY DEF Here
<1>1. CASE Here' = Here
    BY <1>0, <1>1
<1>2. CASE Empties
  <2>1. book' = [s \in Side |-> [EmptySide EXCEPT !.ref = book[s].ref]]
      BY <1>2 DEF Empties
  <2> QED BY <2>1 DEF EmptySide
<1>3. CASE m.type \in {"A", "F"}
  <2>1. PlacedFor(Here, Here', m.ref, m.side, m.shares, m.price)
      BY <1>3 DEF Applied, Places
  <2>2. Here'.bk[t].ref = Here.bk[t].ref \/ (t = m.side /\ Here'.bk[t].ref = m.price)
      BY <2>1, PlacedRef
  <2> QED BY <2>2, <1>0, <1>3
<1>4. CASE m.type \in {"E", "C", "X"}
  <2>1. Takes(m.ref, m.shares)
      BY <1>4 DEF Applied
  <2>2. PICK left : /\ Reduced(Here, left, m.ref, m.shares)
                    /\ IF left.ord[order_map_[m.ref]].shares = 0
                       THEN Withdrawn(left, Here', m.ref) ELSE Here' = left
      BY <2>1 DEF Takes
  <2>3. left.bk[t].ref = Here.bk[t].ref
      BY <2>2 DEF Reduced, LevelSet
  <2>4. Here'.bk[t].ref = left.bk[t].ref
      BY <2>2 DEF Withdrawn, LevelSet
  <2> QED BY <2>3, <2>4, <1>0
<1>5. CASE m.type = "D"
  <2>1. Withdrawn(Here, Here', m.ref)
      BY <1>5 DEF Applied, Deletes
  <2>2. Here'.bk[t].ref = Here.bk[t].ref
      BY <2>1 DEF Withdrawn, LevelSet
  <2> QED BY <2>2, <1>0
<1>6. CASE m.type = "U"
  <2> DEFINE s == pool_[order_map_[m.ref]].side
  <2>1. PICK left : /\ Withdrawn(Here, left, m.ref)
                    /\ PlacedFor(left, Here', m.new_ref, s, m.shares, m.price)
      BY <1>6 DEF Applied, Replaces
  <2>2. left.bk[t].ref = Here.bk[t].ref
      BY <2>1 DEF Withdrawn, LevelSet
  <2> HIDE DEF s
  <2>3. Here'.bk[t].ref = left.bk[t].ref \/ (t = s /\ Here'.bk[t].ref = m.price)
      BY <2>1, PlacedRef
  <2> QED BY <2>2, <2>3, <1>0, <1>6 DEF s
<1> QED BY <1>1, <1>2, <1>3, <1>4, <1>5, <1>6 DEF Applied

(***************************************************************************)
(* A message the market can have sent, to a book with room: its handler    *)
(* does what it should, and the book is as good as before.                 *)
(***************************************************************************)
LEMMA Drive ==
    ASSUME Good, NEW m, Fielded(m), NEW a, NEW b, Agrees(a), Evolves(m, a, b), dispatch(m),
           m.type \in {"A", "F"} => m.price \in SidePrices(m.side),
           m.type = "U" => m.price \in SidePrices(a.orders[m.ref].side),
           free_list # {}
    PROVE  Good' /\ View(Here') = b.orders /\ is_open_' = b.open
<1>0. /\ Conforming /\ IndInv /\ Fed(Here) /\ Accounts(Here) /\ fault = "none"
      /\ KeptIn(Here, WarmPrices)
    BY HarnessSizes DEF Good
<1>1. [Next]_vars /\ (fault' = "none" => Applied(m))
    BY <1>0, DispatchApplies
<1>2. IndInv'
    BY <1>0, <1>1, NextOK
<1>3. Fed(Here') /\ Accounts(Here')
  <2>1. (Conforming => Fed(Here))'
      BY <1>0, <1>1, NextFed
  <2>2. Accounts(Here)'
      BY <1>0, <1>1, NextAccounts
  <2> QED BY <2>1, <2>2, <1>0
<1>4. fault' = "none"
  <2>1. ASSUME NEW reason, StopsFor(reason) PROVE reason = "none"
    <3>1. Explains(reason)
        BY <2>1, <1>0, StopCause
    <3>2. \A s \in Side : LeftOut(s) = {}
      <4>1. \A r \in Refs : order_map_[r] # nullptr => pool_[order_map_[r]].level_idx # -1
          BY <1>0, HereFields DEF KeptIn, KeptAt
      <4> QED BY <4>1 DEF LeftOut, live
    <3> QED BY <3>1, <3>2 DEF Explains
  <2>2. Steps
      BY <1>0, <1>1, NextHere
  <2> QED BY <2>1, <2>2, <1>0 DEF Steps, Stays, Empties
<1>5. Applied(m)
    BY <1>1, <1>4
<1>6. View(Here') = b.orders /\ is_open_' = b.open
    BY <1>0, <1>5, AppliedAgrees
<1>7. \A s : SidePrices(s) \subseteq WarmPrices
    BY DEF SidePrices
<1>8. KeptIn(Here', WarmPrices)
  <2>1. WarmPrices \in SUBSET Prices /\ Fits(WarmPrices)
      BY HarnessSizes DEF Fits
  <2>2. m.type \in {"A", "F", "U"} => m.price \in WarmPrices
      BY <1>7
  <2> QED BY <2>1, <2>2, <1>0, <1>5, AppliedKept
<1>9. ASSUME NEW s \in Side PROVE book'[s].ref \in SidePrices(s) \cup {0}
  <2>1. book[s].ref \in SidePrices(s) \cup {0}
      BY DEF Good
  <2>2. ASSUME m.type = "U", s = pool_[order_map_[m.ref]].side PROVE m.price \in SidePrices(s)
    <3>1. m.ref \in Refs /\ a.orders[m.ref] # nullptr
        BY <2>2 DEF Fielded, Evolves
    <3>2. a.orders[m.ref].side = s
        BY <3>1, <2>2, <1>0, AgreedLive
    <3> QED BY <3>2, <2>2
  <2> QED BY <2>1, <2>2, <1>5, AppliedRef
<1>10. Good'
    BY <1>2, <1>3, <1>4, <1>8, <1>9 DEF Good
<1> QED BY <1>6, <1>10

(* The live orders and the free slots make up the pool. *)
LEMMA Counts ==
    ASSUME IndInv, Fed(Here)
    PROVE  /\ IsFiniteSet(live) /\ Cardinality(live) \in Nat
           /\ Cardinality(free_list) = Cardinality(Slots) - Cardinality(live)
           /\ Cardinality(free_list) \in Nat /\ Cardinality(Slots) \in Nat
<1> DEFINE f == [r \in live |-> order_map_[r]]
           T == Mapped(order_map_)
<1>0. StateOK(Here) /\ Slots = free_list \cup T /\ IsFiniteSet(Slots)
    BY HereFields, BookAssumption DEF IndInv, Fed, Tidy
<1>1. live = LiveRefs(Here)
    BY HereFields DEF live, LiveRefs
<1>2. IsFiniteSet(live)
    BY <1>0, <1>1, LiveCount
<1>3. T \subseteq Slots /\ T \cap free_list = {}
    BY <1>0, HereFields, MappedSlots
<1>4. f \in Bijection(live, T)
  <2>1. f \in [live -> T] /\ \A x \in T : \E r \in live : f[r] = x
      BY DEF live, Mapped
  <2>2. \A q, r \in live : f[q] = f[r] => q = r
      BY <1>0, HereFields DEF StateOK, MapOK, live
  <2> HIDE DEF f
  <2> QED BY <2>1, <2>2 DEF Bijection, Injection, Surjection, IsInjective
<1>5. Cardinality(T) = Cardinality(live)
  <2>1. ExistsBijection(live, T)
      BY <1>4 DEF ExistsBijection
  <2> QED BY <2>1, <1>2, FS_Bijection
<1>6. free_list = Slots \ T /\ Slots \cap T = T
    BY <1>0, <1>3
<1>7. Cardinality(Slots \ T) = Cardinality(Slots) - Cardinality(Slots \cap T) /\ IsFiniteSet(Slots \ T)
    BY <1>0, FS_Difference
<1>8. Cardinality(live) \in Nat /\ Cardinality(Slots) \in Nat /\ Cardinality(free_list) \in Nat
    BY <1>0, <1>2, <1>6, <1>7, FS_CardinalityType
<1> QED BY <1>2, <1>5, <1>6, <1>7, <1>8

LEMMA LiveSetCount ==
    ASSUME NEW b \in Booked, NEW i \in 0 .. kIter
    PROVE  /\ LiveSet(b, i) \subseteq Refs
           /\ IsFiniteSet(LiveSet(b, i))
           /\ Cardinality(LiveSet(b, i)) = ScriptLen(b) - 1
           /\ Cardinality(LiveSet(b, i)) \in Nat
           /\ Cardinality(LiveSet(b, i)) < Cardinality(Slots)
<1>0. kWarm \in Nat \ {0} /\ kN \in Nat \ {0} /\ 2 * kWarm + kN < Cardinality(Slots)
    BY Numbers, HarnessSizes
<1>s. Cardinality(Slots) \in Nat
    BY BookAssumption, FS_CardinalityType
<1>1. LiveSet(b, i) \subseteq Refs
    BY RefFacts DEF LiveSet
<1> DEFINE w == 2 * kWarm
           n == w + kN
<1>2. w \in Int /\ 1 \in Int /\ n \in Int /\ ~(1 > w) /\ ~(1 > n)
    BY <1>0
<1>3. IsFiniteSet(1 .. w) /\ Cardinality(1 .. w) = w
  <2> HIDE DEF w
  <2>1. IsFiniteSet(1 .. w) /\ Cardinality(1 .. w) = IF 1 > w THEN 0 ELSE w - 1 + 1
      BY <1>2, FS_Interval
  <2> QED BY <2>1, <1>2
<1>4. IsFiniteSet(1 .. n) /\ Cardinality(1 .. n) = n
  <2> HIDE DEF n
  <2>1. IsFiniteSet(1 .. n) /\ Cardinality(1 .. n) = IF 1 > n THEN 0 ELSE n - 1 + 1
      BY <1>2, FS_Interval
  <2> QED BY <2>1, <1>2
<1>5. CASE b \in Pooled
  <2>1. LiveSet(b, i) = Warm \cup Pool
      BY <1>5 DEF LiveSet
  <2>2. Warm \cup Pool = 1 .. n
      BY <1>0 DEF Warm, Pool
  <2>3. ScriptLen(b) - 1 = n /\ n \in Nat /\ n < Cardinality(Slots)
      BY <1>0, <1>5 DEF ScriptLen
  <2> HIDE DEF n
  <2> QED BY <1>1, <1>4, <2>1, <2>2, <2>3
<1>6. CASE b = "Replace_SameLevel" /\ b \notin Pooled
  <2>1. LiveSet(b, i) = (1 .. w) \cup {ReplaceRef(i)} /\ ReplaceRef(i) \notin 1 .. w
      BY <1>6, RefFacts DEF LiveSet, Warm
  <2>2. ScriptLen(b) - 1 = w + 1 /\ w + 1 \in Nat /\ w + 1 < Cardinality(Slots)
      BY <1>0, <1>6, <1>s DEF ScriptLen
  <2> HIDE DEF w
  <2>3. /\ IsFiniteSet((1 .. w) \cup {ReplaceRef(i)})
        /\ Cardinality((1 .. w) \cup {ReplaceRef(i)}) = w + 1
      BY <1>3, <2>1, FS_AddElement
  <2> QED BY <1>1, <2>1, <2>2, <2>3
<1>7. CASE b # "Replace_SameLevel" /\ b \notin Pooled
  <2>1. LiveSet(b, i) = 1 .. w
      BY <1>7 DEF LiveSet, Warm
  <2>2. ScriptLen(b) - 1 = w /\ w \in Nat /\ w < Cardinality(Slots)
      BY <1>0, <1>7, <1>s DEF ScriptLen
  <2> HIDE DEF w
  <2> QED BY <1>1, <1>3, <2>1, <2>2
<1> QED BY <1>5, <1>6, <1>7

(* There is always a free slot. *)
LEMMA Room ==
    ASSUME Good, NEW b \in Booked, NEW i \in 0 .. kIter, live \subseteq LiveSet(b, i)
    PROVE  free_list # {}
<1>1. /\ Cardinality(LiveSet(b, i)) < Cardinality(Slots) /\ IsFiniteSet(LiveSet(b, i))
      /\ Cardinality(LiveSet(b, i)) \in Nat
    BY LiveSetCount
<1>2. Cardinality(live) <= Cardinality(LiveSet(b, i))
    BY <1>1, FS_Subset
<1>3. /\ Cardinality(free_list) = Cardinality(Slots) - Cardinality(live)
      /\ Cardinality(live) \in Nat /\ Cardinality(Slots) \in Nat
    BY Counts DEF Good
<1>4. Cardinality(free_list) # 0
    BY <1>1, <1>2, <1>3
<1> QED BY <1>4, FS_EmptySet

(* The orders of a benchmark are fewer than the messages of its set-up. *)
LEMMA AtMostSetup ==
    ASSUME Good, NEW b \in Booked, NEW i \in 0 .. kIter, live \subseteq LiveSet(b, i)
    PROVE  Cardinality(live) <= ScriptLen(b)
<1>1. /\ IsFiniteSet(LiveSet(b, i)) /\ Cardinality(LiveSet(b, i)) \in Nat
      /\ Cardinality(LiveSet(b, i)) = ScriptLen(b) - 1
    BY LiveSetCount
<1>2. Cardinality(live) <= Cardinality(LiveSet(b, i))
    BY <1>1, FS_Subset
<1>3. Cardinality(live) \in Nat
    BY Counts DEF Good
<1>4. ScriptLen(b) \in Nat
    BY Numbers DEF ScriptLen
<1> QED BY <1>1, <1>2, <1>3, <1>4

LEMMA ViewedLive ==
    ASSUME IndInv, NEW r \in Refs
    PROVE  /\ r \in live <=> View(Here)[r] # nullptr
           /\ r \in live => /\ View(Here)[r].shares = pool_[order_map_[r]].shares
                            /\ View(Here)[r].price = pool_[order_map_[r]].price
                            /\ View(Here)[r].side = pool_[order_map_[r]].side
<1> DEFINE a == [open |-> is_open_, orders |-> View(Here)]
<1>1. Agrees(a) /\ a.orders = View(Here)
    BY DEF Agrees
<1> HIDE DEF a
<1> QED BY <1>1, AgreedLive DEF live

(* The same, of any sound state. *)
LEMMA ViewedIn ==
    ASSUME NEW st, StateOK(st), NEW r \in Refs
    PROVE  /\ st.map[r] # nullptr <=> View(st)[r] # nullptr
           /\ st.map[r] # nullptr => View(st)[r].shares = st.ord[st.map[r]].shares
<1>1. CASE st.map[r] = nullptr
    BY <1>1 DEF View
<1>2. CASE st.map[r] # nullptr
  <2>1. View(st)[r] = Seen(st.ord[st.map[r]]) /\ View(st)[r] # nullptr
      BY <1>2, ViewLive
  <2>2. Seen(st.ord[st.map[r]]).shares = st.ord[st.map[r]].shares
      BY DEF Seen
  <2> QED BY <1>2, <2>1, <2>2
<1> QED BY <1>1, <1>2

-----------------------------------------------------------------------------
(* One message of each kind. *)
LEMMA DriveAdd ==
    ASSUME Good, NEW s \in Side, NEW p \in SidePrices(s), NEW q \in Quantities, q > 0,
           NEW r \in Refs, is_open_ = TRUE, View(Here)[r] = nullptr, free_list # {},
           dispatch(make_add(s, p, q, r))
    PROVE  /\ Good' /\ is_open_' = TRUE
           /\ View(Here') = [View(Here) EXCEPT ![r] = [side |-> s, price |-> p, shares |-> q]]
<1> DEFINE m == make_add(s, p, q, r)
           a == [open |-> is_open_, orders |-> View(Here)]
           n == [View(Here) EXCEPT ![r] = [side |-> s, price |-> p, shares |-> q]]
           b == [open |-> TRUE, orders |-> n]
<1>1. m.type = "A" /\ m.ref = r /\ m.side = s /\ m.shares = q /\ m.price = p
    BY DEF make_add
<1>2. a.open = is_open_ /\ a.orders = View(Here) /\ b.open = TRUE /\ b.orders = n
    OBVIOUS
<1>3. p \in Prices /\ p > 0
    BY GoodPrice DEF SidePrices
<1>4. dispatch(m)
    OBVIOUS
<1> HIDE DEF m, a, b
<1>5. Fielded(m) /\ Agrees(a)
    BY <1>1, <1>2, <1>3 DEF Fielded, Agrees
<1>6. Evolves(m, a, b)
    BY <1>1, <1>2, <1>3 DEF Evolves
<1>7. Good' /\ View(Here') = b.orders /\ is_open_' = b.open
    BY <1>1, <1>4, <1>5, <1>6, Drive
<1> QED BY <1>2, <1>7

LEMMA DriveDelete ==
    ASSUME Good, NEW r \in Refs, is_open_ = TRUE, View(Here)[r] # nullptr, free_list # {},
           dispatch(make_delete(r))
    PROVE  /\ Good' /\ is_open_' = TRUE
           /\ View(Here') = [View(Here) EXCEPT ![r] = nullptr]
<1> DEFINE m == make_delete(r)
           a == [open |-> is_open_, orders |-> View(Here)]
           n == [View(Here) EXCEPT ![r] = nullptr]
           b == [open |-> TRUE, orders |-> n]
<1>1. m.type = "D" /\ m.ref = r
    BY DEF make_delete
<1>2. a.open = is_open_ /\ a.orders = View(Here) /\ b.open = TRUE /\ b.orders = n
    OBVIOUS
<1>4. dispatch(m)
    OBVIOUS
<1> HIDE DEF m, a, b
<1>5. Fielded(m) /\ Agrees(a)
    BY <1>1, <1>2 DEF Fielded, Agrees
<1>6. Evolves(m, a, b)
    BY <1>1, <1>2 DEF Evolves
<1>7. Good' /\ View(Here') = b.orders /\ is_open_' = b.open
    BY <1>1, <1>4, <1>5, <1>6, Drive
<1> QED BY <1>2, <1>7

LEMMA DriveCancel ==
    ASSUME Good, NEW r \in Refs, NEW q \in Quantities, is_open_ = TRUE, View(Here)[r] # nullptr,
           View(Here)[r] \in Resting, q < View(Here)[r].shares, free_list # {},
           dispatch(make_cancel(r, q))
    PROVE  /\ Good' /\ is_open_' = TRUE
           /\ View(Here') = [View(Here) EXCEPT ![r] =
                                [View(Here)[r] EXCEPT !.shares = View(Here)[r].shares - q]]
<1> DEFINE m == make_cancel(r, q)
           a == [open |-> is_open_, orders |-> View(Here)]
           od == View(Here)[r]
           n == [View(Here) EXCEPT ![r] = [od EXCEPT !.shares = od.shares - q]]
           b == [open |-> TRUE, orders |-> n]
<1>1. m.type = "X" /\ m.ref = r /\ m.shares = q
    BY DEF make_cancel
<1>2. a.open = is_open_ /\ a.orders = View(Here) /\ b.open = TRUE /\ b.orders = n
    OBVIOUS
<1>3. q \in Int /\ od.shares \in Int /\ q <= od.shares /\ od.shares - q # 0
  <2>1. q \in Int
      BY BookAssumption, WidthAssumption
  <2>2. od.shares \in 1 .. W32 - 1
      BY DEF Resting
  <2>3. q < od.shares
      OBVIOUS
  <2> HIDE DEF od
  <2> QED BY <2>1, <2>2, <2>3
<1>4. dispatch(m)
    OBVIOUS
<1>c. Left(od, q) = [od EXCEPT !.shares = od.shares - q]
    BY <1>3 DEF Left
<1> HIDE DEF m, a, b
<1>5. Fielded(m) /\ Agrees(a)
    BY <1>1, <1>2 DEF Fielded, Agrees
<1>6. Evolves(m, a, b)
  <2>1. /\ a.orders[m.ref] # nullptr /\ m.shares <= a.orders[m.ref].shares
        /\ b.orders = [a.orders EXCEPT ![m.ref] = Left(a.orders[m.ref], m.shares)]
        /\ b.open = a.open
      BY <1>1, <1>2, <1>3, <1>c
  <2> QED BY <2>1, <1>1 DEF Evolves
<1>7. Good' /\ View(Here') = b.orders /\ is_open_' = b.open
    BY <1>1, <1>4, <1>5, <1>6, Drive
<1> QED BY <1>2, <1>7

LEMMA DriveReplace ==
    ASSUME Good, NEW r \in Refs, NEW n \in Refs, NEW q \in Quantities, q > 0, is_open_ = TRUE,
           View(Here)[r] # nullptr, View(Here)[n] = nullptr,
           NEW s, View(Here)[r].side = s, NEW p \in SidePrices(s), free_list # {},
           NEW v, v = [[View(Here) EXCEPT ![r] = nullptr] EXCEPT ![n] =
                          [side |-> s, price |-> p, shares |-> q]],
           dispatch(make_replace(r, n, p, q))
    PROVE  Good' /\ is_open_' = TRUE /\ View(Here') = v
<1> DEFINE m == make_replace(r, n, p, q)
           a == [open |-> is_open_, orders |-> View(Here)]
           b == [open |-> TRUE, orders |-> v]
<1>1. m.type = "U" /\ m.ref = r /\ m.new_ref = n /\ m.shares = q /\ m.price = p
    BY DEF make_replace
<1>2. a.open = is_open_ /\ a.orders = View(Here) /\ b.open = TRUE /\ b.orders = v
    OBVIOUS
<1>3. p \in Prices /\ p > 0
    BY GoodPrice DEF SidePrices
<1>4. dispatch(m)
    OBVIOUS
<1> HIDE DEF m, a, b
<1>5. Fielded(m) /\ Agrees(a)
    BY <1>1, <1>2, <1>3 DEF Fielded, Agrees
<1>6. Evolves(m, a, b)
  <2>1. /\ a.orders[m.ref] # nullptr /\ a.orders[m.new_ref] = nullptr /\ m.shares > 0 /\ m.price > 0
        /\ b.orders = [[a.orders EXCEPT ![m.ref] = nullptr] EXCEPT ![m.new_ref] =
                         [side |-> a.orders[m.ref].side, price |-> m.price, shares |-> m.shares]]
        /\ b.open = a.open
      BY <1>1, <1>2, <1>3
  <2> QED BY <2>1, <1>1 DEF Evolves
<1>p. m.price \in SidePrices(a.orders[m.ref].side)
    BY <1>1, <1>2
<1>7. Good' /\ View(Here') = b.orders /\ is_open_' = b.open
    BY <1>1, <1>p, <1>4, <1>5, <1>6, Drive
<1> QED BY <1>2, <1>7

-----------------------------------------------------------------------------
(***************************************************************************)
(* The phases of a benchmark.                                              *)
(***************************************************************************)

(* The live orders after n messages of the set-up. *)
SetView(b, n) ==
    [r \in Refs |-> IF r \in LiveSet(b, 0) /\ Pos(b, r) <= n THEN SteadyAt(b, 0, r) ELSE nullptr]

(* n messages of the set-up have been sent. *)
SetupAt(n) ==
    /\ bench \in Booked /\ iter = 0
    /\ n >= 1 => is_open_ = TRUE
    /\ View(Here) = SetView(bench, n)
    /\ \E M : todo \in Seq(M)
    /\ Len(todo) = ScriptLen(bench) - n
    /\ \A j \in 1 .. ScriptLen(bench) - n : todo[j] = Script(bench, n + j)

InSetup == \E n \in 0 .. ScriptLen(bench) : SetupAt(n)

(* Between iterations. *)
AtRest ==
    /\ bench \in Booked \cup {"ParseAdd"}
    /\ todo = <<>>
    /\ bench \in Booked => is_open_ = TRUE
    /\ View(Here) = Steady(bench, iter)

(* After the operation that was timed, and before the message that follows it. *)
AskTarget == [side |-> "S", price |-> kAsk, shares |-> kLot]

Midway ==
    /\ iter \in 1 .. kIter
    /\ is_open_ = TRUE
    /\ \/ /\ bench = "AddBid"
          /\ todo = <<make_delete(AddRef(iter - 1))>>
          /\ View(Here) = [Steady(bench, iter) EXCEPT ![AddRef(iter - 1)] = Target]
       \/ /\ bench = "AddAsk"
          /\ todo = <<make_delete(AddRef(iter - 1))>>
          /\ View(Here) = [Steady(bench, iter) EXCEPT ![AddRef(iter - 1)] = AskTarget]
       \/ /\ bench = "Delete"
          /\ todo = <<make_add("B", kBid, kLot, PoolRef(iter - 1))>>
          /\ View(Here) = [Steady(bench, iter) EXCEPT ![PoolRef(iter - 1)] = nullptr]

Finished == bench = "returned" /\ todo = <<>>

(* The histogram is the benchmark's own: one recording for each iteration. *)
OwnHistogram == total_ = iter

HarnessInv ==
    /\ Good
    /\ iter \in 0 .. kIter
    /\ OwnHistogram
    /\ InSetup \/ AtRest \/ Midway \/ Finished

LEMMA EmptySequence ==
    ASSUME NEW M, NEW t \in Seq(M)
    PROVE  t = <<>> <=> Len(t) = 0
OBVIOUS

(* A live order of the set-up is one of the benchmark's. *)
LEMMA SetupLive ==
    ASSUME IndInv, NEW n, SetupAt(n)
    PROVE  live \subseteq LiveSet(bench, 0)
<1>1. ASSUME NEW r \in live PROVE r \in LiveSet(bench, 0)
  <2>1. r \in Refs
      BY DEF live
  <2>2. View(Here)[r] # nullptr
      BY <2>1, ViewedLive
  <2> QED BY <2>1, <2>2 DEF SetupAt, SetView
<1> QED BY <1>1

(* The message that a set-up sends next. *)
LEMMA SetupHead ==
    ASSUME Good, NEW n \in 0 .. ScriptLen(bench), SetupAt(n), todo # <<>>
    PROVE  /\ n + 1 \in 1 .. ScriptLen(bench)
           /\ Head(todo) = Script(bench, n + 1)
           /\ free_list # {}
           /\ \E M : Tail(todo) \in Seq(M)
           /\ Len(Tail(todo)) = ScriptLen(bench) - (n + 1)
           /\ \A j \in 1 .. ScriptLen(bench) - (n + 1) : Tail(todo)[j] = Script(bench, (n + 1) + j)
<1> DEFINE L == ScriptLen(bench)
<1>0. L \in Nat /\ n \in Nat /\ 0 \in 0 .. kIter
    BY Numbers DEF ScriptLen
<1>1. PICK M : todo \in Seq(M)
    BY DEF SetupAt
<1>2. Len(todo) = L - n /\ \A j \in 1 .. L - n : todo[j] = Script(bench, n + j)
    BY DEF SetupAt
<1> HIDE DEF L
<1>3. Len(todo) # 0 /\ Len(todo) \in Nat
    BY <1>1, EmptySequence
<1>4. n + 1 \in 1 .. L /\ 1 \in 1 .. L - n
  <2> DEFINE len == Len(todo)
  <2> HIDE DEF len
  <2>1. len = L - n /\ len # 0 /\ len \in Nat
      BY <1>2, <1>3 DEF len
  <2> QED BY <2>1, <1>0
<1>5. Head(todo) = todo[1]
    BY <1>1, <1>3
<1>6. free_list # {}
  <2>1. bench \in Booked /\ live \subseteq LiveSet(bench, 0)
      BY SetupLive DEF SetupAt, Good
  <2> QED BY <2>1, <1>0, Room
<1>7. Tail(todo) \in Seq(M) /\ Len(Tail(todo)) = Len(todo) - 1
    BY <1>1, <1>3
<1>8. Len(todo) - 1 = L - (n + 1)
    BY <1>0, <1>2
<1>9. ASSUME NEW j \in 1 .. L - (n + 1) PROVE Tail(todo)[j] = Script(bench, (n + 1) + j)
  <2>1. j \in 1 .. Len(todo) - 1 /\ j + 1 \in 1 .. L - n /\ n + (j + 1) = (n + 1) + j
      BY <1>0, <1>8
  <2>2. Tail(todo)[j] = todo[j + 1]
      BY <2>1, <1>1, <1>3
  <2> QED BY <2>1, <2>2, <1>2
<1> QED BY <1>2, <1>4, <1>5, <1>6, <1>7, <1>8, <1>9 DEF L

LEMMA SetupStep ==
    ASSUME Good, InSetup, todo # <<>>, dispatch(Head(todo)), todo' = Tail(todo),
           UNCHANGED <<bench, iter>>
    PROVE  Good' /\ InSetup'
<1>1. PICK n \in 0 .. ScriptLen(bench) : SetupAt(n)
    BY DEF InSetup
<1> DEFINE L == ScriptLen(bench)
           k == n + 1
           m == Script(bench, k)
<1>0. L \in Nat /\ n \in Nat /\ 0 \in 0 .. kIter /\ bench \in Booked /\ iter = 0
    BY <1>1, Numbers DEF ScriptLen, SetupAt
<1>2. /\ k \in 1 .. L /\ Head(todo) = m /\ free_list # {}
      /\ \E M : Tail(todo) \in Seq(M)
      /\ Len(Tail(todo)) = L - k
      /\ \A j \in 1 .. L - k : Tail(todo)[j] = Script(bench, k + j)
    BY <1>1, SetupHead
<1>3. View(Here) = SetView(bench, n) /\ (n >= 1 => is_open_ = TRUE)
    BY <1>1 DEF SetupAt
<1>4. \A r \in LiveSet(bench, 0) : Pos(bench, r) \in Nat /\ Pos(bench, r) >= 2
    BY <1>0, ScriptRefs
<1>5. Good' /\ is_open_' = TRUE /\ View(Here') = SetView(bench, k)
  <2>1. CASE n = 0
    <3> DEFINE a == [open |-> is_open_, orders |-> View(Here)]
               b == [open |-> TRUE, orders |-> View(Here)]
    <3>1. m.type = "S" /\ m.code = "O" /\ dispatch(m)
        BY <2>1, <1>2 DEF Script, make_sys
    <3>2. a.open = is_open_ /\ a.orders = View(Here) /\ b.open = TRUE /\ b.orders = View(Here)
        OBVIOUS
    <3> HIDE DEF a, b, m
    <3>3. Fielded(m) /\ Agrees(a) /\ Evolves(m, a, b)
        BY <3>1, <3>2 DEF Fielded, Agrees, Evolves
    <3>4. Good' /\ View(Here') = b.orders /\ is_open_' = b.open
        BY <3>1, <3>3, <1>2, Drive
    <3>5. SetView(bench, 0) = SetView(bench, 1)
      <4>1. \A r \in Refs : r \in LiveSet(bench, 0) => ~(Pos(bench, r) <= 0) /\ ~(Pos(bench, r) <= 1)
          BY <1>4
      <4> QED BY <4>1 DEF SetView
    <3> QED BY <2>1, <3>2, <3>4, <3>5, <1>3
  <2>2. CASE n # 0
    <3> DEFINE r == ScriptRef(bench, k)
               o == SteadyAt(bench, 0, r)
    <3>1. k \in 2 .. L
        BY <2>2, <1>0, <1>2
    <3>2. /\ m = make_add(o.side, o.price, o.shares, r) /\ r \in Refs
          /\ o.price \in SidePrices(o.side) /\ o.shares \in Quantities /\ o.shares > 0 /\ o.side \in Side
          /\ o = [side |-> o.side, price |-> o.price, shares |-> o.shares]
      <4>1. k # 1
          BY <3>1, <1>0
      <4>2. m = make_add(o.side, o.price, o.shares, r)
          BY <4>1 DEF Script
      <4>3. /\ m.type = "A" /\ r \in Refs /\ m.side = o.side /\ m.price = o.price /\ m.shares = o.shares
            /\ Fielded(m) /\ m.shares > 0 /\ m.price \in SidePrices(m.side)
            /\ o = [side |-> m.side, price |-> m.price, shares |-> m.shares]
          BY <3>1, <1>0, ScriptAdds
      <4> HIDE DEF m, o, r
      <4> QED BY <4>2, <4>3 DEF Fielded
    <3>3. r \in LiveSet(bench, 0) /\ Pos(bench, r) = k
        BY <3>1, <1>0, ScriptRefs
    <3> HIDE DEF r, o
    <3>4. View(Here)[r] = nullptr
      <4>1. ~(Pos(bench, r) <= n)
          BY <3>3, <1>0
      <4> QED BY <4>1, <3>2, <1>3 DEF SetView
    <3>5. is_open_ = TRUE /\ dispatch(make_add(o.side, o.price, o.shares, r))
        BY <2>2, <3>2, <1>0, <1>2, <1>3
    <3>6. /\ Good' /\ is_open_' = TRUE
          /\ View(Here') = [View(Here) EXCEPT ![r] =
                               [side |-> o.side, price |-> o.price, shares |-> o.shares]]
      <4> DEFINE s == o.side
                 p == o.price
                 q == o.shares
      <4> HIDE DEF s, p, q
      <4>1. /\ s \in Side /\ p \in SidePrices(s) /\ q \in Quantities /\ q > 0
            /\ dispatch(make_add(s, p, q, r)) /\ r \in Refs
            /\ is_open_ = TRUE /\ View(Here)[r] = nullptr /\ free_list # {}
          BY <3>2, <3>4, <3>5, <1>2 DEF s, p, q
      <4>2. /\ Good' /\ is_open_' = TRUE
            /\ View(Here') = [View(Here) EXCEPT ![r] = [side |-> s, price |-> p, shares |-> q]]
          BY <4>1, DriveAdd
      <4> QED BY <4>2 DEF s, p, q
    <3>7. View(Here') = [SetView(bench, n) EXCEPT ![r] = o]
        BY <3>2, <3>6, <1>3
    <3>8. SetView(bench, k) = [SetView(bench, n) EXCEPT ![r] = o]
      <4>1. ASSUME NEW x \in Refs PROVE SetView(bench, k)[x] = IF x = r THEN o ELSE SetView(bench, n)[x]
        <5>1. CASE x = r
          <6>1. Pos(bench, x) <= k
              BY <5>1, <3>3, <1>0
          <6> QED BY <5>1, <6>1, <3>3 DEF SetView, o
        <5>2. CASE x # r /\ x \in LiveSet(bench, 0)
          <6>1. Pos(bench, x) # k
            <7>1. ScriptRef(bench, Pos(bench, x)) = x
                BY <5>2, <1>0, ScriptRefs
            <7> QED BY <5>2, <7>1 DEF r
          <6>2. Pos(bench, x) <= k <=> Pos(bench, x) <= n
              BY <6>1, <5>2, <1>0, <1>4
          <6> QED BY <5>2, <6>2 DEF SetView
        <5>3. CASE x # r /\ x \notin LiveSet(bench, 0)
            BY <5>3 DEF SetView
        <5> QED BY <5>1, <5>2, <5>3
      <4> HIDE DEF k
      <4>2. /\ SetView(bench, k) = [x \in Refs |-> SetView(bench, k)[x]]
            /\ SetView(bench, n) = [x \in Refs |-> SetView(bench, n)[x]]
          BY DEF SetView
      <4> QED BY <4>1, <4>2
    <3> QED BY <3>6, <3>7, <3>8
  <2> QED BY <2>1, <2>2
<1> HIDE DEF L
<1>6. bench' = bench /\ iter' = 0 /\ View(Here)' = SetView(bench, n + 1)
    BY <1>0, <1>5
<1>7. SetupAt(n + 1)'
  <2>1. ScriptLen(bench') = L /\ bench' \in Booked /\ View(Here)' = SetView(bench', n + 1)
      BY <1>0, <1>6 DEF L
  <2> QED BY <2>1, <1>2, <1>5, <1>6 DEF SetupAt
<1>8. k \in 0 .. ScriptLen(bench')
    BY <1>0, <1>2, <1>6 DEF L, k
<1> QED BY <1>5, <1>7, <1>8 DEF InSetup

(* A set-up that has sent its messages has reached the steady state. *)
LEMMA SetupDone ==
    ASSUME InSetup, todo = <<>>
    PROVE  AtRest
<1>1. PICK n \in 0 .. ScriptLen(bench) : SetupAt(n)
    BY DEF InSetup
<1>0. /\ bench \in Booked /\ iter = 0 /\ ScriptLen(bench) \in Nat /\ ScriptLen(bench) >= 1
      /\ Len(todo) = ScriptLen(bench) - n
    BY <1>1, Numbers DEF ScriptLen, SetupAt
<1>2. n = ScriptLen(bench) /\ n >= 1
    BY <1>0
<1>3. is_open_ = TRUE /\ View(Here) = SetView(bench, n)
    BY <1>1, <1>2 DEF SetupAt
<1>4. SetView(bench, n) = Steady(bench, 0)
  <2>1. \A r \in LiveSet(bench, 0) : Pos(bench, r) <= n
      BY <1>0, <1>2, ScriptRefs
  <2>2. \A r \in Refs : r \notin LiveSet(bench, 0) => SteadyAt(bench, 0, r) = nullptr
    <3>1. 0 \in 0 .. kIter
        BY Numbers
    <3> QED BY <3>1, SteadyOrder
  <2> QED BY <2>1, <2>2 DEF SetView, Steady
<1> QED BY <1>0, <1>3, <1>4 DEF AtRest

(* The live references, seen from the orders. *)
LEMMA LiveNow ==
    ASSUME Good
    PROVE  live = {r \in Refs : View(Here)[r] # nullptr}
<1>1. StateOK(Here)
    BY DEF Good, IndInv
<1> QED BY <1>1, ViewedIn, HereFields DEF live

LEMMA LiveNext ==
    ASSUME Good'
    PROVE  live' = {r \in Refs : View(Here')[r] # nullptr}
<1>1. StateOK(Here')
    BY DEF Good, IndInv
<1>2. \A r \in Refs : Here'.map[r] # nullptr <=> View(Here')[r] # nullptr
    BY <1>1, ViewedIn
<1>3. Here'.map = order_map_'
    BY DEF Here
<1> QED BY <1>2, <1>3 DEF live

(* Room for one order more than the warm-up's. *)
LEMMA RoomForOne ==
    ASSUME Good, NEW x, live \subseteq Warm \cup {x}
    PROVE  free_list # {} /\ Cardinality(live) <= 2 * kWarm + 1
<1> DEFINE w == 2 * kWarm
           T == (1 .. w) \cup {x}
<1>0. w \in Int /\ ~(1 > w) /\ w + 1 < Cardinality(Slots) /\ Cardinality(Slots) \in Nat
  <2>1. kWarm \in Nat \ {0} /\ kN \in Nat \ {0} /\ 2 * kWarm + kN < Cardinality(Slots)
      BY Numbers, HarnessSizes
  <2>2. Cardinality(Slots) \in Nat
      BY BookAssumption, FS_CardinalityType
  <2> QED BY <2>1, <2>2
<1>1. live \subseteq T
    BY DEF Warm
<1> HIDE DEF w
<1>2. IsFiniteSet(1 .. w) /\ Cardinality(1 .. w) = w
  <2>1. IsFiniteSet(1 .. w) /\ Cardinality(1 .. w) = IF 1 > w THEN 0 ELSE w - 1 + 1
      BY <1>0, FS_Interval
  <2> QED BY <2>1, <1>0
<1>3. IsFiniteSet(T) /\ Cardinality(T) <= w + 1
  <2>1. CASE x \in 1 .. w
    <3>1. T = 1 .. w
        BY <2>1
    <3> HIDE DEF T
    <3> QED BY <3>1, <1>0, <1>2
  <2>2. CASE x \notin 1 .. w
    <3>1. IsFiniteSet(T) /\ Cardinality(T) = w + 1
        BY <2>2, <1>2, FS_AddElement
    <3> HIDE DEF T
    <3> QED BY <3>1, <1>0
  <2> QED BY <2>1, <2>2
<1> HIDE DEF T
<1>4. Cardinality(live) <= Cardinality(T) /\ Cardinality(T) \in Nat
    BY <1>1, <1>3, FS_Subset, FS_CardinalityType
<1>5. /\ Cardinality(free_list) = Cardinality(Slots) - Cardinality(live)
      /\ Cardinality(live) \in Nat
    BY Counts DEF Good
<1>6. Cardinality(free_list) # 0
    BY <1>0, <1>3, <1>4, <1>5
<1>7. Cardinality(live) <= w + 1
    BY <1>0, <1>3, <1>4, <1>5
<1> QED BY <1>6, <1>7, FS_EmptySet DEF w

(* At rest the live orders are the benchmark's, and a slot is free. *)
LEMMA RestFacts ==
    ASSUME Good, AtRest, bench \in Booked, iter \in 0 .. kIter
    PROVE  live = LiveSet(bench, iter) /\ free_list # {}
<1>1. \A r \in Refs : View(Here)[r] = SteadyAt(bench, iter, r)
    BY DEF AtRest, Steady
<1>2. \A r : r \in LiveSet(bench, iter) <=> SteadyAt(bench, iter, r) # nullptr
    BY SteadyOrder
<1>3. LiveSet(bench, iter) \subseteq Refs
    BY LiveSetCount
<1>4. live = LiveSet(bench, iter)
    BY <1>1, <1>2, <1>3, LiveNow
<1> QED BY <1>4, Room

(* Where nothing depends on the iteration. *)
LEMMA SteadySame ==
    ASSUME NEW b \in {"AddBid", "AddAsk", "BBO", "Delete", "ParseAdd"}, NEW i, NEW j
    PROVE  Steady(b, i) = Steady(b, j)
<1>1. ASSUME NEW r PROVE SteadyAt(b, i, r) = SteadyAt(b, j, r)
  <2>1. b # "Replace_SameLevel" /\ b # "CancelPartial"
      OBVIOUS
  <2>2. PoolOrder("Delete", i, r) = PoolOrder("Delete", j, r)
      BY DEF PoolOrder
  <2> QED BY <2>1, <2>2 DEF SteadyAt, Pooled
<1> QED BY <1>1 DEF Steady

LEMMA LotFacts ==
    /\ kLot \in Quantities /\ kLot > 0 /\ kBid \in SidePrices("B") /\ kAsk \in SidePrices("S")
    /\ "B" \in Side /\ "S" \in Side
    /\ Target \in Resting /\ AskTarget \in Resting /\ Target # nullptr /\ AskTarget # nullptr
    /\ 1 \in Quantities
<1>1. kLot \in Quantities /\ kLot \in Nat \ {0} /\ kBid \in Nat /\ kAsk \in Nat /\ 1 \in Quantities
    BY HarnessSizes, Numbers
<1>2. kBid \in SidePrices("B") /\ kAsk \in SidePrices("S") /\ kAsk \in Prices \ {0}
    BY <1>1, GoodPrice DEF SidePrices
<1>3. "B" \in Side /\ "S" \in Side
    BY DEF Side
<1>4. Target \in Resting
    BY GoodOrders
<1>5. kLot \in 1 .. W32 - 1
    BY <1>1, BookAssumption, WidthAssumption
<1>6. AskTarget \in Resting
    BY <1>2, <1>3, <1>5 DEF AskTarget, Resting
<1> QED BY <1>1, <1>2, <1>3, <1>4, <1>6, RestingIsNot

(* The message that follows a timed operation. *)
MidOrder == IF bench = "AddAsk" THEN AskTarget ELSE Target

LEMMA MidFacts ==
    ASSUME Good, Midway
    PROVE  /\ free_list # {} /\ Cardinality(live) <= ScriptLen(bench)
           /\ bench \in {"AddBid", "AddAsk"} =>
                 /\ AddRef(iter - 1) \in Refs /\ View(Here)[AddRef(iter - 1)] # nullptr
                 /\ Head(todo) = make_delete(AddRef(iter - 1)) /\ Tail(todo) = <<>>
                 /\ [View(Here) EXCEPT ![AddRef(iter - 1)] = nullptr] = Steady(bench, iter)
           /\ bench = "Delete" =>
                 /\ PoolRef(iter - 1) \in Refs /\ View(Here)[PoolRef(iter - 1)] = nullptr
                 /\ Head(todo) = make_add("B", kBid, kLot, PoolRef(iter - 1)) /\ Tail(todo) = <<>>
                 /\ [View(Here) EXCEPT ![PoolRef(iter - 1)] = Target] = Steady(bench, iter)
           /\ bench \in {"AddBid", "AddAsk", "Delete"} /\ todo # <<>>
<1> DEFINE i == iter - 1
           V == View(Here)
           W == Steady(bench, iter)
<1>0. i \in 0 .. kIter /\ i \in Nat /\ iter \in 0 .. kIter
    BY Numbers DEF Midway
<1>1. \A r \in Refs : W[r] = SteadyAt(bench, iter, r)
    BY DEF Steady
<1>2. W = [r \in Refs |-> W[r]]
    BY DEF Steady
<1>3. \A r \in Refs : W[r] # nullptr <=> r \in LiveSet(bench, iter)
    BY <1>0, <1>1, SteadyOrder
<1>4. CASE bench \in {"AddBid", "AddAsk"}
  <2> DEFINE x == AddRef(iter - 1)
  <2>1. x \in Refs /\ x \notin Warm
    <3> HIDE DEF i
    <3>1. AddRef(i) \in Refs /\ AddRef(i) \notin Warm
        BY <1>0, RefFacts
    <3> QED BY <3>1 DEF i
  <2>2. LiveSet(bench, iter) = Warm
      BY <1>4 DEF LiveSet, Booked, Pooled
  <2>3. V = [W EXCEPT ![x] = MidOrder] /\ MidOrder # nullptr
      BY <1>4, LotFacts DEF Midway, MidOrder
  <2>4. todo = <<make_delete(x)>>
      BY <1>4 DEF Midway
  <2>5. Head(todo) = make_delete(x) /\ Tail(todo) = <<>> /\ todo # <<>>
      BY <2>4
  <2> HIDE DEF x, W, V
  <2>6. V[x] # nullptr /\ W[x] = nullptr
      BY <2>1, <2>2, <2>3, <1>2, <1>3
  <2>7. [V EXCEPT ![x] = nullptr] = W
      BY <2>1, <2>3, <2>6, <1>2
  <2>8. live \subseteq Warm \cup {x}
    <3>1. live = {r \in Refs : V[r] # nullptr}
        BY LiveNow DEF V
    <3>2. \A r \in Refs : r # x => V[r] = W[r]
        BY <2>3, <1>2
    <3> QED BY <3>1, <3>2, <2>2, <1>3
  <2>9. free_list # {} /\ Cardinality(live) <= ScriptLen(bench)
    <3>1. free_list # {} /\ Cardinality(live) <= 2 * kWarm + 1
        BY <2>8, RoomForOne
    <3>2. ScriptLen(bench) = 2 * kWarm + 1
        BY <1>4, Numbers DEF ScriptLen, Pooled
    <3> QED BY <3>1, <3>2
  <2> QED BY <1>4, <2>1, <2>5, <2>6, <2>7, <2>9 DEF x, W, V
<1>5. CASE bench = "Delete"
  <2> DEFINE x == PoolRef(iter - 1)
  <2>1. x \in Refs /\ x \in Pool /\ x \notin Warm
    <3> HIDE DEF i
    <3>1. PoolRef(i) \in Pool
        BY <1>0, CursorInPool
    <3>2. PoolRef(i) \in Refs /\ PoolRef(i) \notin Warm
        BY <3>1, RefFacts
    <3> QED BY <3>1, <3>2 DEF i
  <2>2. W[x] = Target
    <3>1. W[x] = PoolOrder("Delete", iter, x)
        BY <1>5, <2>1, <1>1 DEF SteadyAt, Pooled
    <3> QED BY <3>1 DEF PoolOrder, Target
  <2>3. V = [W EXCEPT ![x] = nullptr]
      BY <1>5 DEF Midway
  <2>4. todo = <<make_add("B", kBid, kLot, x)>>
      BY <1>5 DEF Midway
  <2>5. Head(todo) = make_add("B", kBid, kLot, x) /\ Tail(todo) = <<>> /\ todo # <<>>
      BY <2>4
  <2> HIDE DEF x, W, V
  <2>6. V[x] = nullptr
      BY <2>1, <2>3, <1>2
  <2>7. [V EXCEPT ![x] = Target] = W
      BY <2>1, <2>2, <2>3, <1>2
  <2>8. live \subseteq LiveSet(bench, iter)
    <3>1. live = {r \in Refs : V[r] # nullptr}
        BY LiveNow DEF V
    <3>2. \A r \in Refs : V[r] # nullptr => V[r] = W[r]
        BY <2>3, <1>2
    <3> QED BY <3>1, <3>2, <1>3
  <2>9. free_list # {} /\ Cardinality(live) <= ScriptLen(bench)
    <3>1. bench \in Booked
        BY <1>5 DEF Booked
    <3>2. free_list # {}
        BY <3>1, <2>8, <1>0, Room
    <3>3. Cardinality(live) <= ScriptLen(bench)
        BY <3>1, <2>8, <1>0, AtMostSetup
    <3> QED BY <3>2, <3>3
  <2> QED BY <1>5, <2>1, <2>5, <2>6, <2>7, <2>9 DEF x, W, V
<1> QED BY <1>4, <1>5 DEF Midway

LEMMA MidStep ==
    ASSUME Good, Midway, dispatch(Head(todo)), todo' = Tail(todo), UNCHANGED <<bench, iter>>
    PROVE  Good' /\ AtRest'
<1>0. is_open_ = TRUE /\ free_list # {} /\ bench \in {"AddBid", "AddAsk", "Delete"}
    BY MidFacts DEF Midway
<1>1. CASE bench \in {"AddBid", "AddAsk"}
  <2> DEFINE x == AddRef(iter - 1)
  <2>1. /\ x \in Refs /\ View(Here)[x] # nullptr /\ dispatch(make_delete(x)) /\ todo' = <<>>
        /\ [View(Here) EXCEPT ![x] = nullptr] = Steady(bench, iter)
      BY <1>1, MidFacts
  <2> HIDE DEF x
  <2>2. Good' /\ is_open_' = TRUE /\ View(Here') = [View(Here) EXCEPT ![x] = nullptr]
      BY <1>0, <2>1, DriveDelete
  <2>3. View(Here)' = Steady(bench, iter)' /\ bench' = bench
      BY <2>1, <2>2 DEF Steady, SteadyAt
  <2> QED BY <1>1, <2>1, <2>2, <2>3 DEF AtRest, Booked
<1>2. CASE bench = "Delete"
  <2> DEFINE x == PoolRef(iter - 1)
  <2>1. /\ x \in Refs /\ View(Here)[x] = nullptr /\ dispatch(make_add("B", kBid, kLot, x))
        /\ todo' = <<>> /\ [View(Here) EXCEPT ![x] = Target] = Steady(bench, iter)
      BY <1>2, MidFacts
  <2> HIDE DEF x
  <2>2. /\ Good' /\ is_open_' = TRUE
        /\ View(Here') = [View(Here) EXCEPT ![x] = [side |-> "B", price |-> kBid, shares |-> kLot]]
    <3>1. /\ "B" \in Side /\ kBid \in SidePrices("B") /\ kLot \in Quantities /\ kLot > 0
          /\ x \in Refs /\ is_open_ = TRUE /\ View(Here)[x] = nullptr /\ free_list # {}
          /\ dispatch(make_add("B", kBid, kLot, x))
        BY <1>0, <2>1, LotFacts
    <3> QED BY <3>1, DriveAdd
  <2>3. View(Here)' = Steady(bench, iter)' /\ bench' = bench
      BY <2>1, <2>2 DEF Steady, SteadyAt, Target
  <2> QED BY <1>2, <2>1, <2>2, <2>3 DEF AtRest, Booked
<1> QED BY <1>0, <1>1, <1>2


-----------------------------------------------------------------------------
(***************************************************************************)
(* The operation that is timed.                                            *)
(***************************************************************************)

LEMMA FirstOf ==
    ASSUME NEW M, NEW s \in Seq(M), Len(s) >= 1
    PROVE  SubSeq(s, 1, 1) \in Seq(M) /\ Len(SubSeq(s, 1, 1)) = 1 /\ SubSeq(s, 1, 1)[1] = s[1]
<1>1. 1 \in 1 .. Len(s) /\ 1 \in Int
    OBVIOUS
<1> QED BY <1>1, SubSeqProperties

LEMMA TimedTwo ==
    ASSUME NEW x, NEW y
    PROVE  /\ Timed(<<x, y>>).timed # <<>> /\ Head(Timed(<<x, y>>).timed) = x
           /\ Timed(<<x, y>>).upkeep = <<y>>
<1>1. Timed(<<x, y>>).timed = SubSeq(<<x, y>>, 1, 1) /\ Timed(<<x, y>>).upkeep = Tail(<<x, y>>)
    BY DEF Timed
<1>2. SubSeq(<<x, y>>, 1, 1) # <<>> /\ Head(SubSeq(<<x, y>>, 1, 1)) = x
  <2> DEFINE s == <<x, y>>
             t == SubSeq(s, 1, 1)
  <2>1. s \in Seq({x, y}) /\ Len(s) = 2 /\ s[1] = x
      OBVIOUS
  <2> HIDE DEF s
  <2>2. t \in Seq({x, y}) /\ Len(t) = 1 /\ t[1] = x
      BY <2>1, FirstOf
  <2> HIDE DEF t
  <2>3. t # <<>> /\ Head(t) = x
      BY <2>2, EmptySequence
  <2> QED BY <2>3 DEF s, t
<1>3. Tail(<<x, y>>) = <<y>>
    OBVIOUS
<1> QED BY <1>1, <1>2, <1>3

LEMMA TimedOne ==
    ASSUME NEW x
    PROVE  /\ Timed(<<x>>).timed # <<>> /\ Head(Timed(<<x>>).timed) = x
           /\ Timed(<<x>>).upkeep = <<>>
<1>1. Timed(<<x>>).timed = SubSeq(<<x>>, 1, 1) /\ Timed(<<x>>).upkeep = Tail(<<x>>)
    BY DEF Timed
<1>2. SubSeq(<<x>>, 1, 1) # <<>> /\ Head(SubSeq(<<x>>, 1, 1)) = x
  <2> DEFINE s == <<x>>
             t == SubSeq(s, 1, 1)
  <2>1. s \in Seq({x}) /\ Len(s) = 1 /\ s[1] = x
      OBVIOUS
  <2> HIDE DEF s
  <2>2. t \in Seq({x}) /\ Len(t) = 1 /\ t[1] = x
      BY <2>1, FirstOf
  <2> HIDE DEF t
  <2>3. t # <<>> /\ Head(t) = x
      BY <2>2, EmptySequence
  <2> QED BY <2>3 DEF s, t
<1>3. Tail(<<x>>) = <<>>
    OBVIOUS
<1> QED BY <1>1, <1>2, <1>3

(* The live references when one order comes, goes or changes. *)
LEMMA LiveComes ==
    ASSUME Good, Good', NEW x \in Refs, NEW o, o # nullptr, View(Here)[x] = nullptr,
           View(Here') = [View(Here) EXCEPT ![x] = o]
    PROVE  live' \ live = {x} /\ live \ live' = {} /\ Cardinality(live' \ live) = 1
<1> DEFINE V == View(Here)
           U == View(Here')
<1>1. live = {r \in Refs : V[r] # nullptr} /\ live' = {r \in Refs : U[r] # nullptr}
    BY LiveNow, LiveNext
<1>2. V = [r \in Refs |-> V[r]]
    BY HereFields DEF View
<1>3. U = [V EXCEPT ![x] = o] /\ V[x] = nullptr
    OBVIOUS
<1> HIDE DEF V, U
<1>4. U[x] = o /\ \A r \in Refs : r # x => U[r] = V[r]
    BY <1>2, <1>3
<1>5. live' \ live = {x} /\ live \ live' = {}
    BY <1>1, <1>3, <1>4
<1> QED BY <1>5, FS_Singleton

LEMMA LiveGoes ==
    ASSUME Good, Good', NEW x \in Refs, View(Here)[x] # nullptr,
           View(Here') = [View(Here) EXCEPT ![x] = nullptr]
    PROVE  live \ live' = {x} /\ live' \ live = {} /\ Cardinality(live \ live') = 1
<1> DEFINE V == View(Here)
           U == View(Here')
<1>1. live = {r \in Refs : V[r] # nullptr} /\ live' = {r \in Refs : U[r] # nullptr}
    BY LiveNow, LiveNext
<1>2. V = [r \in Refs |-> V[r]]
    BY HereFields DEF View
<1>3. U = [V EXCEPT ![x] = nullptr] /\ V[x] # nullptr
    OBVIOUS
<1> HIDE DEF V, U
<1>4. U[x] = nullptr /\ \A r \in Refs : r # x => U[r] = V[r]
    BY <1>2, <1>3
<1>5. live \ live' = {x} /\ live' \ live = {}
    BY <1>1, <1>3, <1>4
<1> QED BY <1>5, FS_Singleton

LEMMA LiveMoves ==
    ASSUME Good, Good', NEW x \in Refs, NEW y \in Refs, NEW o, o # nullptr,
           View(Here)[x] # nullptr, View(Here)[y] = nullptr,
           View(Here') = [[View(Here) EXCEPT ![x] = nullptr] EXCEPT ![y] = o]
    PROVE  Cardinality(live \ live') = 1 /\ Cardinality(live' \ live) = 1
<1> DEFINE V == View(Here)
           U == View(Here')
<1>1. live = {r \in Refs : V[r] # nullptr} /\ live' = {r \in Refs : U[r] # nullptr}
    BY LiveNow, LiveNext
<1>2. V = [r \in Refs |-> V[r]]
    BY HereFields DEF View
<1>3. U = [[V EXCEPT ![x] = nullptr] EXCEPT ![y] = o] /\ V[x] # nullptr /\ V[y] = nullptr
    OBVIOUS
<1> HIDE DEF V, U
<1>4. U[y] = o /\ U[x] = nullptr /\ \A r \in Refs : r # x /\ r # y => U[r] = V[r]
    BY <1>2, <1>3
<1>5. live \ live' = {x} /\ live' \ live = {y}
    BY <1>1, <1>3, <1>4
<1> QED BY <1>5, FS_Singleton

(* What a benchmark at rest offers the operation. *)
LEMMA RestView ==
    ASSUME Good, AtRest, bench \in Booked, iter \in 0 .. kIter
    PROVE  /\ is_open_ = TRUE /\ free_list # {} /\ live = LiveSet(bench, iter)
           /\ \A r \in Refs : View(Here)[r] = SteadyAt(bench, iter, r)
           /\ View(Here) = Steady(bench, iter)
           /\ View(Here) = [r \in Refs |-> View(Here)[r]]
<1>1. live = LiveSet(bench, iter) /\ free_list # {}
    BY RestFacts
<1>2. is_open_ = TRUE /\ View(Here) = Steady(bench, iter)
    BY DEF AtRest
<1>3. \A r \in Refs : Steady(bench, iter)[r] = SteadyAt(bench, iter, r)
    BY DEF Steady
<1>4. View(Here) = [r \in Refs |-> View(Here)[r]]
    BY HereFields DEF View
<1> QED BY <1>1, <1>2, <1>3, <1>4


LEMMA MeasureAdd ==
    ASSUME Good, AtRest, iter \in 0 .. kIter, bench \in {"AddBid", "AddAsk"}, Measure
    PROVE  Good' /\ Midway' /\ live \ live' = {} /\ Cardinality(live' \ live) = 1
<1> DEFINE x == AddRef(iter)
           o == MidOrder
<1>0. bench \in Booked /\ iter < kIter /\ iter \in Nat /\ iter' = iter + 1 /\ bench' = bench
    BY Numbers DEF Booked, Measure
<1>1. /\ is_open_ = TRUE /\ free_list # {} /\ View(Here) = Steady(bench, iter)
      /\ View(Here)[x] = nullptr /\ x \in Refs
  <2>1. x \in Refs /\ x \notin Warm
      BY RefFacts
  <2>2. SteadyAt(bench, iter, x) = nullptr
      BY <2>1 DEF SteadyAt, Pooled
  <2> HIDE DEF x
  <2> QED BY <2>1, <2>2, <1>0, RestView
<1>2. /\ o # nullptr /\ o = [side |-> o.side, price |-> o.price, shares |-> o.shares]
      /\ o.side \in Side /\ o.price \in SidePrices(o.side) /\ o.shares \in Quantities /\ o.shares > 0
    BY LotFacts DEF MidOrder, Target, AskTarget
<1>3. /\ HarnessIteration(bench, iter).timed # <<>>
      /\ Head(HarnessIteration(bench, iter).timed) = make_add(o.side, o.price, o.shares, x)
      /\ HarnessIteration(bench, iter).upkeep = <<make_delete(x)>>
  <2>1. HarnessIteration(bench, iter) = Timed(<<make_add(o.side, o.price, o.shares, x), make_delete(x)>>)
    <3>1. CASE bench = "AddBid"
        BY <3>1 DEF HarnessIteration, bench_add_bid, BM_Book_AddBid, MidOrder, Target
    <3>2. CASE bench = "AddAsk"
        BY <3>2 DEF HarnessIteration, bench_add_ask, BM_Book_AddAsk, MidOrder, AskTarget
    <3> QED BY <3>1, <3>2
  <2> HIDE DEF x, o
  <2> QED BY <2>1, TimedTwo
<1>4. dispatch(make_add(o.side, o.price, o.shares, x)) /\ todo' = <<make_delete(x)>>
    BY <1>3 DEF Measure
<1>m. (bench = "AddBid" => o = Target) /\ (bench = "AddAsk" => o = AskTarget)
    BY DEF MidOrder
<1>a. x = AddRef(iter' - 1) /\ iter' \in 1 .. kIter
  <2>1. iter' - 1 = iter /\ iter' \in 1 .. kIter
      BY <1>0, Numbers
  <2> QED BY <2>1
<1> HIDE DEF x, o
<1>5. Good' /\ is_open_' = TRUE /\ View(Here') = [View(Here) EXCEPT ![x] = o]
  <2> DEFINE s == o.side
             p == o.price
             q == o.shares
  <2> HIDE DEF s, p, q
  <2>1. /\ s \in Side /\ p \in SidePrices(s) /\ q \in Quantities /\ q > 0 /\ x \in Refs
        /\ is_open_ = TRUE /\ View(Here)[x] = nullptr /\ free_list # {}
        /\ dispatch(make_add(s, p, q, x))
      BY <1>1, <1>2, <1>4 DEF s, p, q
  <2>2. /\ Good' /\ is_open_' = TRUE
        /\ View(Here') = [View(Here) EXCEPT ![x] = [side |-> s, price |-> p, shares |-> q]]
      BY <2>1, DriveAdd
  <2> QED BY <2>2, <1>2 DEF s, p, q
<1>6. live' \ live = {x} /\ live \ live' = {} /\ Cardinality(live' \ live) = 1
    BY <1>1, <1>2, <1>5, LiveComes
<1>7. View(Here)' = [Steady(bench', iter') EXCEPT ![AddRef(iter' - 1)] = o]
  <2>1. Steady(bench, iter) = Steady(bench, iter + 1)
      BY SteadySame
  <2> QED BY <2>1, <1>0, <1>1, <1>5, <1>a
<1>8. Midway'
  <2>1. todo' = <<make_delete(AddRef(iter' - 1))>>
      BY <1>4, <1>a
  <2>2. bench' = "AddBid" \/ bench' = "AddAsk"
      BY <1>0
  <2> QED BY <2>1, <2>2, <1>0, <1>5, <1>7, <1>a, <1>m DEF Midway
<1> QED BY <1>5, <1>6, <1>8

LEMMA MeasureDelete ==
    ASSUME Good, AtRest, iter \in 0 .. kIter, bench = "Delete", Measure
    PROVE  Good' /\ Midway' /\ live' \ live = {} /\ Cardinality(live \ live') = 1
<1> DEFINE x == PoolRef(iter)
<1>0. bench \in Booked /\ iter < kIter /\ iter \in Nat /\ iter' = iter + 1 /\ bench' = bench
    BY Numbers DEF Booked, Measure
<1>1. /\ is_open_ = TRUE /\ free_list # {} /\ View(Here) = Steady(bench, iter)
      /\ View(Here)[x] # nullptr /\ x \in Refs
  <2>1. x \in Pool
      BY <1>0, CursorInPool
  <2>2. x \in Refs /\ x \in LiveSet(bench, iter)
      BY <2>1, <1>0, RefFacts DEF LiveSet, Pooled
  <2> HIDE DEF x
  <2>3. SteadyAt(bench, iter, x) # nullptr
      BY <2>2, SteadyOrder
  <2> QED BY <2>2, <2>3, <1>0, RestView
<1>3. /\ HarnessIteration(bench, iter).timed # <<>>
      /\ Head(HarnessIteration(bench, iter).timed) = make_delete(x)
      /\ HarnessIteration(bench, iter).upkeep = <<make_add("B", kBid, kLot, x)>>
  <2>1. HarnessIteration(bench, iter) = Timed(<<make_delete(x), make_add("B", kBid, kLot, x)>>)
      BY DEF HarnessIteration, bench_delete, BM_Book_Delete
  <2> HIDE DEF x
  <2> QED BY <2>1, TimedTwo
<1>4. dispatch(make_delete(x)) /\ todo' = <<make_add("B", kBid, kLot, x)>>
    BY <1>3 DEF Measure
<1>a. x = PoolRef(iter' - 1) /\ iter' \in 1 .. kIter
  <2>1. iter' - 1 = iter /\ iter' \in 1 .. kIter
      BY <1>0, Numbers
  <2> QED BY <2>1
<1> HIDE DEF x
<1>5. Good' /\ is_open_' = TRUE /\ View(Here') = [View(Here) EXCEPT ![x] = nullptr]
    BY <1>1, <1>4, DriveDelete
<1>6. live \ live' = {x} /\ live' \ live = {} /\ Cardinality(live \ live') = 1
    BY <1>1, <1>5, LiveGoes
<1>7. View(Here)' = [Steady(bench', iter') EXCEPT ![PoolRef(iter' - 1)] = nullptr]
  <2>1. Steady(bench, iter) = Steady(bench, iter + 1)
      BY SteadySame
  <2> QED BY <2>1, <1>0, <1>1, <1>5, <1>a
<1>8. Midway'
  <2>1. todo' = <<make_add("B", kBid, kLot, PoolRef(iter' - 1))>> /\ bench' = "Delete"
      BY <1>0, <1>4, <1>a
  <2> QED BY <2>1, <1>5, <1>7, <1>a DEF Midway
<1> QED BY <1>5, <1>6, <1>8


(* A partial cancel moves the steady state on by one iteration. *)
LEMMA CancelSteady ==
    ASSUME NEW i \in 0 .. kIter, i < kIter
    PROVE  LET x == PoolRef(i)
               V == Steady("CancelPartial", i)
           IN  /\ x \in Refs /\ x \in LiveSet("CancelPartial", i)
               /\ V[x] \in Resting /\ V[x] # nullptr /\ V[x].shares > 1
               /\ Steady("CancelPartial", i + 1) =
                      [V EXCEPT ![x] = [V[x] EXCEPT !.shares = V[x].shares - 1]]
<1> DEFINE b == "CancelPartial"
           x == PoolRef(i)
           V == Steady(b, i)
           U == Steady(b, i + 1)
           w == 2 * kWarm + 1
           k == x - w
<1>0. b \in Booked /\ b \in Pooled /\ i \in Nat /\ kBig \in Nat /\ kN \in Nat /\ kWarm \in Nat
    BY Numbers DEF Booked, Pooled
<1>1. x \in Pool /\ k = i % kN
    BY <1>0, CursorInPool
<1>2. x \in Refs /\ x \notin Warm /\ x \in LiveSet(b, i)
    BY <1>0, <1>1, RefFacts DEF LiveSet
<1>3. \A r \in Pool : r \in Int /\ w \in Int /\ r - w \in 0 .. kN - 1
    BY <1>0 DEF Pool
<1>4. V = [r \in Refs |-> SteadyAt(b, i, r)] /\ U = [r \in Refs |-> SteadyAt(b, i + 1, r)]
    BY DEF Steady
<1>5. SteadyAt(b, i, x) \in Resting /\ SteadyAt(b, i, x) # nullptr
    BY <1>2, SteadyOrder
<1>6. Taken(k, i) \in 0 .. kBig - 1 /\ Taken(k, i) < kBig - 1 /\ Taken(k, i + 1) = Taken(k, i) + 1
  <2>1. k \in 0 .. kN - 1
      BY <1>1, <1>3
  <2> HIDE DEF k
  <2> QED BY <2>1, <1>0, <1>1, TakenBound, TakenStep
<1>7. ASSUME NEW r \in Pool, NEW j
      PROVE  SteadyAt(b, j, r) = [side |-> "B", price |-> kBid, shares |-> kBig - Taken(r - w, j)]
  <2>1. r \notin Warm
      BY RefFacts
  <2>2. SteadyAt(b, j, r) = PoolOrder(b, j, r)
      BY <1>0, <1>7, <2>1 DEF SteadyAt
  <2> QED BY <2>2 DEF PoolOrder
<1>8. ASSUME NEW r \in Refs, r \notin Pool PROVE SteadyAt(b, i + 1, r) = SteadyAt(b, i, r)
    BY <1>8 DEF SteadyAt
<1>9. ASSUME NEW r \in Pool, r # x PROVE SteadyAt(b, i + 1, r) = SteadyAt(b, i, r)
  <2> DEFINE d == r - w
  <2>1. d \in 0 .. kN - 1 /\ d # k
      BY <1>1, <1>3, <1>9
  <2> HIDE DEF d, k
  <2>2. d # i % kN
      BY <2>1, <1>1
  <2>t. Taken(d, i + 1) = Taken(d, i) + (IF d = i % kN THEN 1 ELSE 0)
      BY <2>1, <1>0, TakenStep
  <2>b. Taken(d, i) \in 0 .. kBig - 1
      BY <2>1, TakenBound
  <2>3. Taken(d, i + 1) = Taken(d, i)
      BY <2>2, <2>t, <2>b
  <2> QED BY <2>3, <1>7 DEF d
<1> DEFINE o == SteadyAt(b, i, x)
<1>10. /\ o = [side |-> "B", price |-> kBid, shares |-> kBig - Taken(k, i)]
       /\ SteadyAt(b, i + 1, x) = [side |-> "B", price |-> kBid, shares |-> kBig - Taken(k, i + 1)]
    BY <1>1, <1>7
<1>11. o.shares = kBig - Taken(k, i)
    BY <1>10
<1>12. o.shares > 1 /\ kBig - Taken(k, i + 1) = o.shares - 1
  <2> HIDE DEF o, k
  <2> QED BY <1>0, <1>6, <1>11
<1>13. SteadyAt(b, i + 1, x) = [o EXCEPT !.shares = o.shares - 1]
  <2>1. [o EXCEPT !.shares = o.shares - 1] = [side |-> "B", price |-> kBid, shares |-> o.shares - 1]
    <3> DEFINE n == o.shares - 1
    <3> HIDE DEF n, o
    <3>1. [o EXCEPT !.shares = n] = [side |-> "B", price |-> kBid, shares |-> n]
        BY <1>10
    <3> QED BY <3>1 DEF n
  <2> QED BY <2>1, <1>10, <1>12
<1> HIDE DEF o
<1>14. ASSUME NEW r \in Refs, r # x PROVE SteadyAt(b, i + 1, r) = SteadyAt(b, i, r)
    BY <1>8, <1>9, <1>14
<1>15. V[x] = o
    BY <1>2, <1>4 DEF o
<1> DEFINE n == [o EXCEPT !.shares = o.shares - 1]
<1>16. U = [V EXCEPT ![x] = n]
  <2> HIDE DEF x, U, V, n
  <2> QED BY <1>2, <1>4, <1>13, <1>14 DEF n
<1>17. V[x] \in Resting /\ V[x] # nullptr /\ V[x].shares > 1
    BY <1>5, <1>12, <1>15 DEF o
<1>18. U = [V EXCEPT ![x] = [V[x] EXCEPT !.shares = V[x].shares - 1]]
    BY <1>15, <1>16
<1> QED BY <1>2, <1>17, <1>18

(* The shares of an order, seen from the orders. *)
LEMMA SharesSeen ==
    ASSUME Good, Good', NEW x \in Refs, View(Here)[x] # nullptr, View(Here')[x] # nullptr
    PROVE  Shares(x) = View(Here)[x].shares /\ Shares(x)' = View(Here')[x].shares
<1>1. StateOK(Here) /\ StateOK(Here')
    BY DEF Good, IndInv
<1>2. Here.map = order_map_ /\ Here.ord = pool_ /\ Here'.map = order_map_' /\ Here'.ord = pool_'
    BY DEF Here
<1>3. /\ Here.map[x] # nullptr /\ View(Here)[x].shares = Here.ord[Here.map[x]].shares
      /\ Here'.map[x] # nullptr /\ View(Here')[x].shares = Here'.ord[Here'.map[x]].shares
    BY <1>1, ViewedIn
<1> QED BY <1>2, <1>3 DEF Shares

LEMMA MeasureCancel ==
    ASSUME Good, AtRest, iter \in 0 .. kIter, bench = "CancelPartial", Measure
    PROVE  Good' /\ AtRest' /\ live' = live /\ \E r \in live : Shares(r)' = Shares(r) - 1
<1> DEFINE x == PoolRef(iter)
           V == View(Here)
           o == V[x]
           n == [o EXCEPT !.shares = o.shares - 1]
<1>0. bench \in Booked /\ iter < kIter /\ iter \in Nat /\ iter' = iter + 1 /\ bench' = bench
    BY Numbers DEF Booked, Measure
<1>1. is_open_ = TRUE /\ free_list # {} /\ V = Steady("CancelPartial", iter)
    BY <1>0, RestView
<1>2. /\ x \in Refs /\ o \in Resting /\ o # nullptr /\ o.shares > 1
      /\ Steady("CancelPartial", iter + 1) = [V EXCEPT ![x] = n]
    BY <1>0, <1>1, CancelSteady
<1>3. /\ HarnessIteration(bench, iter).timed # <<>>
      /\ Head(HarnessIteration(bench, iter).timed) = make_cancel(x, 1)
      /\ HarnessIteration(bench, iter).upkeep = <<>>
  <2>1. HarnessIteration(bench, iter) = Timed(<<make_cancel(x, 1)>>)
      BY DEF HarnessIteration, bench_cancel, BM_Book_CancelPartial
  <2> HIDE DEF x
  <2> QED BY <2>1, TimedOne
<1>4. dispatch(make_cancel(x, 1)) /\ todo' = <<>>
    BY <1>3 DEF Measure
<1> HIDE DEF x
<1>5. Good' /\ is_open_' = TRUE /\ View(Here') = [V EXCEPT ![x] = n]
  <2>1. /\ x \in Refs /\ 1 \in Quantities /\ is_open_ = TRUE /\ View(Here)[x] # nullptr
        /\ View(Here)[x] \in Resting /\ 1 < View(Here)[x].shares /\ free_list # {}
        /\ dispatch(make_cancel(x, 1))
    <3>1. o.shares \in Int
        BY <1>2 DEF Resting
    <3>2. 1 < o.shares
      <4> HIDE DEF o
      <4> QED BY <3>1, <1>2
    <3> QED BY <3>2, <1>1, <1>2, <1>4, LotFacts
  <2> QED BY <2>1, DriveCancel
<1>6. AtRest'
  <2>1. View(Here)' = Steady(bench', iter') /\ bench' \in Booked
      BY <1>0, <1>2, <1>5
  <2> QED BY <2>1, <1>4, <1>5 DEF AtRest
<1>7. n # nullptr /\ n.shares = o.shares - 1
  <2>1. n.shares = o.shares - 1
      BY <1>2 DEF Resting
  <2>2. n \in Resting
    <3>1. o.shares \in 1 .. W32 - 1 /\ o.shares > 1 /\ o \in Resting
        BY <1>2 DEF Resting
    <3>2. o.shares - 1 \in 1 .. W32 - 1
      <4> DEFINE q == o.shares
      <4> HIDE DEF q
      <4>1. q \in 1 .. W32 - 1 /\ q > 1
          BY <3>1 DEF q
      <4>2. q - 1 \in 1 .. W32 - 1
          BY <4>1, WidthAssumption
      <4> QED BY <4>2 DEF q
    <3> HIDE DEF o
    <3> QED BY <3>1, <3>2 DEF Resting
  <2> QED BY <2>1, <2>2, RestingIsNot
<1>8. V = [r \in Refs |-> V[r]]
    BY <1>0, RestView
<1>9. live = {r \in Refs : V[r] # nullptr} /\ live' = {r \in Refs : View(Here')[r] # nullptr}
    BY <1>5, LiveNow, LiveNext
<1> DEFINE U == View(Here')
<1> HIDE DEF V, n, o, U
<1>10. U[x] = n /\ \A r \in Refs : r # x => U[r] = V[r]
    BY <1>2, <1>5, <1>8 DEF U
<1>11. live' = live /\ x \in live
    BY <1>2, <1>7, <1>9, <1>10 DEF U, o
<1>12. PICK y \in Refs : y = x
    BY <1>2
<1>13. Shares(y) = V[y].shares /\ Shares(y)' = U[y].shares
  <2>1. View(Here)[y] # nullptr /\ View(Here')[y] # nullptr
      BY <1>2, <1>7, <1>10, <1>12 DEF V, U, o
  <2> QED BY <2>1, <1>5, SharesSeen DEF V, U
<1>14. Shares(y)' = Shares(y) - 1
    BY <1>7, <1>10, <1>12, <1>13 DEF o
<1> QED BY <1>5, <1>6, <1>11, <1>12, <1>14


(* A replace moves the steady state on by one iteration. *)
LEMMA ReplaceSteady ==
    ASSUME NEW i \in 0 .. kIter, i < kIter
    PROVE  LET x == ReplaceRef(i)
               y == ReplaceRef(i + 1)
               V == Steady("Replace_SameLevel", i)
           IN  /\ x \in Refs /\ y \in Refs /\ V[x] = Target /\ V[y] = nullptr
               /\ Steady("Replace_SameLevel", i + 1) =
                      [[V EXCEPT ![x] = nullptr] EXCEPT ![y] = Target]
<1> DEFINE b == "Replace_SameLevel"
           x == ReplaceRef(i)
           y == ReplaceRef(i + 1)
           V == Steady(b, i)
           U == Steady(b, i + 1)
<1>0. b \in Booked /\ b \notin Pooled /\ i + 1 \in 0 .. kIter /\ i + 1 # i
    BY Numbers DEF Booked, Pooled
<1>1. x \in Refs /\ y \in Refs /\ x \notin Warm /\ y \notin Warm /\ x # y
    BY <1>0, RefFacts
<1>2. V = [r \in Refs |-> SteadyAt(b, i, r)] /\ U = [r \in Refs |-> SteadyAt(b, i + 1, r)]
    BY DEF Steady
<1>3. SteadyAt(b, i, x) = Target /\ SteadyAt(b, i, y) = nullptr
    BY <1>0, <1>1 DEF SteadyAt
<1>4. SteadyAt(b, i + 1, y) = Target /\ SteadyAt(b, i + 1, x) = nullptr
    BY <1>0, <1>1 DEF SteadyAt
<1>5. ASSUME NEW r \in Refs, r # x, r # y PROVE SteadyAt(b, i + 1, r) = SteadyAt(b, i, r)
    BY <1>0, <1>5 DEF SteadyAt
<1> HIDE DEF x, y, V, U
<1>6. V[x] = Target /\ V[y] = nullptr
    BY <1>1, <1>2, <1>3
<1>7. U = [[V EXCEPT ![x] = nullptr] EXCEPT ![y] = Target]
    BY <1>1, <1>2, <1>4, <1>5
<1> QED BY <1>1, <1>6, <1>7 DEF x, y, V, U

LEMMA MeasureReplace ==
    ASSUME Good, AtRest, iter \in 0 .. kIter, bench = "Replace_SameLevel", Measure
    PROVE  Good' /\ AtRest' /\ Cardinality(live \ live') = 1 /\ Cardinality(live' \ live) = 1
<1> DEFINE x == ReplaceRef(iter)
           y == ReplaceRef(iter + 1)
           V == View(Here)
<1>0. bench \in Booked /\ iter < kIter /\ iter \in Nat /\ iter' = iter + 1 /\ bench' = bench
    BY Numbers DEF Booked, Measure
<1>1. is_open_ = TRUE /\ free_list # {} /\ V = Steady("Replace_SameLevel", iter)
    BY <1>0, RestView
<1>2. /\ x \in Refs /\ y \in Refs /\ V[x] = Target /\ V[y] = nullptr
      /\ Steady("Replace_SameLevel", iter + 1) = [[V EXCEPT ![x] = nullptr] EXCEPT ![y] = Target]
    BY <1>0, <1>1, ReplaceSteady
<1>3. /\ HarnessIteration(bench, iter).timed # <<>>
      /\ Head(HarnessIteration(bench, iter).timed) = make_replace(x, y, kBid, kLot)
      /\ HarnessIteration(bench, iter).upkeep = <<>>
  <2>1. HarnessIteration(bench, iter) = Timed(<<make_replace(x, y, kBid, kLot)>>)
      BY DEF HarnessIteration, bench_replace, BM_Book_Replace_SameLevel
  <2> HIDE DEF x, y
  <2> QED BY <2>1, TimedOne
<1>4. dispatch(make_replace(x, y, kBid, kLot)) /\ todo' = <<>>
    BY <1>3 DEF Measure
<1> HIDE DEF x, y
<1>5. Good' /\ is_open_' = TRUE /\ View(Here') = [[V EXCEPT ![x] = nullptr] EXCEPT ![y] = Target]
  <2> DEFINE v == [[V EXCEPT ![x] = nullptr] EXCEPT ![y] = Target]
  <2>1. V[x].side = "B" /\ Target = [side |-> "B", price |-> kBid, shares |-> kLot]
      BY <1>2 DEF Target
  <2>2. /\ x \in Refs /\ y \in Refs /\ kLot \in Quantities /\ kLot > 0 /\ is_open_ = TRUE
        /\ View(Here)[x] # nullptr /\ View(Here)[y] = nullptr
        /\ View(Here)[x].side = "B" /\ kBid \in SidePrices("B") /\ free_list # {}
        /\ dispatch(make_replace(x, y, kBid, kLot))
      BY <2>1, <1>1, <1>2, <1>4, LotFacts
  <2>3. v = [[View(Here) EXCEPT ![x] = nullptr] EXCEPT ![y] =
                [side |-> "B", price |-> kBid, shares |-> kLot]]
      BY <2>1
  <2> HIDE DEF v
  <2>4. Good' /\ is_open_' = TRUE /\ View(Here') = v
      BY <2>2, <2>3, DriveReplace
  <2> QED BY <2>4 DEF v
<1>6. AtRest'
  <2>1. View(Here)' = Steady(bench', iter') /\ bench' \in Booked
      BY <1>0, <1>2, <1>5
  <2> QED BY <2>1, <1>4, <1>5 DEF AtRest
<1>7. Cardinality(live \ live') = 1 /\ Cardinality(live' \ live) = 1
  <2>1. /\ Target # nullptr /\ View(Here)[x] # nullptr /\ View(Here)[y] = nullptr
        /\ View(Here') = [[View(Here) EXCEPT ![x] = nullptr] EXCEPT ![y] = Target]
      BY <1>2, <1>5, LotFacts
  <2> QED BY <2>1, <1>2, <1>5, LiveMoves
<1> QED BY <1>5, <1>6, <1>7

(* A query and a parse leave the book alone. *)
LEMMA MeasureIdle ==
    ASSUME Good, AtRest, iter \in 0 .. kIter, bench \in {"BBO", "ParseAdd"}, Measure
    PROVE  Good' /\ AtRest' /\ UNCHANGED vars
<1>1. HarnessIteration(bench, iter).timed = <<>> /\ HarnessIteration(bench, iter).upkeep = <<>>
    BY DEF HarnessIteration, bench_bbo, bench_parse_add
<1>2. UNCHANGED vars /\ todo' = <<>> /\ bench' = bench /\ iter' = iter + 1
    BY <1>1 DEF Measure
<1>3. Here' = Here /\ fault' = fault /\ book' = book /\ is_open_' = is_open_
    BY <1>2 DEF vars, Here
<1>4. IndInv'
    BY <1>2, NextOK DEF Good
<1>5. Good'
    BY <1>3, <1>4 DEF Good
<1>6. Steady(bench, iter) = Steady(bench', iter')
  <2>1. Steady(bench, iter) = Steady(bench, iter + 1)
      BY SteadySame
  <2> QED BY <2>1, <1>2
<1>7. AtRest'
  <2>1. View(Here)' = Steady(bench', iter')
      BY <1>3, <1>6 DEF AtRest
  <2> QED BY <2>1, <1>2, <1>3 DEF AtRest
<1> QED BY <1>2, <1>5, <1>7

(***************************************************************************)
(* What a timed operation does to the live orders, benchmark by benchmark. *)
(***************************************************************************)
Hit ==
    LET gone == live \ live'
        come == live' \ live
    IN  CASE bench \in {"AddBid", "AddAsk"} -> gone = {} /\ Cardinality(come) = 1
          [] bench = "Delete"            -> Cardinality(gone) = 1 /\ come = {}
          [] bench = "CancelPartial"     -> /\ live' = live
                                            /\ \E r \in live : Shares(r)' = Shares(r) - 1
          [] bench = "Replace_SameLevel" -> Cardinality(gone) = 1 /\ Cardinality(come) = 1
          [] OTHER                       -> UNCHANGED vars

LEMMA MeasureStep ==
    ASSUME Good, AtRest, iter \in 0 .. kIter, Measure
    PROVE  Good' /\ (AtRest' \/ Midway') /\ Hit
<1>0. bench \in {"AddBid", "AddAsk", "BBO", "Delete", "CancelPartial", "Replace_SameLevel", "ParseAdd"}
    BY DEF AtRest, Booked
<1>1. CASE bench \in {"AddBid", "AddAsk"}
    BY <1>1, MeasureAdd DEF Hit
<1>2. CASE bench = "Delete"
    BY <1>2, MeasureDelete DEF Hit
<1>3. CASE bench = "CancelPartial"
    BY <1>3, MeasureCancel DEF Hit
<1>4. CASE bench = "Replace_SameLevel"
    BY <1>4, MeasureReplace DEF Hit
<1>5. CASE bench \in {"BBO", "ParseAdd"}
    BY <1>5, MeasureIdle DEF Hit
<1> QED BY <1>0, <1>1, <1>2, <1>3, <1>4, <1>5


-----------------------------------------------------------------------------
(***************************************************************************)
(* The harness: every benchmark begins with a new book, and goes through   *)
(* its phases.                                                             *)
(***************************************************************************)
LEMMA InitGood == Init => Good
<1> SUFFICES ASSUME Init PROVE Good
    OBVIOUS
<1>1. IndInv /\ Fed(Here) /\ Accounts(Here)
    BY InitOK, InitFed, InitAccounts
<1>2. /\ fault = "none" /\ \A r \in Refs : order_map_[r] = nullptr
      /\ \A s \in Side : book[s].ref = 0
    BY DEF Init, EmptySide
<1>3. KeptIn(Here, WarmPrices)
    BY <1>2, HereFields DEF KeptIn
<1> QED BY <1>1, <1>2, <1>3 DEF Good

LEMMA Fresh ==
    /\ Init /\ iter = 0 /\ bench \in Booked \cup {"ParseAdd"} /\ todo = HarnessSetup(bench)
    => Good /\ (InSetup \/ AtRest)
<1> SUFFICES ASSUME Init, iter = 0, bench \in Booked \cup {"ParseAdd"}, todo = HarnessSetup(bench)
             PROVE  Good /\ (InSetup \/ AtRest)
    OBVIOUS
<1>1. Good
    BY InitGood
<1>2. View(Here) = [r \in Refs |-> nullptr]
    BY HereFields DEF Init, View
<1>3. CASE bench \in Booked
  <2>1. bench # "ParseAdd" /\ todo = Setup(bench)
      BY <1>3 DEF Booked, HarnessSetup
  <2>2. ScriptLen(bench) \in Nat
      BY Numbers DEF ScriptLen
  <2>3. /\ \E M : todo \in Seq(M)
        /\ Len(todo) = ScriptLen(bench)
        /\ \A k \in 1 .. ScriptLen(bench) : todo[k] = Script(bench, k)
      BY <2>1, <1>3, SetupIs
  <2>4. SetView(bench, 0) = [r \in Refs |-> nullptr]
    <3>1. \A r \in LiveSet(bench, 0) : Pos(bench, r) \in 2 .. ScriptLen(bench)
        BY <1>3, ScriptRefs
    <3>2. \A r \in LiveSet(bench, 0) : ~(Pos(bench, r) <= 0)
        BY <3>1, <2>2
    <3> QED BY <3>2 DEF SetView
  <2>5. SetupAt(0)
    <3> DEFINE L == ScriptLen(bench)
    <3>1. L - 0 = L /\ \A j \in 1 .. L : 0 + j = j
        BY <2>2
    <3>2. ~(0 >= 1)
        OBVIOUS
    <3>3. Len(todo) = L - 0 /\ \A j \in 1 .. L - 0 : todo[j] = Script(bench, 0 + j)
      <4> HIDE DEF L
      <4>1. Len(todo) = L /\ \A j \in 1 .. L : todo[j] = Script(bench, j)
          BY <2>3 DEF L
      <4> QED BY <4>1, <3>1
    <3> QED BY <3>2, <3>3, <1>2, <1>3, <2>3, <2>4 DEF SetupAt
  <2>6. 0 \in 0 .. ScriptLen(bench)
      BY <2>2
  <2> QED BY <1>1, <2>5, <2>6 DEF InSetup
<1>4. CASE bench = "ParseAdd"
  <2>1. bench \notin Booked /\ bench \notin Pooled
      BY <1>4 DEF Booked, Pooled
  <2>2. Steady(bench, iter) = [r \in Refs |-> nullptr]
      BY <1>4, <2>1 DEF Steady, SteadyAt
  <2>3. todo = <<>>
      BY <1>4 DEF HarnessSetup
  <2> QED BY <1>1, <1>2, <1>4, <2>1, <2>2, <2>3 DEF AtRest
<1> QED BY <1>3, <1>4

(* A message that is not timed. *)
LEMMA UntimedStep ==
    ASSUME HarnessInv, SendUntimed
    PROVE  HarnessInv'
<1>1. /\ todo # <<>> /\ dispatch(Head(todo)) /\ todo' = Tail(todo)
      /\ bench' = bench /\ iter' = iter /\ total_' = total_ /\ row' = row
    BY DEF SendUntimed, Send, hist
<1>2. Good /\ iter \in 0 .. kIter /\ OwnHistogram /\ (InSetup \/ AtRest \/ Midway \/ Finished)
    BY DEF HarnessInv
<1>3. ~AtRest /\ ~Finished
    BY <1>1 DEF AtRest, Finished
<1>4. Good' /\ (InSetup' \/ AtRest')
  <2>1. CASE InSetup
      BY <2>1, <1>1, <1>2, SetupStep
  <2>2. CASE Midway
      BY <2>2, <1>1, <1>2, MidStep
  <2> QED BY <2>1, <2>2, <1>2, <1>3
<1>5. OwnHistogram'
    BY <1>1, <1>2 DEF OwnHistogram
<1> QED BY <1>1, <1>2, <1>4, <1>5 DEF HarnessInv

(* With nothing left to send, a benchmark is at rest. *)
LEMMA NothingToSend ==
    ASSUME HarnessInv, todo = <<>>, bench # "returned"
    PROVE  Good /\ AtRest /\ iter \in 0 .. kIter
<1>1. Good /\ iter \in 0 .. kIter /\ (InSetup \/ AtRest \/ Midway \/ Finished)
    BY DEF HarnessInv
<1>2. ~Midway
  <2> SUFFICES ASSUME Midway PROVE FALSE
      OBVIOUS
  <2>1. todo # <<>>
      BY <1>1, MidFacts
  <2> QED BY <2>1
<1>3. ~Finished
    BY DEF Finished
<1> QED BY <1>1, <1>2, <1>3, SetupDone

LEMMA TimedStep ==
    ASSUME HarnessInv, Measure
    PROVE  HarnessInv' /\ Hit
<1>1. /\ todo = <<>> /\ bench # "returned" /\ iter < kIter /\ iter' = iter + 1
      /\ bench' = bench /\ row' = row /\ total_' = total_ + 1
    BY DEF Measure, record
<1>2. Good /\ AtRest /\ iter \in 0 .. kIter
    BY <1>1, NothingToSend
<1>3. Good' /\ (AtRest' \/ Midway') /\ Hit
    BY <1>2, MeasureStep
<1>4. iter' \in 0 .. kIter
    BY <1>1, <1>2, Numbers
<1>5. OwnHistogram'
    BY <1>1 DEF HarnessInv, OwnHistogram
<1> QED BY <1>3, <1>4, <1>5 DEF HarnessInv


LEMMA RowStep ==
    ASSUME HarnessInv, PrintRow
    PROVE  HarnessInv'
<1>1. /\ todo = <<>> /\ bench # "returned" /\ iter = kIter /\ iter' = 0
      /\ bench' = main[bench] /\ total_' = 0 /\ row' = print_row(bench)
      /\ todo' = IF bench' = "returned" THEN <<>> ELSE HarnessSetup(bench')
    BY DEF PrintRow, NewHistogram
<1>2. Good /\ AtRest /\ iter \in 0 .. kIter /\ OwnHistogram
    BY <1>1, NothingToSend DEF HarnessInv
<1>3. Init'
    BY <1>2 DEF PrintRow, Init, Good
<1>4. (Init => Good)'
    BY InitGood, PTL
<1>5. (/\ Init /\ iter = 0 /\ bench \in Booked \cup {"ParseAdd"} /\ todo = HarnessSetup(bench)
       => Good /\ (InSetup \/ AtRest))'
    BY Fresh, PTL
<1>6. bench' \in Booked \cup {"ParseAdd", "returned"}
    BY <1>1, <1>2 DEF AtRest, Booked, main
<1>7. Good' /\ (InSetup' \/ AtRest' \/ Finished')
  <2>1. CASE bench' = "returned"
    <3>1. todo' = <<>>
        BY <2>1, <1>1
    <3> QED BY <2>1, <3>1, <1>3, <1>4 DEF Finished
  <2>2. CASE bench' \in Booked \cup {"ParseAdd"}
    <3>1. bench' # "returned"
        BY <2>2 DEF Booked
    <3>2. todo' = HarnessSetup(bench')
        BY <3>1, <1>1
    <3>3. HarnessSetup(bench)' = HarnessSetup(bench')
        BY DEF HarnessSetup, Setup
    <3> QED BY <2>2, <3>2, <3>3, <1>1, <1>3, <1>5
  <2> QED BY <2>1, <2>2, <1>6
<1>8. OwnHistogram'
    BY <1>1 DEF OwnHistogram
<1>9. iter' \in 0 .. kIter
    BY <1>1, Numbers
<1> QED BY <1>7, <1>8, <1>9 DEF HarnessInv

LEMMA HarnessInit_Inv == HarnessInit => HarnessInv
<1> SUFFICES ASSUME HarnessInit PROVE HarnessInv
    OBVIOUS
<1>1. /\ Init /\ iter = 0 /\ bench = "AddBid" /\ todo = HarnessSetup(bench) /\ row = NoRow
      /\ total_ = 0
    BY DEF HarnessInit, HistogramInit
<1>2. bench \in Booked
    BY <1>1 DEF Booked
<1>3. Good /\ (InSetup \/ AtRest)
    BY <1>1, <1>2, Fresh
<1>4. OwnHistogram /\ iter \in 0 .. kIter
    BY <1>1, Numbers DEF OwnHistogram
<1> QED BY <1>3, <1>4 DEF HarnessInv

LEMMA HarnessNext_Inv == HarnessInv /\ [HarnessNext]_state => HarnessInv'
<1> SUFFICES ASSUME HarnessInv, [HarnessNext]_state PROVE HarnessInv'
    OBVIOUS
<1>1. CASE SendUntimed
    BY <1>1, UntimedStep
<1>2. CASE Measure
    BY <1>2, TimedStep
<1>3. CASE PrintRow
    BY <1>3, RowStep
<1>4. CASE UNCHANGED state
  <2>1. UNCHANGED vars /\ bench' = bench /\ iter' = iter /\ todo' = todo /\ total_' = total_ /\ row' = row
      BY <1>4 DEF state, run, hist
  <2>2. Here' = Here /\ fault' = fault /\ book' = book /\ is_open_' = is_open_
      BY <2>1 DEF vars, Here
  <2>3. IndInv'
      BY <2>1, NextOK DEF HarnessInv, Good
  <2>4. Good'
      BY <2>2, <2>3 DEF HarnessInv, Good
  <2>5. OwnHistogram'
      BY <2>1 DEF HarnessInv, OwnHistogram
  <2>6. /\ InSetup => InSetup'
        /\ AtRest => AtRest'
        /\ Midway => Midway'
        /\ Finished => Finished'
    <3>1. InSetup => InSetup'
        BY <2>1, <2>2 DEF InSetup, SetupAt
    <3>2. AtRest => AtRest'
        BY <2>1, <2>2 DEF AtRest
    <3>3. Midway => Midway'
        BY <2>1, <2>2 DEF Midway
    <3>4. Finished => Finished'
        BY <2>1 DEF Finished
    <3> QED BY <3>1, <3>2, <3>3, <3>4
  <2> QED BY <2>1, <2>4, <2>5, <2>6 DEF HarnessInv
<1>5. CASE Returned
    BY <1>4, <1>5 DEF Returned
<1> QED BY <1>1, <1>2, <1>3, <1>4, <1>5 DEF HarnessNext

LEMMA HarnessInvariance == HarnessSpec => []HarnessInv
BY HarnessInit_Inv, HarnessNext_Inv, PTL DEF HarnessSpec

(***************************************************************************)
(* Every latency that is recorded is that of an operation that hit: the    *)
(* add added, the delete deleted, the cancel left shares, the replace      *)
(* found its order.                                                        *)
(***************************************************************************)
THEOREM LatenciesAreOfHits == HarnessSpec => MeasuresHits
<1>1. ASSUME HarnessInv, [HarnessNext]_state PROVE [total_' > total_ => Hit]_state
  <2>1. CASE Measure
      BY <1>1, <2>1, TimedStep
  <2>2. CASE SendUntimed \/ Returned \/ UNCHANGED state
    <3>1. total_' = total_ /\ total_ \in Int
        BY <1>1, <2>2, Numbers DEF SendUntimed, Returned, state, hist, HarnessInv, OwnHistogram
    <3> QED BY <3>1
  <2>3. CASE PrintRow
    <3>1. total_' = 0 /\ total_ \in 0 .. kIter
        BY <1>1, <2>3 DEF PrintRow, NewHistogram, HarnessInv, OwnHistogram
    <3> QED BY <3>1, Numbers
  <2> QED BY <1>1, <2>1, <2>2, <2>3 DEF HarnessNext
<1>2. HarnessSpec => [][total_' > total_ => Hit]_state
    BY <1>1, HarnessInvariance, PTL DEF HarnessSpec
<1> QED BY <1>2 DEF MeasuresHits, Hit


(* A row of the harness is one benchmark of bench_book, or ParseAdd. *)
LEMMA HarnessBench ==
    ASSUME HarnessInv
    PROVE  /\ bench \in Booked \cup {"ParseAdd", "returned"}
           /\ bench \in Benchmarks => bench \in Booked
           /\ bench # "MixedWorkload"
<1>1. InSetup \/ AtRest \/ Midway \/ Finished
    BY DEF HarnessInv
<1>2. InSetup => bench \in Booked
    BY DEF InSetup, SetupAt
<1>3. AtRest => bench \in Booked \cup {"ParseAdd"}
    BY DEF AtRest
<1>4. Midway => bench \in Booked
    BY DEF Midway, Booked
<1>5. Finished => bench = "returned"
    BY DEF Finished
<1>6. bench \in Booked \cup {"ParseAdd", "returned"}
    BY <1>1, <1>2, <1>3, <1>4, <1>5
<1> QED BY <1>6 DEF Booked, Benchmarks

(***************************************************************************)
(* Every message of the harness, timed or not, finds what it is sent for.  *)
(***************************************************************************)
THEOREM HarnessMessagesAct == HarnessSpec => []EveryMessageActs
<1>1. ASSUME HarnessInv, todo # <<>> PROVE Acts(Head(todo))
  <2>1. Good /\ (InSetup \/ AtRest \/ Midway \/ Finished)
      BY <1>1 DEF HarnessInv
  <2>2. ~AtRest /\ ~Finished
      BY <1>1 DEF AtRest, Finished
  <2>3. \A r \in Refs : order_map_[r] # nullptr <=> View(Here)[r] # nullptr
    <3>1. StateOK(Here)
        BY <2>1 DEF Good, IndInv
    <3> QED BY <3>1, ViewedIn, HereFields
  <2>4. CASE InSetup
    <3>1. PICK n \in 0 .. ScriptLen(bench) : SetupAt(n)
        BY <2>4 DEF InSetup
    <3>2. n + 1 \in 1 .. ScriptLen(bench) /\ Head(todo) = Script(bench, n + 1) /\ free_list # {}
        BY <1>1, <2>1, <3>1, SetupHead
    <3>3. /\ bench \in Booked /\ (n >= 1 => is_open_ = TRUE) /\ View(Here) = SetView(bench, n)
          /\ ScriptLen(bench) \in Nat
        BY <3>1, Numbers DEF SetupAt, ScriptLen
    <3>4. CASE n = 0
      <4>1. Head(todo).type = "S"
          BY <3>2, <3>4 DEF Script, make_sys
      <4> QED BY <4>1 DEF Acts
    <3>5. CASE n # 0
      <4> DEFINE k == n + 1
                 r == ScriptRef(bench, k)
                 m == Script(bench, k)
      <4>1. k \in 2 .. ScriptLen(bench) /\ n >= 1 /\ ~(k <= n)
          BY <3>2, <3>3, <3>5
      <4> HIDE DEF k
      <4>2. m.type = "A" /\ m.ref = r /\ r \in Refs
          BY <4>1, <3>3, ScriptAdds
      <4>3. Pos(bench, r) = k
          BY <4>1, <3>3, ScriptRefs
      <4> HIDE DEF m, r
      <4>4. View(Here)[r] = nullptr
          BY <4>1, <4>2, <4>3, <3>3 DEF SetView
      <4>5. Head(todo) = m
          BY <3>2 DEF m, k
      <4> QED BY <4>1, <4>2, <4>4, <4>5, <2>3, <3>2, <3>3 DEF Acts
    <3> QED BY <3>4, <3>5
  <2>5. CASE Midway
    <3>1. is_open_ = TRUE /\ free_list # {} /\ bench \in {"AddBid", "AddAsk", "Delete"}
        BY <2>1, <2>5, MidFacts DEF Midway
    <3>2. CASE bench \in {"AddBid", "AddAsk"}
      <4> DEFINE x == AddRef(iter - 1)
                 m == Head(todo)
      <4>1. x \in Refs /\ View(Here)[x] # nullptr /\ m = make_delete(x)
          BY <2>1, <2>5, <3>2, MidFacts
      <4> HIDE DEF x, m
      <4>2. m.type = "D" /\ m.ref = x
          BY <4>1 DEF make_delete
      <4>3. Acts(m)
          BY <4>1, <4>2, <2>3 DEF Acts
      <4> QED BY <4>3 DEF m
    <3>3. CASE bench = "Delete"
      <4> DEFINE x == PoolRef(iter - 1)
                 m == Head(todo)
      <4>1. x \in Refs /\ View(Here)[x] = nullptr /\ m = make_add("B", kBid, kLot, x)
          BY <2>1, <2>5, <3>3, MidFacts
      <4> HIDE DEF x, m
      <4>2. m.type = "A" /\ m.ref = x
          BY <4>1 DEF make_add
      <4>3. Acts(m)
          BY <4>1, <4>2, <2>3, <3>1 DEF Acts
      <4> QED BY <4>3 DEF m
    <3> QED BY <3>1, <3>2, <3>3
  <2> QED BY <2>1, <2>2, <2>4, <2>5
<1>2. HarnessInv => EveryMessageActs
    BY <1>1 DEF EveryMessageActs
<1> QED BY <1>2, HarnessInvariance, PTL

(***************************************************************************)
(* Between iterations a benchmark of the harness has the live orders of    *)
(* its set-up, no more and no fewer, and the pool one slot for each,       *)
(* however many iterations have run.                                       *)
(***************************************************************************)
THEOREM HarnessIsSteady == HarnessSpec => []SteadyState
<1>1. ASSUME HarnessInv, todo = <<>>, bench \in Benchmarks
      PROVE  /\ Cardinality(live) = Len(Setup(bench)) - (IF CaughtUp THEN 2 ELSE 1)
             /\ Cardinality(free_list) = Cardinality(Slots) - Len(Setup(bench)) + 1
  <2>1. bench \in Booked /\ bench # "returned" /\ ~CaughtUp
      BY <1>1, HarnessBench DEF Booked, CaughtUp
  <2>2. Good /\ AtRest /\ iter \in 0 .. kIter
      BY <1>1, <2>1, NothingToSend
  <2>3. live = LiveSet(bench, iter)
      BY <2>1, <2>2, RestFacts
  <2>4. Cardinality(live) = ScriptLen(bench) - 1
      BY <2>1, <2>2, <2>3, LiveSetCount
  <2>5. Len(Setup(bench)) = ScriptLen(bench) /\ ScriptLen(bench) \in Nat
      BY <2>1, SetupIs, Numbers DEF ScriptLen
  <2>6. /\ Cardinality(free_list) = Cardinality(Slots) - Cardinality(live)
        /\ Cardinality(Slots) \in Nat
      BY <2>2, Counts DEF Good
  <2> DEFINE L == ScriptLen(bench)
             S == Cardinality(Slots)
  <2> HIDE DEF L, S
  <2>7. L \in Nat /\ S \in Nat /\ S - (L - 1) = S - L + 1
      BY <2>5, <2>6 DEF L, S
  <2> QED BY <2>1, <2>4, <2>5, <2>6, <2>7 DEF L, S
<1>2. HarnessInv => SteadyState
    BY <1>1 DEF SteadyState
<1> QED BY <1>2, HarnessInvariance, PTL

(***************************************************************************)
(* With the numbers of the program no benchmark of the harness stops, for  *)
(* a full pool or a failed assertion of the book, and none ever has more   *)
(* slots in use than one beyond its set-up's orders: not in the set-up,    *)
(* not between iterations and not within one, however many there are.      *)
(***************************************************************************)
THEOREM HarnessFitsPool == HarnessSpec => []PoolSuffices
<1>1. ASSUME HarnessInv, bench \in Benchmarks
      PROVE  Cardinality(Slots) - Cardinality(free_list) <= Len(Setup(bench))
  <2>1. bench \in Booked /\ bench # "returned" /\ bench # "ParseAdd"
      BY <1>1, HarnessBench DEF Booked
  <2>2. Good /\ iter \in 0 .. kIter /\ (InSetup \/ AtRest \/ Midway \/ Finished)
      BY <1>1 DEF HarnessInv
  <2>3. Cardinality(live) <= ScriptLen(bench)
    <3>1. CASE InSetup
      <4>1. live \subseteq LiveSet(bench, 0)
          BY <3>1, <2>2, SetupLive DEF InSetup, Good
      <4>2. 0 \in 0 .. kIter
          BY Numbers
      <4> QED BY <4>1, <4>2, <2>1, <2>2, AtMostSetup
    <3>2. CASE AtRest
      <4>1. live \subseteq LiveSet(bench, iter)
          BY <3>2, <2>1, <2>2, RestFacts
      <4> QED BY <4>1, <2>1, <2>2, AtMostSetup
    <3>3. CASE Midway
        BY <3>3, <2>2, MidFacts
    <3>4. CASE Finished
        BY <3>4, <2>1 DEF Finished
    <3> QED BY <2>2, <3>1, <3>2, <3>3, <3>4
  <2>4. Len(Setup(bench)) = ScriptLen(bench) /\ ScriptLen(bench) \in Nat
      BY <2>1, SetupIs, Numbers DEF ScriptLen
  <2>5. /\ Cardinality(free_list) = Cardinality(Slots) - Cardinality(live)
        /\ Cardinality(Slots) \in Nat /\ Cardinality(live) \in Nat
      BY <2>2, Counts DEF Good
  <2> QED BY <2>3, <2>4, <2>5
<1>2. HarnessInv => fault = "none"
    BY DEF HarnessInv, Good
<1>3. HarnessInv => PoolSuffices
    BY <1>1, <1>2 DEF PoolSuffices
<1> QED BY <1>3, HarnessInvariance, PTL


-----------------------------------------------------------------------------
(***************************************************************************)
(* The window.  A live order at the best price of its side keeps the side  *)
(* centred on that price: it is linked, so it is not better than the       *)
(* reference price, and no reference price is better than the best.        *)
(***************************************************************************)
BestPrice(s) == IF s = "B" THEN kBid ELSE kAsk

LEMMA AtTheBest ==
    ASSUME Good, NEW s \in Side, NEW r \in Refs, View(Here)[r] # nullptr,
           View(Here)[r].side = s, View(Here)[r].price = BestPrice(s)
    PROVE  book[s].ref = BestPrice(s) /\ book[s].best = 0
<1> DEFINE o == order_map_[r]
           od == pool_[o]
           ref == book[s].ref
           p == BestPrice(s)
<1>1. IndInv /\ StateOK(Here) /\ Fed(Here) /\ KeptIn(Here, WarmPrices)
    BY DEF Good, IndInv
<1>2. r \in live /\ o # nullptr /\ od.price = p /\ od.side = s
    BY <1>1, ViewedLive DEF live
<1>3. od.level_idx # -1 /\ od.price \in WarmPrices
    BY <1>1, <1>2, HereFields DEF KeptIn, KeptAt
<1>4. ref # 0 /\ od.level_idx = NewIdx(s, ref, od)
    BY <1>1, <1>2, HereFields DEF Fed, Priced, PricedAt
<1>5. ref \in SidePrices(s) /\ ref \in WarmPrices /\ p \in WarmPrices
    BY <1>2, <1>3, <1>4 DEF Good, SidePrices
<1>6. PriceIdx(s, ref, p) = TicksWorse(s, ref, p)
  <2>1. ref \in Prices /\ p \in Prices
      BY <1>5, HarnessSizes
  <2> HIDE DEF ref, p
  <2> QED BY <2>1, IdxIsTicks
<1>7. PriceIdx(s, ref, p) \in Indices /\ od.level_idx = PriceIdx(s, ref, p)
    BY <1>2, <1>3, <1>4 DEF NewIdx
<1>8. ref \in Nat /\ p \in Nat /\ kBid \in Nat /\ kAsk \in Nat
    BY <1>5, GoodPrice, Numbers
<1>9. TicksWorse(s, ref, p) >= 0
    BY <1>6, <1>7 DEF Indices
<1>10. ref = p
  <2>1. CASE s = "B"
    <3>1. ref <= kBid /\ p = kBid /\ ref - p >= 0
        BY <2>1, <1>5, <1>9 DEF SidePrices, BestPrice, TicksWorse
    <3> HIDE DEF ref, p
    <3> QED BY <3>1, <1>8
  <2>2. CASE s = "S"
    <3>1. ref >= kAsk /\ p = kAsk /\ p - ref >= 0
        BY <2>2, <1>5, <1>9 DEF SidePrices, BestPrice, TicksWorse
    <3> HIDE DEF ref, p
    <3> QED BY <3>1, <1>8
  <2> QED BY <2>1, <2>2 DEF Side
<1>11. od.level_idx = 0
  <2>1. TicksWorse(s, ref, p) = 0
    <3> HIDE DEF ref, p
    <3> QED BY <1>8, <1>10 DEF TicksWorse
  <2> QED BY <2>1, <1>6, <1>7
<1>12. o \in At(book[s], 0)
    BY <1>1, <1>2, <1>11, HereFields DEF StateOK, MapOK
<1>13. SideOK(book[s])
    BY <1>1, HereFields DEF StateOK
<1>14. 0 \in Indices /\ \A i \in Indices : i \in Nat
    BY BookAssumption DEF Indices
<1> DEFINE sd == book[s]
<1>15. ~level_empty(sd.levels[0])
  <2>1. LevelOK(sd.levels[0], Slots)
      BY <1>13, <1>14 DEF SideOK, LevelsOK
  <2>2. sd.levels[0].fifo \in Seq(Slots) /\ sd.levels[0].order_count = Len(sd.levels[0].fifo)
      BY <2>1 DEF LevelOK, Level
  <2>3. Len(sd.levels[0].fifo) # 0
    <3> DEFINE f == sd.levels[0].fifo
    <3>1. o \in Range(f) /\ f \in Seq(Slots)
        BY <1>12, <2>2 DEF At
    <3> HIDE DEF f
    <3>2. PICK i \in DOMAIN f : f[i] = o
        BY <3>1 DEF Range
    <3>3. i \in 1 .. Len(f)
        BY <3>1, <3>2
    <3>4. Len(f) # 0
        BY <3>1, <3>3
    <3> QED BY <3>4 DEF f
  <2> QED BY <2>2, <2>3 DEF level_empty
<1>16. sd.best = 0
  <2>1. \/ sd.best = -1 /\ \A i \in Indices : level_empty(sd.levels[i])
        \/ sd.best \in Indices /\ \A i \in Indices : i < sd.best => level_empty(sd.levels[i])
      BY <1>13 DEF SideOK, BestOK
  <2> HIDE DEF sd
  <2> QED BY <2>1, <1>14, <1>15
<1> QED BY <1>10, <1>16

(* The orders of the warm-up are there from the first iteration on. *)
LEMMA WarmStays ==
    ASSUME HarnessInv, iter > 0, bench \in Benchmarks, NEW r \in Warm
    PROVE  View(Here)[r] = WarmOrder(r)
<1>1. bench \in Booked /\ r \in Refs
    BY HarnessBench, RefFacts
<1>2. AtRest \/ Midway
  <2>1. ~InSetup
      BY Numbers DEF InSetup, SetupAt
  <2>2. ~Finished
      BY <1>1 DEF Finished, Booked
  <2> QED BY <2>1, <2>2 DEF HarnessInv
<1>3. Steady(bench, iter)[r] = WarmOrder(r) /\ Steady(bench, iter) = [q \in Refs |-> SteadyAt(bench, iter, q)]
    BY <1>1 DEF Steady, SteadyAt
<1>4. CASE AtRest
    BY <1>3, <1>4 DEF AtRest
<1>5. CASE Midway
  <2> DEFINE x == AddRef(iter - 1)
             y == PoolRef(iter - 1)
             W == Steady(bench, iter)
  <2>1. x # r /\ y # r
    <3> DEFINE i == iter - 1
    <3>1. i \in 0 .. kIter /\ i \in Nat
        BY <1>5, Numbers DEF Midway
    <3> HIDE DEF i
    <3>2. AddRef(i) \notin Warm /\ PoolRef(i) \in Pool
        BY <3>1, RefFacts, CursorInPool
    <3>3. AddRef(i) # r /\ PoolRef(i) # r
        BY <3>2, RefFacts
    <3> QED BY <3>3 DEF i
  <2>2. \/ View(Here) = [W EXCEPT ![x] = Target]
        \/ View(Here) = [W EXCEPT ![x] = AskTarget]
        \/ View(Here) = [W EXCEPT ![y] = nullptr]
      BY <1>5 DEF Midway
  <2>w. W = [q \in Refs |-> W[q]]
      BY DEF Steady
  <2> HIDE DEF x, y, W
  <2>3. View(Here)[r] = W[r]
      BY <2>1, <2>2, <2>w, <1>1
  <2> QED BY <2>3, <1>3 DEF W
<1> QED BY <1>2, <1>4, <1>5

(* n is a multiple of n. *)
LEMMA SelfMod == ASSUME NEW n \in Nat \ {0} PROVE n % n = 0
<1> DEFINE q == n \div n
           m == n % n
<1>1. q \in Int /\ m \in 0 .. n - 1 /\ n = n * q + m
    BY Euclid
<1> HIDE DEF q, m
<1> DEFINE t == q - 1
<1>2. t \in Int /\ n * t = -m
    BY <1>1
<1> HIDE DEF t
<1>3. n * t < n /\ -n < n * t
  <2>1. -m < n /\ -n < -m
      BY <1>1
  <2> QED BY <2>1, <1>2
<1>4. t = 0
    BY <1>2, <1>3, SmallMultiple
<1>5. n * t = 0
    BY <1>4
<1>6. m = 0
    BY <1>1, <1>2, <1>5
<1> QED BY <1>6 DEF m

(***************************************************************************)
(* From the first iteration on the reference prices are locked in: no      *)
(* iteration of the harness re-centres a side, and its adds are measured   *)
(* at the best level.                                                      *)
(***************************************************************************)
THEOREM HarnessLocksWindow == HarnessSpec => []WindowLockedIn
<1>1. ASSUME HarnessInv, iter > 0, bench \in Benchmarks
      PROVE  /\ book["B"].ref = kBid /\ book["B"].best = 0
             /\ book["S"].ref = kAsk /\ book["S"].best = 0
  <2>0. Good
      BY <1>1 DEF HarnessInv
  <2> DEFINE r == kSpread
             t == kWarm + kSpread
  <2>1. kSpread % kSpread = 0
      BY SelfMod, Numbers
  <2>2. /\ r \in Warm /\ t \in Warm /\ r <= kWarm /\ ~(t <= kWarm) /\ t - kWarm = kSpread
        /\ kBid - 0 * kTick = kBid /\ kAsk + 0 * kTick = kAsk
      BY Numbers DEF Warm
  <2>3. WarmOrder(r) = [side |-> "B", price |-> kBid, shares |-> 2 * kLot]
      BY <2>1, <2>2 DEF WarmOrder
  <2>4. WarmOrder(t) = [side |-> "S", price |-> kAsk, shares |-> 2 * kLot]
      BY <2>1, <2>2 DEF WarmOrder
  <2> HIDE DEF r, t
  <2>5. View(Here)[r] = WarmOrder(r) /\ View(Here)[t] = WarmOrder(t)
      BY <1>1, <2>2, WarmStays
  <2>6. r \in Refs /\ t \in Refs /\ WarmOrder(r) # nullptr /\ WarmOrder(t) # nullptr
      BY <2>2, RefFacts, GoodOrders, RestingIsNot
  <2>7. book["B"].ref = kBid /\ book["B"].best = 0
    <3>1. /\ View(Here)[r] # nullptr /\ View(Here)[r].side = "B"
          /\ View(Here)[r].price = BestPrice("B") /\ "B" \in Side /\ BestPrice("B") = kBid
        BY <2>3, <2>5, <2>6 DEF BestPrice, Side
    <3> QED BY <3>1, <2>0, <2>6, AtTheBest
  <2>8. book["S"].ref = kAsk /\ book["S"].best = 0
    <3>1. /\ View(Here)[t] # nullptr /\ View(Here)[t].side = "S"
          /\ View(Here)[t].price = BestPrice("S") /\ "S" \in Side /\ BestPrice("S") = kAsk
        BY <2>4, <2>5, <2>6 DEF BestPrice, Side
    <3> QED BY <3>1, <2>0, <2>6, AtTheBest
  <2> QED BY <2>7, <2>8
<1>2. HarnessInv => WindowLockedIn
    BY <1>1 DEF WindowLockedIn
<1> QED BY <1>2, HarnessInvariance, PTL
=============================================================================
