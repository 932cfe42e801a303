------------------------------- MODULE Histogram -------------------------------
(***************************************************************************)
(* The latency histogram of include/bench/rdtsc.hpp: one bucket per        *)
(* nanosecond, the last of which takes everything from kBuckets - 1 up.    *)
(* Each benchmark has a histogram of its own; reset() is never called.     *)
(***************************************************************************)
EXTENDS Integers, FiniteSets

CONSTANTS kBuckets,     \* number of buckets
          Nanoseconds,  \* the latencies that are recorded
          MaxCount      \* bound on the number of recordings of a histogram

ASSUME HistogramAssumption ==
    /\ kBuckets \in Nat \ {0}
    /\ Nanoseconds \subseteq Nat
    /\ MaxCount \in Nat

VARIABLES buckets_, total_,
          recorded   \* the latencies it has recorded, in order

hist == <<buckets_, total_, recorded>>

Buckets == 0 .. kBuckets - 1

HistogramInit ==
    /\ buckets_ = [i \in Buckets |-> 0]
    /\ total_ = 0
    /\ recorded = [k \in {} |-> 0]

bucket_of(ns) == IF ns < kBuckets - 1 THEN ns ELSE kBuckets - 1

record(ns) ==
    /\ total_ < MaxCount
    /\ buckets_' = [buckets_ EXCEPT ![bucket_of(ns)] = @ + 1]
    /\ total_' = total_ + 1
    /\ recorded' = [k \in 1 .. total_ + 1 |-> IF k <= total_ THEN recorded[k] ELSE ns]

(* The next benchmark's histogram: its member initialisers. *)
NewHistogram ==
    /\ buckets_' = [i \in Buckets |-> 0]
    /\ total_' = 0
    /\ recorded' = [k \in {} |-> 0]

-----------------------------------------------------------------------------
(* The running sum of the loop in percentile, after bucket i. *)
cum[i \in -1 .. kBuckets - 1] == IF i < 0 THEN 0 ELSE cum[i - 1] + buckets_[i]

(***************************************************************************)
(* percentile(p), for the arguments p = num / den of p50, p99 and p999.    *)
(* The code truncates the double p * total_.  For these three that is the  *)
(* exact floor, with any total below 2^40: 0.50 is a double, and those     *)
(* nearest to 0.99 and 0.999 are below them by so little that the product  *)
(* rounds to the integer when num * total_ / den is one.  For others it    *)
(* may be one less (0.7 * 90 truncates to 62), so num / den is no other.   *)
(***************************************************************************)
(* Mutant: stops a bucket early when the sum equals the target. *)
percentile_reached(num, den) ==
    LET target == (num * total_) \div den
    IN  IF total_ = 0 THEN 0
        ELSE CHOOSE i \in Buckets : cum[i] >= target /\ \A j \in 0 .. i - 1 : cum[j] < target

(* The first bucket at which the sum exceeds the target, or the last bucket. *)
percentile(num, den) ==
    LET target == (num * total_) \div den
        over   == {i \in Buckets : cum[i] > target}
    IN  CASE total_ = 0 -> 0
          [] total_ # 0 /\ over = {} -> kBuckets - 1
          [] OTHER -> CHOOSE i \in over : \A j \in over : i <= j

p50 == percentile(50, 100)
p99 == percentile(99, 100)

(* Mutant: a digit is missing from the argument. *)
p999_typo == percentile(99, 1000)

p999 == percentile(999, 1000)

-----------------------------------------------------------------------------
(* The value at 0-based position k of the recorded latencies in increasing order. *)
Ranked(k) ==
    LET below(v)  == Cardinality({j \in DOMAIN recorded : recorded[j] < v})
        upto(v)   == Cardinality({j \in DOMAIN recorded : recorded[j] <= v})
    IN  CHOOSE v \in Nanoseconds : below(v) <= k /\ k < upto(v)

(***************************************************************************)
(* p50, p99 and p999 are the latencies at position floor(p * total) of the *)
(* recorded ones in increasing order, cut off at the last bucket, also     *)
(* when latencies repeat, leave buckets empty or pass the end of the range. *)
(***************************************************************************)
PercentileIsRank ==
    total_ > 0 =>
        /\ p50 = bucket_of(Ranked((50 * total_) \div 100))
        /\ p99 = bucket_of(Ranked((99 * total_) \div 100))
        /\ p999 = bucket_of(Ranked((999 * total_) \div 1000))

(***************************************************************************)
(* The figures print_row prints are those of the recorded latencies: none  *)
(* exceeds the largest one, and p50, p99 and p999 are in order.            *)
(***************************************************************************)
PrintedInOrder ==
    /\ p50 <= p99 /\ p99 <= p999
    /\ total_ > 0 => p999 <= bucket_of(Ranked(total_ - 1))
=============================================================================
