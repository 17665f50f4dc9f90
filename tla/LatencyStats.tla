---------------------------- MODULE LatencyStats ----------------------------
(* The latency accumulator of the three programs (three copies of one      *)
(* struct): extremes, sum and a histogram, updated with every sample, from *)
(* which the reports at the end take averages and percentiles.             *)
EXTENDS RunningSums, FiniteSetsExt

CONSTANTS
    BOUNDS,         \* upper bounds of all buckets but the last
    UINT64_MAX,
    Samples,        \* bound: latencies that are measured
    MaxSamples      \* bound: measurements

\* What a program measures does not add up to 2^64 ns, 584 years.
ASSUME LatencyAssumption ==
    /\ BOUNDS \in Seq(Nat) /\ \A i, j \in DOMAIN BOUNDS : i < j => BOUNDS[i] < BOUNDS[j]
    /\ UINT64_MAX \in Nat /\ MaxSamples \in Nat
    /\ Samples \subseteq 0 .. UINT64_MAX
    /\ \A ns \in Samples : ns * MaxSamples <= UINT64_MAX

VARIABLES
    stats,      \* LatencyStats
    samples     \* history: how often each latency was measured

latency == <<stats, samples>>

N_BUCKETS == Len(BOUNDS) + 1
Buckets == 1 .. N_BUCKETS

LatencyInit ==
    /\ stats = [min_ns |-> UINT64_MAX, max_ns |-> 0, sum_ns |-> 0, count |-> 0,
                buckets |-> [b \in Buckets |-> 0]]
    /\ samples = [ns \in Samples |-> 0]

\* Bug: a latency equal to a bound is put into the bucket below it.
Bucket_Below(ns) == Min({b \in Buckets : b < N_BUCKETS => ns <= BOUNDS[b]})

\* The first bucket whose bound is above the latency; the last one has none.
Bucket(ns) == Min({b \in Buckets : b < N_BUCKETS => ns < BOUNDS[b]})

record(ns) ==
    /\ stats.count < MaxSamples
    /\ stats' = [min_ns  |-> IF ns < stats.min_ns THEN ns ELSE stats.min_ns,
                 max_ns  |-> IF ns > stats.max_ns THEN ns ELSE stats.max_ns,
                 sum_ns  |-> (stats.sum_ns + ns) % (UINT64_MAX + 1),
                 count   |-> stats.count + 1,
                 buckets |-> [stats.buckets EXCEPT ![Bucket(ns)] = @ + 1]]
    /\ samples' = [samples EXCEPT ![ns] = @ + 1]

LatencyNext == \E ns \in Samples : record(ns)

LatencySpec == LatencyInit /\ [][LatencyNext]_latency

\* Bug: the share must be exceeded, not reached.
Percentile_Exceeded(p) ==
    LET cum == RunningSum(stats.buckets)
    IN  Min({b \in Buckets : 100 * cum[b] > p * stats.count} \cup {N_BUCKETS})

\* print_histogram(): the first bucket at which the share of the samples up to
\* it reaches p hundredths, the last one if none does.
Percentile(p) ==
    LET cum == RunningSum(stats.buckets)
    IN  Min({b \in Buckets : 100 * cum[b] >= p * stats.count} \cup {N_BUCKETS})
-----------------------------------------------------------------------------
(* The same, from the samples themselves.                                  *)

\* The samples in a set of latencies, each as the k-th of its latency.
Taken(S) == {s \in S \X (1 .. MaxSamples) : s[2] <= samples[s[1]]}

\* How many there are, and what they add up to: the nanoseconds they are made of.
Count(S) == Cardinality(Taken(S))
SumOf(S) == Cardinality(UNION {{s} \X (1 .. s[1]) : s \in Taken(S)})

Seen == {ns \in Samples : samples[ns] > 0}
UpTo(ns) == {x \in Samples : x <= ns}

\* Nearest rank: the smallest sample that p hundredths of the samples do not exceed.
Ranked(p) == Min({ns \in Seen : 100 * Count(UpTo(ns)) >= p * stats.count})

InBucket(ns, b) ==
    /\ b > 1 => BOUNDS[b - 1] <= ns
    /\ b < N_BUCKETS => ns < BOUNDS[b]

\* The percentile that is printed is the range in which the sample of that
\* rank lies, although the samples themselves are not kept.
PercentilesAreRanks ==
    stats.count > 0 =>
      \A p \in {50, 95, 99} : InBucket(Ranked(p), Percentile(p))

\* Extremes, average and histogram, updated sample by sample, are those of all
\* samples taken together.
StatsMatchSamples ==
    /\ stats.count = Count(Samples) /\ stats.sum_ns = SumOf(Samples)
    /\ Seen # {} => /\ {stats.min_ns, stats.max_ns} \subseteq Seen
                    /\ \A ns \in Seen : stats.min_ns <= ns /\ ns <= stats.max_ns
    /\ \A b \in Buckets :
         stats.buckets[b] = Count({ns \in Samples : InBucket(ns, b)})
=============================================================================
