------------------------------ MODULE Profiles ------------------------------
(***************************************************************************)
(* NormalityProfile (src/detection/normality_profile.cpp): the statistics  *)
(* of a coreset's distances to itself, from which the coreset evolution    *)
(* takes its thresholds, over all of the coreset or over a sample of it.   *)
(*                                                                         *)
(* Patches lie on a line.  A flat index asked for more neighbours than it  *)
(* has answers with the largest float, here Far.  Shares and normalcy are  *)
(* in thousandths; the standard deviation, which nothing reads, is left    *)
(* out.                                                                    *)
(***************************************************************************)
EXTENDS Integers, Sequences, SequencesExt, FiniteSets, FiniteSetsExt, TLC

CONSTANTS
    Coresets,     \* banks: sequences of positions on the line
    Neighbours,   \* values of k
    Samples,      \* values of sample_count
    TailMax,      \* tail_ratio_max, in thousandths
    Far           \* the largest float

VARIABLES
    coreset,      \* the bank
    asked,        \* the k and sample_count of the last call
    profile,      \* Compute's answer
    fast          \* ComputeFast's
profileVars == <<coreset, asked, profile, fast>>

Empty == [k |-> 5, samples |-> 0, p50 |-> 0, p95 |-> 0, p99 |-> 0, mean |-> 0, normalcy |-> 0]

-----------------------------------------------------------------------------
(* Compute and ComputeFast                                                  *)

Ascending(s) == SortSeq(s, LAMBDA a, b : a < b)

\* The last of k + 1 answers to a search for the bank's own i-th patch, itself
\* among them.
NearestBut(bank, i, k) ==
    LET all == Ascending([j \in DOMAIN bank |-> (bank[j] - bank[i]) * (bank[j] - bank[i])]) IN
    IF k + 1 <= Len(all) THEN all[k + 1] ELSE Far

\* Variant of Percentile: the index is that of the size, not of the last index.
PercentileOf(sorted, p) == sorted[Min({(p * Len(sorted)) \div 100, Len(sorted) - 1}) + 1]

Percentile(sorted, p) == sorted[(p * (Len(sorted) - 1)) \div 100 + 1]

\* The share of distances above the 95th percentile, against the share allowed.
SelfNormalcy(sorted) ==
    LET tail == Cardinality({i \in DOMAIN sorted : sorted[i] > Percentile(sorted, 95)})
        share == (1000 * tail) \div Len(sorted)
    IN IF TailMax = 0 THEN 1000 ELSE 1000 - Min({1000, (1000 * share) \div TailMax})

ProfileOf(bank, k, sorted) ==
    [k |-> k, samples |-> Len(bank), p50 |-> Percentile(sorted, 50), p95 |-> Percentile(sorted, 95),
     p99 |-> Percentile(sorted, 99), mean |-> FoldSeq(+, 0, sorted) \div Len(sorted),
     normalcy |-> SelfNormalcy(sorted)]

Compute(bank, k) ==
    IF bank = <<>> THEN Empty
    ELSE ProfileOf(bank, k, Ascending([i \in DOMAIN bank |-> NearestBut(bank, i, k)]))

\* A stride that divides the bank evenly, rounded down.
ComputeFast(bank, k, count) ==
    IF bank = <<>> THEN Empty
    ELSE LET n == Min({count, Len(bank)})
             stride == Len(bank) \div n
         IN ProfileOf(bank, k, Ascending([i \in 1 .. n |-> NearestBut(bank, (i - 1) * stride + 1, k)]))

\* ConsensusThreshold and EvolutionGate; a normalcy of 0 counts as no profile.
ConsensusThreshold(p) == IF p.normalcy = 0 THEN 400 ELSE (p.normalcy * 8) \div 10
EvolutionGate(p) == IF p.normalcy = 0 THEN 300 ELSE (p.normalcy * 7) \div 10

-----------------------------------------------------------------------------
(* Calls                                                                    *)

ProfilesInit ==
    coreset = <<>> /\ asked = [k |-> 5, count |-> 1] /\ profile = Empty /\ fast = Empty

\* Both of a bank: the evolution profiles a sample, a test compares the two.
ProfilesNext ==
    /\ coreset = <<>>
    /\ coreset' \in Coresets
    /\ \E k \in Neighbours, count \in Samples :
         /\ asked' = [k |-> k, count |-> count]
         /\ profile' = Compute(coreset', k)
         /\ fast' = ComputeFast(coreset', k, count)

-----------------------------------------------------------------------------
(* Properties                                                               *)

Distances == [i \in DOMAIN coreset |-> NearestBut(coreset, i, asked.k)]

\* A percentile is a distance of the bank with at most that share of the others
\* below it and about the rest above it (percentile in Compute).
IsPercentile(v, p) ==
    LET others == Len(coreset) - 1
        below == Cardinality({i \in DOMAIN Distances : Distances[i] < v})
        above == Cardinality({i \in DOMAIN Distances : Distances[i] > v})
    IN /\ \E i \in DOMAIN Distances : Distances[i] = v
       /\ 100 * below <= p * others /\ 100 * above < (100 - p) * others + 100

\* Compute's percentiles are percentiles, the sampled ones are those of the
\* whole bank when the sample is as large, and else still distances of the bank,
\* wherever the stride leads (Compute, ComputeFast).
ProfileDescribesBank ==
    coreset # <<>> =>
        /\ IsPercentile(profile.p50, 50) /\ IsPercentile(profile.p95, 95) /\ IsPercentile(profile.p99, 99)
        /\ asked.count >= Len(coreset) => fast = profile
        /\ \A v \in {fast.p50, fast.p95, fast.p99} : \E i \in DOMAIN Distances : Distances[i] = v

-----------------------------------------------------------------------------
(* What the documentation says and the code does not do: see the README.     *)

\* Documented (normality_profile.cpp:145-148): a looser material has a lower
\* normalcy, and the threshold is relaxed with it.  At a normalcy of 0 it jumps up.
LooserIsLaxer ==
    profile.samples > 0 /\ fast.samples > 0 =>
        (profile.normalcy <= fast.normalcy <=> ConsensusThreshold(profile) <= ConsensusThreshold(fast))
=============================================================================
