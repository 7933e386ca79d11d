------------------------------ MODULE Histogram ------------------------------
(***************************************************************************)
(* The figures of a report (runner/reporter.go): which details Finalize    *)
(* makes them of, the percentiles of Latencies, the choice of the tail,    *)
(* and the loop of Histogram.  Latencies are whole milliseconds; the marks *)
(* of the buckets, fractions in tenths, are multiplied by 10.  Percentages *)
(* are in thousandths.  Of the rounding of float64 only what decides the   *)
(* index of a percentile is modelled: whether its ordinal comes out whole. *)
(***************************************************************************)
EXTENDS Integers, Sequences, FiniteSets

CONSTANTS
    Runs,       \* what the reporter gathered: [details, p999, countErrors, ...] records
    CleanAt     \* how many latencies make the tail be cut off (100)

\* A detail is a [ms, error] record; the error is "" for a call that succeeded.
ASSUME HistogramAssumption ==
    /\ \A r \in Runs : /\ r.p999 \in BOOLEAN /\ r.countErrors \in BOOLEAN
                       /\ r.details \in Seq([ms: Nat, error: STRING])
    /\ CleanAt \in Nat

\* The number of buckets: bc in the source.
NumBuckets == 10

VARIABLES
    run,            \* what the reporter gathered
    lats,           \* okLats, sorted
    i,              \* how many latencies the loop has counted
    bi,             \* the current bucket
    counts

vars == <<run, lats, i, bi, counts>>

p999 == run.p999

\* The details whose latency counts, in Finalize, and how many of their latencies
\* come no later than the one of k when they are sorted.
Ok(r) == {k \in DOMAIN r.details : r.details[k].error = "" \/ r.countErrors}

Place(r, k) ==
    Cardinality({j \in Ok(r) : \/ r.details[j].ms < r.details[k].ms
                               \/ r.details[j].ms = r.details[k].ms /\ j <= k})

\* sort.Float64s
OkLats(r) ==
    LET places == {<<k, Place(r, k)>> : k \in Ok(r)}
    IN  [n \in 1..Cardinality(Ok(r)) |-> r.details[CHOOSE k \in Ok(r) : <<k, n>> \in places].ms]

-----------------------------------------------------------------------------
(* Latencies and the tail of Finalize *)

Percentiles == {100, 250, 500, 750, 900, 950, 990} \cup (IF p999 THEN {999} ELSE {})

\* 100 percent.
Full == 1000

\* Mutant of Rank: a whole ordinal is taken for an index.
RankUnadjusted(p, n) == (p * n) \div Full + 1

\* By how much the float64 that p/100.0 gives exceeds the fraction: in thousandths
\* of 2^-53, half the last place of a float64 in 1..2.
Excess(p) == CASE p = 100 -> 50 [] p = 900 -> 200 [] p = 999 -> 992
               [] p = 950 -> -400 [] p = 990 -> -80 [] OTHER -> 0

\* The binary exponents of ordinals: there are fewer than 2^31 latencies.
Exponents == 0..30

\* The product of that float64 and n exceeds the whole ordinal p*n/Full by more
\* than half the last place of a float64 of its size, so that it is not rounded
\* to the ordinal but to a float64 above it.
RoundedAbove(p, n) ==
    LET x == (p * n) \div Full
    IN  \E k \in Exponents : 2^k <= x /\ x < 2 * 2^k /\ Excess(p) * n > Full * 2^k

\* The index Latencies takes, counted from 1: the ordinal p*n/Full rounded up
\* (the code rounds down, counts from 0 and goes back by one if the ordinal is
\* whole: ip == float64(di)), and never before the first.  An ordinal that is not
\* whole, or is rounded below a whole one, has the same index either way.
Rank(p, n) ==
    LET di == (p * n) \div Full
        whole == (p * n) % Full = 0 /\ ~RoundedAbove(p, n)
        d == IF whole THEN di - 1 ELSE di
    IN  IF d < 0 THEN 1 ELSE d + 1

Percentile(p) == lats[Rank(p, Len(lats))]

fastest == lats[1]
slowest == lats[Len(lats)]

\* A percentile of zero is left out of the distribution, and not found there.
tailPercentile ==
    IF p999 /\ Percentile(999) > 0 THEN Percentile(999)
    ELSE IF Percentile(990) > 0 THEN Percentile(990)
    ELSE slowest

-----------------------------------------------------------------------------
(* Histogram *)

cleanTail == Len(lats) >= CleanAt
graphSlowest == IF cleanTail THEN tailPercentile ELSE slowest

\* buckets[b], times 10
Mark(b) == IF b = NumBuckets - 1 THEN 10 * graphSlowest
           ELSE 10 * fastest + (graphSlowest - fastest) * b

Init ==
    /\ run \in Runs /\ lats = OkLats(run)
    /\ i = 0 /\ bi = 0
    /\ counts = [b \in 0..NumBuckets - 1 |-> 0]

\* latencies[i] <= buckets[bi]
Count ==
    /\ i < Len(lats) /\ 10 * lats[i + 1] <= Mark(bi)
    /\ i' = i + 1
    /\ counts' = [counts EXCEPT ![bi] = @ + 1]
    /\ UNCHANGED <<run, lats, bi>>

NextBucket ==
    /\ i < Len(lats) /\ 10 * lats[i + 1] > Mark(bi)
    /\ bi < NumBuckets - 1
    /\ bi' = bi + 1
    /\ UNCHANGED <<run, lats, i, counts>>

\* Mutant of CountTail: the latency beyond the last mark is dropped.
CountTailDropped ==
    /\ i < Len(lats) /\ 10 * lats[i + 1] > Mark(bi)
    /\ bi = NumBuckets - 1
    /\ i' = i + 1
    /\ UNCHANGED <<run, lats, bi, counts>>

\* Beyond the last mark: counts[bi-1]++.
CountTail ==
    /\ i < Len(lats) /\ 10 * lats[i + 1] > Mark(bi)
    /\ bi = NumBuckets - 1
    /\ i' = i + 1
    /\ counts' = [counts EXCEPT ![bi - 1] = @ + 1]
    /\ UNCHANGED <<run, lats, bi>>

Next == Count \/ NextBucket \/ CountTail

-----------------------------------------------------------------------------
(* Properties *)

Finished == i = Len(lats)

UpTo(v) == {k \in 1..Len(lats) : lats[k] <= v}

\* The value v is the nearest-rank percentile p: a latency that at least p of the
\* latencies do not exceed, and the smallest such.
IsNearestRank(p, v) ==
    LET enough(w) == Full * Cardinality(UpTo(w)) >= p * Len(lats)
    IN  enough(v) /\ \A w \in {lats[k] : k \in 1..Len(lats)} : enough(w) => v <= w

\* The value reported for p is the nearest-rank percentile, but for one: the p99.9
\* of whole thousands of latencies, where 99.9/100.0*n may be rounded above the
\* whole ordinal, may be the latency that follows it in order: of 1000 latencies
\* the maximum (reporter.go:424-431).  No other percentile is ever rounded so.
PercentileIsNearestRank ==
    Finished /\ lats # <<>> => \A p \in Percentiles :
        \/ IsNearestRank(p, Percentile(p))
        \/ /\ p = 999 /\ Len(lats) % 1000 = 0
           /\ Percentile(p) = lats[(p * Len(lats)) \div Full + 1]

\* The latencies for which the mark of b is the first that is not below them, and
\* those beyond the last mark.
Own(b) == {k \in 1..Len(lats) : 10 * lats[k] <= Mark(b) /\ (b > 0 => 10 * lats[k] > Mark(b - 1))}
Beyond == {k \in 1..Len(lats) : 10 * lats[k] > Mark(NumBuckets - 1)}

\* Every latency up to the last mark is counted in the bucket whose mark is the
\* first one not below it; no latency is lost, although the walk never goes
\* back to an earlier bucket.  The latencies beyond the last mark are counted in
\* the bucket before the last, although the last one carries their label.
BucketsCountTheirOwn ==
    Finished /\ lats # <<>> =>
        \A b \in 0..NumBuckets - 1 :
            counts[b] = Cardinality(Own(b))
                        + (IF b = NumBuckets - 2 THEN Cardinality(Beyond) ELSE 0)

=============================================================================
