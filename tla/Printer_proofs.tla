---------------------------- MODULE Printer_proofs ----------------------------
(***************************************************************************)
(* Proofs about the figures of a report and the documents printed of it,   *)
(* for any details, any CleanAt and any number of documents.               *)
(***************************************************************************)
EXTENDS Printer, FiniteSetTheorems, SequenceTheorems, WellFoundedInduction,
        TLAPS

-----------------------------------------------------------------------------
(* Sorting *)

Sorted(s) == \A j, k \in 1..Len(s) : j <= k => s[j] <= s[k]

\* The details whose latency counts are finitely many, and each has a latency.
LEMMA OkDetails ==
    ASSUME NEW r \in Runs
    PROVE  /\ Ok(r) \in SUBSET (1..Len(r.details)) /\ IsFiniteSet(Ok(r))
           /\ \A k \in Ok(r) : r.details[k].ms \in Nat
  <1> DEFINE Detail == [ms: Nat, error: STRING]
  <1>1. r.details \in Seq(Detail)
    BY HistogramAssumption DEF HistogramAssumption
  <1>2. DOMAIN r.details = 1..Len(r.details) /\ Len(r.details) \in Nat
    <2> HIDE DEF Detail
    <2> QED  BY <1>1, LenProperties
  <1>3. \A k \in 1..Len(r.details) : r.details[k] \in Detail
    <2> HIDE DEF Detail
    <2> QED  BY <1>1, ElementOfSeq
  <1>4. Ok(r) \in SUBSET (1..Len(r.details))
    BY <1>2 DEF Ok
  <1>5. IsFiniteSet(1..Len(r.details))
    BY <1>2, FS_Interval
  <1>6. IsFiniteSet(Ok(r))
    BY <1>4, <1>5, FS_Subset
  <1>7. \A k \in Ok(r) : r.details[k].ms \in Nat
    BY <1>3, <1>4
  <1> QED  BY <1>4, <1>6, <1>7

\* The details that come no later than k when they are sorted.
NoLater(r, k) ==
    {j \in Ok(r) : \/ r.details[j].ms < r.details[k].ms
                   \/ r.details[j].ms = r.details[k].ms /\ j <= k}

\* A detail that comes before another has a smaller place.
LEMMA PlaceOrder ==
    ASSUME NEW r \in Runs, NEW k \in Ok(r), NEW l \in Ok(r),
           \/ r.details[k].ms < r.details[l].ms
           \/ r.details[k].ms = r.details[l].ms /\ k < l
    PROVE  Place(r, k) < Place(r, l)
  <1>1. /\ IsFiniteSet(Ok(r)) /\ Ok(r) \in SUBSET (1..Len(r.details))
        /\ \A j \in Ok(r) : r.details[j].ms \in Nat
    BY OkDetails
  <1>2. \A j \in Ok(r) : j \in Int
    BY <1>1
  <1>3. NoLater(r, k) \subseteq NoLater(r, l)
    BY <1>1, <1>2 DEF NoLater
  <1>4. l \in NoLater(r, l) /\ l \notin NoLater(r, k)
    BY <1>1, <1>2 DEF NoLater
  <1>5. IsFiniteSet(NoLater(r, k)) /\ IsFiniteSet(NoLater(r, l))
    BY <1>1, FS_Subset DEF NoLater
  <1>6. /\ Cardinality(NoLater(r, k)) <= Cardinality(NoLater(r, l))
        /\ Cardinality(NoLater(r, k)) # Cardinality(NoLater(r, l))
    BY <1>3, <1>4, <1>5, FS_Subset
  <1>7. Cardinality(NoLater(r, k)) \in Nat /\ Cardinality(NoLater(r, l)) \in Nat
    BY <1>5, FS_CardinalityType
  <1> QED  BY <1>6, <1>7 DEF Place, NoLater

\* The places of the details are the numbers from 1 on, each of one detail.
LEMMA PlacesTaken ==
    ASSUME NEW r \in Runs, NEW n \in 1..Cardinality(Ok(r))
    PROVE  \E k \in Ok(r) : Place(r, k) = n
  <1> DEFINE f == [k \in Ok(r) |-> Place(r, k)]
             N == Cardinality(Ok(r))
  <1>1. /\ IsFiniteSet(Ok(r)) /\ Ok(r) \in SUBSET (1..Len(r.details))
        /\ \A j \in Ok(r) : r.details[j].ms \in Nat
    BY OkDetails
  <1>2. N \in Nat
    BY <1>1, FS_CardinalityType
  <1>3. ASSUME NEW k \in Ok(r)  PROVE Place(r, k) \in 1..N
    <2>1. NoLater(r, k) \in SUBSET Ok(r) /\ k \in NoLater(r, k)
      BY <1>1 DEF NoLater
    <2>2. IsFiniteSet(NoLater(r, k)) /\ Cardinality(NoLater(r, k)) <= N
      BY <1>1, <2>1, FS_Subset
    <2>3. Cardinality(NoLater(r, k)) \in Nat /\ Cardinality(NoLater(r, k)) # 0
      BY <2>1, <2>2, FS_CardinalityType, FS_EmptySet
    <2> QED  BY <1>2, <2>2, <2>3 DEF Place, NoLater
  <1>4. ASSUME NEW k \in Ok(r), NEW l \in Ok(r), Place(r, k) = Place(r, l)
        PROVE  k = l
    <2>1. k \in Int /\ l \in Int /\ Place(r, k) \in Int /\ Place(r, l) \in Int
      BY <1>1, <1>3
    <2>2. ~(Place(r, k) < Place(r, l)) /\ ~(Place(r, l) < Place(r, k))
      BY <1>4, <2>1
    <2>3. ~(\/ r.details[k].ms < r.details[l].ms
            \/ r.details[k].ms = r.details[l].ms /\ k < l)
      BY <2>2, PlaceOrder
    <2>4. ~(\/ r.details[l].ms < r.details[k].ms
            \/ r.details[l].ms = r.details[k].ms /\ l < k)
      BY <2>2, PlaceOrder
    <2> QED  BY <1>1, <2>1, <2>3, <2>4
  <1>5. f \in Injection(Ok(r), 1..N)
    BY <1>3, <1>4 DEF Injection, IsInjective
  <1>6. IsFiniteSet(1..N) /\ Cardinality(1..N) = N
    BY <1>2, FS_Interval
  <1>7. f \in Surjection(Ok(r), 1..N)
    <2> HIDE DEF f, N
    <2> QED  BY <1>5, <1>6, FS_Injection DEF N
  <1>8. \E k \in Ok(r) : f[k] = n
    BY <1>7 DEF Surjection
  <1> QED  BY <1>8

\* What Finalize makes the figures of is the latencies that count, in order.
LEMMA OkLatsSorted ==
    ASSUME NEW r \in Runs
    PROVE  OkLats(r) \in Seq(Nat) /\ Sorted(OkLats(r))
  <1> DEFINE places == {<<k, Place(r, k)>> : k \in Ok(r)}
             at(n) == CHOOSE k \in Ok(r) : <<k, n>> \in places
             N == Cardinality(Ok(r))
  <1>1. /\ IsFiniteSet(Ok(r)) /\ Ok(r) \in SUBSET (1..Len(r.details))
        /\ \A j \in Ok(r) : r.details[j].ms \in Nat
    BY OkDetails
  <1>2. N \in Nat
    BY <1>1, FS_CardinalityType
  <1>3. \A n \in 1..N : at(n) \in Ok(r) /\ Place(r, at(n)) = n
    <2> TAKE n \in 1..N
    <2>1. \E k \in Ok(r) : Place(r, k) = n
      BY PlacesTaken
    <2>2. \E k \in Ok(r) : <<k, n>> \in places
      BY <2>1
    <2>3. at(n) \in Ok(r) /\ <<at(n), n>> \in places
      BY <2>2
    <2>4. PICK k \in Ok(r) : <<at(n), n>> = <<k, Place(r, k)>>
      BY <2>3
    <2> QED  BY <2>3, <2>4
  <1>4. OkLats(r) = [n \in 1..N |-> r.details[at(n)].ms]
    BY DEF OkLats
  <1> HIDE DEF places, at, N
  <1>5. /\ OkLats(r) \in [1..N -> Nat]
        /\ \A n \in 1..N : OkLats(r)[n] = r.details[at(n)].ms
    BY <1>1, <1>3, <1>4
  <1>6. OkLats(r) \in Seq(Nat) /\ Len(OkLats(r)) = N
    <2> HIDE <1>4
    <2> QED  BY <1>2, <1>5, SeqDef, LenProperties
  <1>7. ASSUME NEW j \in 1..N, NEW k \in 1..N, j <= k
        PROVE  OkLats(r)[j] <= OkLats(r)[k]
    <2>1. ~(Place(r, at(k)) < Place(r, at(j)))
      BY <1>3, <1>7
    <2>2. ~(r.details[at(k)].ms < r.details[at(j)].ms)
      BY <1>3, <2>1, PlaceOrder
    <2> QED  BY <1>1, <1>3, <1>5, <2>2
  <1> QED  BY <1>6, <1>7 DEF Sorted
-----------------------------------------------------------------------------
(* Percentiles *)

\* A whole ordinal is rounded above for p99.9 only.
LEMMA OrdinalsExact ==
    ASSUME NEW p \in Percentiles, p # 999, NEW n \in Nat \ {0}, (p * n) % Full = 0
    PROVE  ~RoundedAbove(p, n)
  <1> DEFINE x == (p * n) \div 1000
  <1>1. p \in {100, 250, 500, 750, 900, 950, 990}
    BY DEF Percentiles
  <1>2. x \in Int /\ p * n = 1000 * x
    BY <1>1 DEF Full
  <1> HIDE DEF x
  <1>3. SUFFICES ASSUME NEW b, b \in Int, b <= x, x < 2 * b, Excess(p) * n > 1000 * b
                 PROVE  FALSE
    <2>1. \A k \in Exponents : 2^k \in Int
      BY DEF Exponents
    <2> QED  BY <1>3, <2>1 DEF RoundedAbove, Full, x
  <1>4. CASE p = 100
    <2>1. 50 * n > 1000 * b
      BY <1>3, <1>4 DEF Excess
    <2> QED  BY <1>2, <1>3, <1>4, <2>1
  <1>5. CASE p = 900
    <2>1. 200 * n > 1000 * b
      BY <1>3, <1>5 DEF Excess
    <2> QED  BY <1>2, <1>3, <1>5, <2>1
  <1>6. CASE p \in {250, 500, 750, 950, 990}
    <2>1. Excess(p) \in Int /\ Excess(p) <= 0
      BY <1>6 DEF Excess
    <2>2. Excess(p) * n <= 0
      BY <2>1
    <2>3. 1000 * b > 0 /\ Excess(p) * n \in Int
      BY <1>2, <1>3, <2>1
    <2> QED  BY <1>3, <2>2, <2>3
  <1> QED  BY <1>1, <1>4, <1>5, <1>6

\* The index of a percentile is within the latencies.  It is the least one that p of n
\* are not beyond, or the next one if a whole ordinal is rounded above.
LEMMA RankRight ==
    ASSUME NEW p \in 1..(Full - 1), NEW n \in Nat \ {0}
    PROVE  /\ Rank(p, n) \in 1..n
           /\ IF (p * n) % Full = 0 /\ RoundedAbove(p, n)
              THEN Rank(p, n) = (p * n) \div Full + 1
              ELSE Full * Rank(p, n) >= p * n /\ Full * (Rank(p, n) - 1) < p * n
  <1> DEFINE q == p * n
             di == q \div 1000
             rest == q % 1000
             above == RoundedAbove(p, n)
             R == Rank(p, n)
  <1>1. q \in Nat /\ q >= 1 /\ q <= 1000 * n - n
    BY DEF Full
  <1>2. R = LET d == IF rest = 0 /\ ~above THEN di - 1 ELSE di IN IF d < 0 THEN 1 ELSE d + 1
    BY DEF Rank, Full
  <1> HIDE DEF q
  <1>3. di \in Int /\ q = 1000 * di + rest
    BY <1>1
  <1>4. rest \in Int /\ 0 <= rest /\ rest < 1000
    BY <1>1
  <1> HIDE DEF di, rest, above, R
  <1>5. /\ R \in 1..n
        /\ IF rest = 0 /\ above THEN R = di + 1 ELSE 1000 * R >= q /\ 1000 * (R - 1) < q
    <2>1. CASE rest = 0 /\ ~above
      BY <1>1, <1>2, <1>3, <2>1
    <2>2. CASE rest = 0 /\ above
      <3>1. R = di + 1
        BY <1>1, <1>2, <1>3, <2>2
      <3> QED  BY <1>1, <1>3, <2>2, <3>1
    <2>3. CASE rest # 0
      BY <1>1, <1>2, <1>3, <1>4, <2>3
    <2> QED  BY <2>1, <2>2, <2>3
  <1> QED  BY <1>5 DEF q, di, rest, above, R, Full

\* At least R of the latencies do not exceed the one at R, and fewer than R do not
\* exceed a smaller one.
LEMMA RankCounts ==
    ASSUME lats \in Seq(Nat), Sorted(lats), NEW R \in 1..Len(lats)
    PROVE  /\ Cardinality(UpTo(lats[R])) \in Nat /\ Cardinality(UpTo(lats[R])) >= R
           /\ \A v \in Nat : v < lats[R] => /\ Cardinality(UpTo(v)) \in Nat
                                            /\ Cardinality(UpTo(v)) <= R - 1
  <1>1. Len(lats) \in Nat /\ \A k \in 1..Len(lats) : lats[k] \in Nat
    BY LenProperties, ElementOfSeq
  <1>2. \A v : UpTo(v) \in SUBSET (1..Len(lats)) /\ IsFiniteSet(UpTo(v))
               /\ Cardinality(UpTo(v)) \in Nat
    <2> TAKE v
    <2>1. UpTo(v) \in SUBSET (1..Len(lats))
      BY DEF UpTo
    <2>2. IsFiniteSet(1..Len(lats))
      BY <1>1, FS_Interval
    <2> QED  BY <2>1, <2>2, FS_Subset, FS_CardinalityType
  <1>3. Cardinality(UpTo(lats[R])) >= R
    <2>1. 1..R \in SUBSET UpTo(lats[R])
      BY <1>1 DEF UpTo, Sorted
    <2>2. Cardinality(1..R) = R
      BY <1>1, FS_Interval
    <2> QED  BY <1>2, <2>1, <2>2, FS_Subset
  <1>4. ASSUME NEW v \in Nat, v < lats[R]  PROVE Cardinality(UpTo(v)) <= R - 1
    <2>1. UpTo(v) \in SUBSET (1..(R - 1))
      <3> SUFFICES ASSUME NEW k \in UpTo(v)  PROVE k \in 1..(R - 1)
        OBVIOUS
      <3>1. k \in 1..Len(lats) /\ lats[k] <= v
        BY DEF UpTo
      <3>2. ~(R <= k)
        BY <1>1, <1>4, <3>1 DEF Sorted
      <3> QED  BY <1>1, <3>1, <3>2
    <2>2. R - 1 \in Int /\ R - 1 >= 0
      BY <1>1
    <2>3. IsFiniteSet(1..(R - 1)) /\ Cardinality(1..(R - 1)) = R - 1
      BY <2>2, FS_Interval
    <2> QED  BY <2>1, <2>3, FS_Subset
  <1> QED  BY <1>2, <1>3, <1>4

LEMMA FullTimes ==
    ASSUME NEW a \in Int, NEW b \in Int, a <= b
    PROVE  Full * a \in Int /\ Full * b \in Int /\ Full * a <= Full * b
BY DEF Full

\* The percentile of sorted latencies is one of them.
LEMMA PercentileIsLatency ==
    ASSUME lats \in Seq(Nat), lats # <<>>, NEW p \in 1..(Full - 1)
    PROVE  Percentile(p) \in Nat /\ \E R \in 1..Len(lats) : Percentile(p) = lats[R]
  <1> DEFINE n == Len(lats)
             R == Rank(p, n)
  <1>1. n \in Nat \ {0} /\ \A k \in 1..n : lats[k] \in Nat
    BY LenProperties, ElementOfSeq, EmptySeq
  <1>2. R \in 1..n
    <2> HIDE DEF n
    <2> QED  BY <1>1, RankRight
  <1> QED  BY <1>1, <1>2 DEF Percentile

\* It is at its nearest rank, unless a whole ordinal is rounded above.
LEMMA NearestRank ==
    ASSUME lats \in Seq(Nat), Sorted(lats), lats # <<>>, NEW p \in 1..(Full - 1),
           ~((p * Len(lats)) % Full = 0 /\ RoundedAbove(p, Len(lats)))
    PROVE  IsNearestRank(p, Percentile(p))
  <1> DEFINE n == Len(lats)
             R == Rank(p, n)
  <1>1. n \in Nat \ {0} /\ \A k \in 1..n : lats[k] \in Nat
    BY LenProperties, ElementOfSeq, EmptySeq
  <1>0. Full \in Nat /\ p \in Nat
    BY DEF Full
  <1>2. R \in 1..n /\ Full * R >= p * n /\ Full * (R - 1) < p * n
    <2>1. ~((p * n) % Full = 0 /\ RoundedAbove(p, n))
      OBVIOUS
    <2> HIDE DEF n
    <2> QED  BY <1>1, <2>1, RankRight
  <1>3. Percentile(p) = lats[R]
    BY DEF Percentile
  <1> HIDE DEF R
  <1>4. Cardinality(UpTo(lats[R])) \in Nat /\ Cardinality(UpTo(lats[R])) >= R
    BY <1>2, RankCounts
  <1>5. p * n \in Nat
    BY <1>0, <1>1
  <1>6. Full * Cardinality(UpTo(lats[R])) >= p * n
    <2>1. R \in Int
      BY <1>1, <1>2
    <2>2. Full * R <= Full * Cardinality(UpTo(lats[R])) /\ Full * R \in Int
      BY <1>4, <2>1, FullTimes
    <2>3. Full * Cardinality(UpTo(lats[R])) \in Int
      BY <1>0, <1>4
    <2> HIDE DEF n
    <2> QED  BY <1>2, <1>5, <2>2, <2>3
  <1>7. ASSUME NEW k \in 1..n, Full * Cardinality(UpTo(lats[k])) >= p * n
        PROVE  lats[R] <= lats[k]
    <2> SUFFICES ASSUME lats[k] < lats[R]  PROVE FALSE
      BY <1>1, <1>2
    <2>1. Cardinality(UpTo(lats[k])) \in Nat /\ Cardinality(UpTo(lats[k])) <= R - 1
      BY <1>1, <1>2, RankCounts
    <2>2. \A r \in Int : Cardinality(UpTo(lats[k])) <= r
                        => /\ Full * Cardinality(UpTo(lats[k])) <= Full * r
                           /\ Full * Cardinality(UpTo(lats[k])) \in Int /\ Full * r \in Int
      BY <2>1, FullTimes
    <2>3. /\ Full * Cardinality(UpTo(lats[k])) <= Full * (R - 1)
          /\ Full * Cardinality(UpTo(lats[k])) \in Int /\ Full * (R - 1) \in Int
      <3>1. R - 1 \in Int
        BY <1>1, <1>2
      <3> QED  BY <2>1, <2>2, <3>1
    <2> HIDE DEF n
    <2> QED  BY <1>2, <1>5, <1>7, <2>3
  <1> QED  BY <1>3, <1>6, <1>7 DEF IsNearestRank, n
-----------------------------------------------------------------------------
(* Buckets *)

\* The range that the marks divide: from the fastest to the slowest shown.
LEMMA GraphRange ==
    ASSUME lats \in Seq(Nat), Sorted(lats), lats # <<>>
    PROVE  /\ fastest \in Nat /\ graphSlowest \in Nat /\ fastest <= graphSlowest
           /\ slowest \in Nat /\ tailPercentile \in Nat
  <1>1. Len(lats) \in Nat \ {0} /\ \A k \in 1..Len(lats) : lats[k] \in Nat
    BY LenProperties, ElementOfSeq, EmptySeq
  <1>2. \A k \in 1..Len(lats) : lats[k] \in Nat /\ fastest <= lats[k]
    BY <1>1 DEF Sorted, fastest
  <1>3. \A p \in {990, 999} : \E R \in 1..Len(lats) : Percentile(p) = lats[R]
    <2>1. 990 \in 1..(Full - 1) /\ 999 \in 1..(Full - 1)
      BY DEF Full
    <2>2. \A p \in 1..(Full - 1) : \E R \in 1..Len(lats) : Percentile(p) = lats[R]
      BY PercentileIsLatency
    <2> QED  BY <2>1, <2>2
  <1>4. \E R \in 1..Len(lats) : tailPercentile = lats[R]
    BY <1>1, <1>3 DEF tailPercentile, slowest
  <1>5. \E R \in 1..Len(lats) : graphSlowest = lats[R]
    BY <1>1, <1>4 DEF graphSlowest, slowest
  <1> QED  BY <1>1, <1>2, <1>4, <1>5 DEF fastest, slowest

LEMMA TimesOrder ==
    ASSUME NEW d \in Nat, NEW b \in 0..9, NEW c \in 0..9, b <= c
    PROVE  d * b \in Nat /\ d * b <= d * c /\ d * c <= 10 * d
  <1>1. d * (c - b) \in Nat /\ d * (10 - c) \in Nat
    <2>1. c - b \in Nat /\ 10 - c \in Nat
      OBVIOUS
    <2> QED  BY <2>1
  <1>2. d * c = d * b + d * (c - b) /\ 10 * d = d * c + d * (10 - c)
    OBVIOUS
  <1>3. d * b \in Nat /\ d * c \in Nat
    OBVIOUS
  <1> QED  BY <1>1, <1>2, <1>3

\* The marks are in order.
LEMMA MarkOrder ==
    ASSUME lats \in Seq(Nat), Sorted(lats), lats # <<>>,
           NEW b \in 0..9, NEW c \in 0..9, b <= c
    PROVE  Mark(b) \in Nat /\ Mark(c) \in Nat /\ Mark(b) <= Mark(c)
  <1> DEFINE d == graphSlowest - fastest
  <1>1. fastest \in Nat /\ graphSlowest \in Nat /\ d \in Nat /\ graphSlowest = fastest + d
    BY GraphRange
  <1>2. \A x \in 0..9 : Mark(x) = IF x = 9 THEN 10 * graphSlowest ELSE 10 * fastest + d * x
    BY DEF Mark, NumBuckets
  <1> HIDE DEF d
  <1>3. d * b \in Nat /\ d * c \in Nat /\ d * b <= d * c /\ d * c <= 10 * d /\ d * b <= 10 * d
    BY <1>1, TimesOrder
  <1> DEFINE e == d * b
             h == d * c
  <1>4. /\ Mark(b) = IF b = 9 THEN 10 * graphSlowest ELSE 10 * fastest + e
        /\ Mark(c) = IF c = 9 THEN 10 * graphSlowest ELSE 10 * fastest + h
    BY <1>2
  <1>5. e \in Nat /\ h \in Nat /\ e <= h /\ h <= 10 * d /\ e <= 10 * d
    BY <1>3
  <1> HIDE DEF e, h
  <1> QED  BY <1>1, <1>4, <1>5

\* Those of S that the loop has counted.
First(S, m) == {k \in S : k <= m}

LEMMA FirstOnes ==
    ASSUME NEW n \in Nat, NEW S \in SUBSET (1..n), NEW m \in 0..n
    PROVE  /\ IsFiniteSet(First(S, m)) /\ Cardinality(First(S, m)) \in Nat
           /\ m = 0 => First(S, m) = {}
           /\ m = n => First(S, m) = S
  <1>1. IsFiniteSet(1..n) /\ First(S, m) \in SUBSET (1..n)
    <2>1. First(S, m) \in SUBSET (1..n)
      BY DEF First
    <2> QED  BY <2>1, FS_Interval
  <1>2. IsFiniteSet(First(S, m)) /\ Cardinality(First(S, m)) \in Nat
    BY <1>1, FS_Subset, FS_CardinalityType
  <1>3. \A k \in S : ~(k <= 0) /\ k <= n
    OBVIOUS
  <1>4. (m = 0 => First(S, m) = {}) /\ (m = n => First(S, m) = S)
    BY <1>3 DEF First
  <1> QED  BY <1>2, <1>4

LEMMA FirstStep ==
    ASSUME NEW n \in Nat, NEW S \in SUBSET (1..n), NEW m \in 0..(n - 1)
    PROVE  Cardinality(First(S, m + 1)) = IF m + 1 \in S THEN Cardinality(First(S, m)) + 1
                                                         ELSE Cardinality(First(S, m))
  <1>1. m \in 0..n /\ m + 1 \in Int /\ m \in Int
    OBVIOUS
  <1>2. IsFiniteSet(First(S, m))
    BY <1>1, FirstOnes
  <1>3. ASSUME NEW k \in S  PROVE k <= m + 1 <=> k <= m \/ k = m + 1
    <2>1. k \in Int
      OBVIOUS
    <2> QED  BY <1>1, <2>1
  <1>4. m + 1 \notin First(S, m)
    BY <1>1 DEF First
  <1>5. First(S, m + 1) = IF m + 1 \in S THEN First(S, m) \cup {m + 1} ELSE First(S, m)
    BY <1>3 DEF First
  <1> QED  BY <1>2, <1>4, <1>5, FS_AddElement
\* How far the walk is: every bucket has been given its own of the latencies that were
\* counted, and the next latency is beyond all buckets before the current one.
WalkInv ==
    /\ run \in Runs /\ lats = OkLats(run)
    /\ i \in 0..Len(lats) /\ bi \in 0..9
    /\ counts \in [0..9 -> Nat]
    /\ lats # <<>> =>
          /\ i < Len(lats) /\ bi > 0 => 10 * lats[i + 1] > Mark(bi - 1)
          /\ \A b \in 0..9 :
                counts[b] = Cardinality(First(Own(b), i))
                            + (IF b = 8 THEN Cardinality(First(Beyond, i)) ELSE 0)
    /\ lats = <<>> => counts = [b \in 0..9 |-> 0]

LEMMA WalkLats ==
    ASSUME WalkInv
    PROVE  /\ lats \in Seq(Nat) /\ Sorted(lats) /\ Len(lats) \in Nat
           /\ \A k \in 1..Len(lats) : lats[k] \in Nat
           /\ \A b \in 0..9 : Own(b) \in SUBSET (1..Len(lats))
           /\ Beyond \in SUBSET (1..Len(lats))
  <1>1. lats \in Seq(Nat) /\ Sorted(lats)
    BY OkLatsSorted DEF WalkInv
  <1>2. Len(lats) \in Nat /\ \A k \in 1..Len(lats) : lats[k] \in Nat
    BY <1>1, LenProperties, ElementOfSeq
  <1> QED  BY <1>1, <1>2 DEF Own, Beyond

LEMMA WalkInit ==
    ASSUME Init
    PROVE  WalkInv
  <1>1. /\ run \in Runs /\ lats = OkLats(run) /\ i = 0 /\ bi = 0
        /\ counts = [b \in 0..9 |-> 0]
    BY DEF Init, NumBuckets
  <1>2. lats \in Seq(Nat) /\ Len(lats) \in Nat
    BY <1>1, OkLatsSorted, LenProperties
  <1>3. \A b \in 0..9 : First(Own(b), 0) = {}
    <2> TAKE b \in 0..9
    <2>1. Own(b) \in SUBSET (1..Len(lats))
      BY DEF Own
    <2> QED  BY <1>2, <2>1, FirstOnes
  <1>4. First(Beyond, 0) = {}
    <2>1. Beyond \in SUBSET (1..Len(lats)) /\ 0 \in 0..Len(lats)
      BY <1>2 DEF Beyond
    <2> QED  BY <1>2, <2>1, FirstOnes
  <1>5. \A b \in 0..9 :
           counts[b] = Cardinality(First(Own(b), i))
                       + (IF b = 8 THEN Cardinality(First(Beyond, i)) ELSE 0)
    BY <1>1, <1>3, <1>4, FS_EmptySet
  <1> QED  BY <1>1, <1>2, <1>5 DEF WalkInv

\* The latency the walk is at belongs to the current bucket if its mark is not below
\* it, and to no other; beyond the last mark it belongs to none.
LEMMA WhereItBelongs ==
    ASSUME WalkInv, i < Len(lats)
    PROVE  /\ 10 * lats[i + 1] <= Mark(bi) =>
                 i + 1 \notin Beyond /\ \A b \in 0..9 : i + 1 \in Own(b) <=> b = bi
           /\ 10 * lats[i + 1] > Mark(bi) /\ bi = 9 =>
                 i + 1 \in Beyond /\ \A b \in 0..9 : i + 1 \notin Own(b)
  <1>1. /\ i \in Nat /\ i + 1 \in 1..Len(lats) /\ lats[i + 1] \in Nat
        /\ bi \in 0..9 /\ lats # <<>>
        /\ bi > 0 => 10 * lats[i + 1] > Mark(bi - 1)
    <2>1. i \in Nat /\ i + 1 \in 1..Len(lats) /\ bi \in 0..9
      BY WalkLats DEF WalkInv
    <2>2. lats # <<>>
      BY <2>1, EmptySeq, WalkLats
    <2> QED  BY <2>1, <2>2, WalkLats DEF WalkInv
  <1>2. \A b, c \in 0..9 : b <= c => Mark(b) \in Nat /\ Mark(c) \in Nat /\ Mark(b) <= Mark(c)
    BY <1>1, WalkLats, MarkOrder
  <1>8. \A b \in 0..9 : Mark(b) \in Nat /\ Mark(9) \in Nat /\ Mark(b) <= Mark(9)
    <2> TAKE b \in 0..9
    <2>1. b <= 9 /\ 9 \in 0..9
      OBVIOUS
    <2> QED  BY <1>1, <2>1, WalkLats, MarkOrder
  <1> DEFINE x == 10 * lats[i + 1]
  <1>3. /\ x \in Nat
        /\ i + 1 \in Beyond <=> x > Mark(9)
        /\ \A b \in 0..9 : i + 1 \in Own(b) <=> x <= Mark(b) /\ (b > 0 => x > Mark(b - 1))
    BY <1>1 DEF Own, Beyond, NumBuckets
  <1>4. bi > 0 => x > Mark(bi - 1)
    BY <1>1
  <1> HIDE DEF x
  <1>5. ASSUME x <= Mark(bi)
        PROVE  x <= Mark(9) /\ \A b \in 0..9 : i + 1 \in Own(b) <=> b = bi
    <2>1. x <= Mark(9)
      <3>1. Mark(bi) \in Nat /\ Mark(9) \in Nat /\ Mark(bi) <= Mark(9)
        BY <1>1, <1>8
      <3> QED  BY <1>3, <1>5, <3>1
    <2>2. ASSUME NEW b \in 0..9  PROVE i + 1 \in Own(b) <=> b = bi
      <3>1. CASE b < bi
        <4>1. b \in 0..9 /\ bi - 1 \in 0..9 /\ b <= bi - 1
          BY <1>1, <3>1
        <4>2. Mark(b) \in Nat /\ Mark(bi - 1) \in Nat /\ Mark(b) <= Mark(bi - 1)
          BY <1>2, <4>1
        <4>3. x > Mark(bi - 1) /\ (i + 1 \in Own(b) => x <= Mark(b)) /\ b # bi
          BY <1>1, <1>3, <1>4, <3>1
        <4> QED  BY <1>3, <4>2, <4>3
      <3>2. CASE b > bi
        <4>1. b - 1 \in 0..9 /\ bi \in 0..9 /\ bi <= b - 1
          BY <1>1, <3>2
        <4>2. Mark(bi) \in Nat /\ Mark(b - 1) \in Nat /\ Mark(bi) <= Mark(b - 1)
          BY <1>2, <4>1
        <4>3. (i + 1 \in Own(b) => x > Mark(b - 1)) /\ b # bi
          BY <1>1, <1>3, <3>2
        <4> QED  BY <1>3, <1>5, <4>2, <4>3
      <3>3. CASE b = bi
        BY <1>3, <1>4, <1>5, <3>3
      <3> QED  BY <1>1, <3>1, <3>2, <3>3
    <2> QED  BY <2>1, <2>2
  <1>6. ASSUME x > Mark(9)
        PROVE  \A b \in 0..9 : i + 1 \notin Own(b)
    <2> TAKE b \in 0..9
    <2>1. Mark(b) \in Nat /\ Mark(9) \in Nat /\ Mark(b) <= Mark(9)
      BY <1>8
    <2> QED  BY <1>3, <1>6, <2>1
  <1>7. Mark(9) \in Nat
    BY <1>1, <1>8
  <1> QED  BY <1>3, <1>5, <1>6, <1>7 DEF x

LEMMA FiguresStay ==
    ASSUME UNCHANGED <<run, lats>>
    PROVE  /\ \A b : Mark(b)' = Mark(b) /\ Own(b)' = Own(b)
           /\ Beyond' = Beyond
BY DEF Mark, Own, Beyond, graphSlowest, cleanTail, tailPercentile, Percentile, p999, fastest, slowest

LEMMA WalkStep ==
    ASSUME WalkInv, [Next]_vars
    PROVE  WalkInv'
  <1> DEFINE n == Len(lats)
  <1>1. /\ lats \in Seq(Nat) /\ Sorted(lats) /\ n \in Nat
        /\ \A k \in 1..n : lats[k] \in Nat
        /\ \A b \in 0..9 : Own(b) \in SUBSET (1..n)
        /\ Beyond \in SUBSET (1..n)
    BY WalkLats
  <1>2. CASE UNCHANGED vars
    BY <1>2, FiguresStay DEF vars, WalkInv
  <1>3. ASSUME Next  PROVE WalkInv'
    <2>1. /\ UNCHANGED <<run, lats>> /\ i < n /\ i \in 0..(n - 1) /\ lats # <<>>
          /\ i' = i \/ i' = i + 1
      <3>1. UNCHANGED <<run, lats>> /\ i < n /\ (i' = i \/ i' = i + 1)
        BY <1>3 DEF Next, Count, NextBucket, CountTail
      <3>2. i \in 0..(n - 1)
        BY <1>1, <3>1 DEF WalkInv
      <3>3. lats # <<>>
        BY <1>1, <3>1, <3>2, EmptySeq
      <3> QED  BY <3>1, <3>2, <3>3
    <2>2. /\ \A b : Mark(b)' = Mark(b) /\ Own(b)' = Own(b)
          /\ Beyond' = Beyond
      BY <2>1, FiguresStay
    <2>3. bi \in 0..9 /\ counts \in [0..9 -> Nat] /\ (bi > 0 => 10 * lats[i + 1] > Mark(bi - 1))
      BY <2>1 DEF WalkInv
    <2>4. ASSUME NEW b \in 0..9
          PROVE  /\ counts[b] = Cardinality(First(Own(b), i))
                                + (IF b = 8 THEN Cardinality(First(Beyond, i)) ELSE 0)
                 /\ Cardinality(First(Own(b), i)) \in Nat /\ Cardinality(First(Beyond, i)) \in Nat
                 /\ Cardinality(First(Own(b), i + 1)) =
                        IF i + 1 \in Own(b) THEN Cardinality(First(Own(b), i)) + 1
                                            ELSE Cardinality(First(Own(b), i))
                 /\ Cardinality(First(Beyond, i + 1)) =
                        IF i + 1 \in Beyond THEN Cardinality(First(Beyond, i)) + 1
                                            ELSE Cardinality(First(Beyond, i))
      <3>1. i \in 0..n
        BY <1>1, <2>1
      <3>2. counts[b] = Cardinality(First(Own(b), i))
                        + (IF b = 8 THEN Cardinality(First(Beyond, i)) ELSE 0)
        BY <2>1 DEF WalkInv
      <3>3. Cardinality(First(Own(b), i)) \in Nat /\ Cardinality(First(Beyond, i)) \in Nat
        BY <1>1, <3>1, FirstOnes
      <3>4. Cardinality(First(Own(b), i + 1)) =
               IF i + 1 \in Own(b) THEN Cardinality(First(Own(b), i)) + 1
                                   ELSE Cardinality(First(Own(b), i))
        <4>1. n \in Nat /\ i \in 0..(n - 1) /\ Own(b) \in SUBSET (1..n)
          BY <1>1, <2>1
        <4> QED  BY <4>1, FirstStep
      <3>5. Cardinality(First(Beyond, i + 1)) =
               IF i + 1 \in Beyond THEN Cardinality(First(Beyond, i)) + 1
                                   ELSE Cardinality(First(Beyond, i))
        <4>1. n \in Nat /\ i \in 0..(n - 1) /\ Beyond \in SUBSET (1..n)
          BY <1>1, <2>1
        <4> QED  BY <4>1, FirstStep
      <3> QED  BY <3>2, <3>3, <3>4, <3>5
    <2>5. i' < n => lats[i + 1] <= lats[i' + 1]
      <3> SUFFICES ASSUME i' < n  PROVE lats[i + 1] <= lats[i' + 1]
        OBVIOUS
      <3>1. i + 1 \in 1..n /\ i' + 1 \in 1..n /\ i + 1 <= i' + 1
        BY <1>1, <2>1
      <3> QED  BY <1>1, <3>1 DEF Sorted
    <2>9. i' < n /\ bi > 0 => 10 * lats[i' + 1] > Mark(bi - 1)
      <3> SUFFICES ASSUME i' < n, bi > 0  PROVE 10 * lats[i' + 1] > Mark(bi - 1)
        OBVIOUS
      <3>1. lats[i + 1] \in Nat /\ lats[i' + 1] \in Nat /\ lats[i + 1] <= lats[i' + 1]
        BY <1>1, <2>1, <2>5
      <3>2. Mark(bi - 1) \in Nat
        <4>1. bi - 1 \in 0..9 /\ bi - 1 <= bi - 1
          BY <2>3
        <4> QED  BY <1>1, <2>1, <4>1, MarkOrder
      <3>3. 10 * lats[i + 1] > Mark(bi - 1)
        BY <2>3
      <3>4. 10 * lats[i + 1] \in Nat /\ 10 * lats[i' + 1] \in Nat
            /\ 10 * lats[i + 1] <= 10 * lats[i' + 1]
        BY <3>1
      <3> QED  BY <3>2, <3>3, <3>4
    <2>6. CASE Count
      <3>1. /\ 10 * lats[i + 1] <= Mark(bi) /\ i' = i + 1 /\ bi' = bi
            /\ counts' = [counts EXCEPT ![bi] = @ + 1]
        BY <2>6 DEF Count
      <3>2. i + 1 \notin Beyond /\ \A b \in 0..9 : i + 1 \in Own(b) <=> b = bi
        BY <2>1, <3>1, WhereItBelongs
      <3>3. \A b \in 0..9 :
               counts'[b] = Cardinality(First(Own(b), i + 1))
                            + (IF b = 8 THEN Cardinality(First(Beyond, i + 1)) ELSE 0)
        BY <2>3, <2>4, <3>1, <3>2
      <3>4. counts' \in [0..9 -> Nat]
        BY <2>3, <3>1
      <3>5. i' \in 0..n /\ (i' < n /\ bi > 0 => 10 * lats[i' + 1] > Mark(bi - 1))
        BY <1>1, <2>1, <3>1, <2>9
      <3> QED  BY <2>1, <2>2, <2>3, <3>1, <3>3, <3>4, <3>5 DEF WalkInv
    <2>7. CASE NextBucket
      <3>1. /\ 10 * lats[i + 1] > Mark(bi) /\ i' = i /\ bi' = bi + 1 /\ bi < 9
            /\ counts' = counts
        BY <2>7 DEF NextBucket, NumBuckets
      <3>2. bi' \in 0..9 /\ bi' - 1 = bi
        BY <2>3, <3>1
      <3> QED  BY <1>1, <2>1, <2>2, <2>3, <2>4, <3>1, <3>2 DEF WalkInv
    <2>8. CASE CountTail
      <3>1. /\ 10 * lats[i + 1] > Mark(bi) /\ i' = i + 1 /\ bi' = bi /\ bi = 9
            /\ counts' = [counts EXCEPT ![8] = @ + 1]
        BY <2>8 DEF CountTail, NumBuckets
      <3>2. i + 1 \in Beyond /\ \A b \in 0..9 : i + 1 \notin Own(b)
        BY <2>1, <3>1, WhereItBelongs
      <3>3. \A b \in 0..9 :
               counts'[b] = Cardinality(First(Own(b), i + 1))
                            + (IF b = 8 THEN Cardinality(First(Beyond, i + 1)) ELSE 0)
        BY <2>3, <2>4, <3>1, <3>2
      <3>4. counts' \in [0..9 -> Nat]
        BY <2>3, <3>1
      <3>5. i' \in 0..n /\ (i' < n /\ bi > 0 => 10 * lats[i' + 1] > Mark(bi - 1))
        BY <1>1, <2>1, <3>1, <2>9
      <3> QED  BY <2>1, <2>2, <2>3, <3>1, <3>3, <3>4, <3>5 DEF WalkInv
    <2> QED  BY <1>3, <2>6, <2>7, <2>8 DEF Next
  <1> QED  BY <1>2, <1>3

\* Printing leaves the figures alone.
LEMMA PrinterWalks ==
    ASSUME [PrinterNext]_allVars
    PROVE  [Next]_vars
  <1>1. CASE UNCHANGED allVars
    BY <1>1 DEF allVars, vars
  <1>2. CASE Figuring
    BY <1>2 DEF Figuring
  <1>3. CASE \E f \in Formats \cup {"xml"} : PrintReport(f) \/ PrintFails(f)
    BY <1>3 DEF PrintReport, PrintFails
  <1>4. CASE \E ending \in {"", "html", "parquet"} :
                WriteParquetFile(<<"r", ending>>) \/ WriteParquetSampleFile(<<"r", ending>>)
    BY <1>4 DEF WriteParquetFile, WriteParquetSampleFile
  <1> QED  BY <1>1, <1>2, <1>3, <1>4 DEF PrinterNext

LEMMA WalkCorrect == PrinterSpec => []WalkInv
  <1>1. PrinterInit => WalkInv
    BY WalkInit DEF PrinterInit
  <1>2. WalkInv /\ [PrinterNext]_allVars => WalkInv'
    BY WalkStep, PrinterWalks
  <1> QED  BY <1>1, <1>2, PTL DEF PrinterSpec

\* For any details a run kept, every percentile of its report is the smallest latency
\* that as many do not exceed; or it is the p99.9 of whole thousands of latencies, and
\* the next latency.
THEOREM PercentilesCorrect == PrinterSpec => []PercentileIsNearestRank
  <1>1. ASSUME WalkInv  PROVE PercentileIsNearestRank
    <2> SUFFICES ASSUME lats # <<>>, NEW p \in Percentiles
                 PROVE  \/ IsNearestRank(p, Percentile(p))
                        \/ /\ p = 999 /\ Len(lats) % 1000 = 0
                           /\ Percentile(p) = lats[(p * Len(lats)) \div Full + 1]
      BY DEF PercentileIsNearestRank
    <2> DEFINE n == Len(lats)
               above == (p * n) % Full = 0 /\ RoundedAbove(p, n)
    <2>1. p \in 1..(Full - 1)
      BY DEF Percentiles, Full
    <2>2. lats \in Seq(Nat) /\ Sorted(lats)
      BY <1>1, WalkLats
    <2>3. n \in Nat \ {0}
      BY <2>2, LenProperties, EmptySeq
    <2>4. CASE ~above
      BY <2>1, <2>2, <2>4, NearestRank
    <2>5. CASE above
      <3> HIDE DEF n
      <3>1. p = 999
        BY <2>3, <2>5, OrdinalsExact
      <3>2. n % 1000 = 0
        BY <2>3, <2>5, <3>1 DEF Full
      <3>3. Rank(p, n) = (p * n) \div Full + 1
        BY <2>1, <2>3, <2>5, RankRight
      <3> QED  BY <3>1, <3>2, <3>3 DEF Percentile, n
    <2> QED  BY <2>4, <2>5
  <1> QED  BY <1>1, WalkCorrect, PTL

\* For any details and any length at which the tail is cut off: no latency is lost
\* to the histogram, and each is counted in the bucket of its mark, or before the last
\* one when it is beyond the last mark.
THEOREM BucketsCorrect == PrinterSpec => []BucketsCountTheirOwn
  <1>1. ASSUME WalkInv  PROVE BucketsCountTheirOwn
    <2> SUFFICES ASSUME i = Len(lats), lats # <<>>, NEW b \in 0..9
                 PROVE  counts[b] = Cardinality(Own(b))
                                    + (IF b = 8 THEN Cardinality(Beyond) ELSE 0)
      BY DEF BucketsCountTheirOwn, Finished, NumBuckets
    <2>1. First(Own(b), i) = Own(b) /\ First(Beyond, i) = Beyond
      <3>1. /\ Len(lats) \in Nat /\ i \in 0..Len(lats)
            /\ Own(b) \in SUBSET (1..Len(lats)) /\ Beyond \in SUBSET (1..Len(lats))
        BY <1>1, WalkLats
      <3> QED  BY <3>1, FirstOnes
    <2> QED  BY <1>1, <2>1 DEF WalkInv
  <1> QED  BY <1>1, WalkCorrect, PTL
-----------------------------------------------------------------------------
(* The width of a number *)

\* The order of the numbers.
LessThan == {ss \in Nat \X Nat : ss[1] < ss[2]}

\* A set of numbers that is not empty has a least one.
LEMMA LeastNumber ==
    ASSUME NEW T \in SUBSET Nat, T # {}
    PROVE  \E x \in T : \A y \in T : x <= y
  <1>1. IsWellFoundedOn(LessThan, Nat)
    BY NatLessThanWellFounded DEF OpToRel, LessThan
  <1>2. PICK x \in T : \A y \in T : <<y, x>> \notin LessThan
    BY <1>1, WFMin
  <1>3. ASSUME NEW y \in T  PROVE x <= y
    <2>1. <<y, x>> \notin LessThan
      BY <1>2
    <2>2. x \in Nat /\ y \in Nat
      OBVIOUS
    <2>3. ~ (y < x)
      BY <2>1, <2>2 DEF LessThan
    <2> QED  BY <2>2, <2>3
  <1> QED  BY <1>3

\* A set of numbers that has 0 and every next one has them all.
LEMMA InductionOnSet ==
    ASSUME NEW S, 0 \in S, \A n \in Nat : n \in S => n + 1 \in S
    PROVE  Nat \subseteq S
  <1> DEFINE T == {n \in Nat : n \notin S}
  <1>1. SUFFICES ASSUME T # {}  PROVE FALSE
    OBVIOUS
  <1>2. PICK x \in T : \A y \in T : x <= y
    <2>1. T \in SUBSET Nat
      OBVIOUS
    <2> HIDE DEF T
    <2> QED  BY <1>1, <2>1, LeastNumber
  <1>3. x \in Nat /\ x # 0 /\ x \notin S
    OBVIOUS
  <1>4. x - 1 \in Nat /\ x - 1 \in S
    BY <1>2, <1>3
  <1> QED  BY <1>3, <1>4


\* A function that counts the digits of the numbers up to k.
CountsDigits(f, k) ==
    /\ f \in [0..k -> Nat]
    /\ \A n \in 0..k : f[n] = IF n < 10 THEN 1 ELSE 1 + f[n \div 10]

LEMMA TenthIsLess ==
    ASSUME NEW n \in Nat, ~(n < 10)
    PROVE  n \div 10 \in 0..(n - 1) /\ n \div 10 \in Nat
OBVIOUS

\* There is one, whatever k is.
LEMMA DigitsExist == \A k \in Nat : \E f : CountsDigits(f, k)
  <1> DEFINE S == {k \in Nat : \E f : CountsDigits(f, k)}
  <1>1. 0 \in S
    <2>1. CountsDigits([n \in 0..0 |-> 1], 0)
      BY DEF CountsDigits
    <2> QED  BY <2>1
  <1>2. ASSUME NEW k \in Nat, k \in S  PROVE k + 1 \in S
    <2>1. PICK f : CountsDigits(f, k)
      BY <1>2
    <2> DEFINE d == IF k + 1 < 10 THEN 1 ELSE 1 + f[(k + 1) \div 10]
               g == [n \in 0..(k + 1) |-> IF n = k + 1 THEN d ELSE f[n]]
    <2>2. f \in [0..k -> Nat] /\ \A n \in 0..k : f[n] = IF n < 10 THEN 1 ELSE 1 + f[n \div 10]
      BY <2>1 DEF CountsDigits
    <2>3. ~(k + 1 < 10) => (k + 1) \div 10 \in 0..k
      BY TenthIsLess
    <2>4. d \in Nat
      BY <2>2, <2>3
    <2> HIDE DEF d
    <2>5. g \in [0..(k + 1) -> Nat]
      BY <2>2, <2>4
    <2>6. ASSUME NEW n \in 0..(k + 1)
          PROVE  g[n] = IF n < 10 THEN 1 ELSE 1 + g[n \div 10]
      <3>1. CASE n = k + 1
        <4>1. ~(k + 1 < 10) => g[(k + 1) \div 10] = f[(k + 1) \div 10]
          BY <2>3
        <4>2. g[n] = d
          BY <3>1
        <4> QED  BY <3>1, <4>1, <4>2 DEF d
      <3>2. CASE n # k + 1
        <4>1. n \in 0..k /\ (~(n < 10) => n \div 10 \in 0..k /\ n \div 10 # k + 1)
          <5>1. n \in 0..k /\ n \in Nat
            BY <3>2
          <5> QED  BY <5>1, TenthIsLess
        <4>2. g[n] = f[n] /\ (~(n < 10) => g[n \div 10] = f[n \div 10])
          BY <4>1
        <4> QED  BY <2>2, <4>1, <4>2
      <3> QED  BY <3>1, <3>2
    <2> HIDE DEF g
    <2>7. CountsDigits(g, k + 1)
      BY <2>5, <2>6 DEF CountsDigits
    <2> QED  BY <2>7
  <1> HIDE DEF S
  <1>3. Nat \subseteq S
    BY <1>1, <1>2, InductionOnSet
  <1> QED  BY <1>3 DEF S

\* Two of them agree.
LEMMA DigitsAgree ==
    ASSUME NEW k \in Nat, NEW m \in Nat, NEW f, NEW g, CountsDigits(f, k), CountsDigits(g, m),
           NEW n \in Nat, n <= k, n <= m
    PROVE  f[n] = g[n]
  <1> DEFINE T == {x \in Nat : x <= k /\ x <= m /\ f[x] # g[x]}
  <1> SUFFICES ASSUME T # {}  PROVE FALSE
    OBVIOUS
  <1>1. PICK x \in T : \A y \in T : x <= y
    <2>1. T \in SUBSET Nat
      OBVIOUS
    <2> HIDE DEF T
    <2> QED  BY <2>1, LeastNumber
  <1>2. x \in 0..k /\ x \in 0..m /\ x \in Nat /\ f[x] # g[x]
    OBVIOUS
  <1>3. ~(x < 10)
    BY <1>2 DEF CountsDigits
  <1>4. x \div 10 \in Nat /\ x \div 10 <= x - 1
    BY <1>2, <1>3, TenthIsLess
  <1>5. f[x \div 10] = g[x \div 10]
    BY <1>1, <1>2, <1>4
  <1> QED  BY <1>2, <1>3, <1>5 DEF CountsDigits

\* The recursive definition of Digits has a solution.
LEMMA DigitsDef ==
    /\ Digits \in [Nat -> Nat]
    /\ \A n \in Nat : Digits[n] = IF n < 10 THEN 1 ELSE 1 + Digits[n \div 10]
  <1> DEFINE upTo(n) == CHOOSE f : CountsDigits(f, n)
             D == [n \in Nat |-> upTo(n)[n]]
  <1>1. \A n \in Nat : CountsDigits(upTo(n), n)
    BY DigitsExist
  <1> HIDE DEF upTo
  <1>2. \A n \in Nat : D[n] \in Nat
    BY <1>1 DEF CountsDigits
  <1>3. ASSUME NEW n \in Nat  PROVE D[n] = IF n < 10 THEN 1 ELSE 1 + D[n \div 10]
    <2>1. D[n] = IF n < 10 THEN 1 ELSE 1 + upTo(n)[n \div 10]
      BY <1>1 DEF CountsDigits
    <2>2. ~(n < 10) => D[n \div 10] = upTo(n)[n \div 10]
      <3> SUFFICES ASSUME ~(n < 10)  PROVE D[n \div 10] = upTo(n)[n \div 10]
        OBVIOUS
      <3>1. n \div 10 \in Nat /\ n \div 10 <= n
        BY TenthIsLess
      <3>2. upTo(n \div 10)[n \div 10] = upTo(n)[n \div 10]
        BY <1>1, <3>1, DigitsAgree
      <3> QED  BY <3>1, <3>2
    <2> QED  BY <2>1, <2>2
  <1>4. D = [n \in Nat |-> IF n < 10 THEN 1 ELSE 1 + D[n \div 10]]
    <2> HIDE DEF D
    <2> QED  BY <1>3 DEF D
  <1>5. Digits = [n \in Nat |-> IF n < 10 THEN 1 ELSE 1 + Digits[n \div 10]]
    <2> HIDE DEF D
    <2> QED  BY <1>4 DEF Digits
  <1>6. \A n \in Nat : Digits[n] = IF n < 10 THEN 1 ELSE 1 + Digits[n \div 10]
    BY <1>5
  <1>7. ASSUME NEW x \in Nat  PROVE Digits[x] \in Nat
    <2> DEFINE T == {n \in Nat : Digits[n] \notin Nat}
    <2> SUFFICES ASSUME T # {}  PROVE FALSE
      OBVIOUS
    <2>1. PICK y \in T : \A z \in T : y <= z
      <3>1. T \in SUBSET Nat
        OBVIOUS
      <3> HIDE DEF T
      <3> QED  BY <3>1, LeastNumber
    <2>2. y \in Nat /\ Digits[y] \notin Nat
      OBVIOUS
    <2>3. ~(y < 10)
      BY <1>6, <2>2
    <2>4. y \div 10 \in Nat /\ y \div 10 <= y - 1
      BY <2>2, <2>3, TenthIsLess
    <2>5. Digits[y \div 10] \in Nat
      BY <2>1, <2>2, <2>4
    <2> QED  BY <1>6, <2>2, <2>3, <2>5
  <1>8. DOMAIN Digits = Nat
    BY <1>5
  <1>9. Digits \in [Nat -> Nat]
    BY <1>5, <1>7, <1>8
  <1> QED  BY <1>6, <1>9

\* A larger number has no fewer digits.
LEMMA DigitsOrder ==
    ASSUME NEW a \in Nat, NEW b \in Nat, a <= b
    PROVE  Digits[a] \in Nat /\ Digits[b] \in Nat /\ Digits[a] <= Digits[b]
  <1> DEFINE T == {y \in Nat : \E x \in Nat : x <= y /\ ~(Digits[x] <= Digits[y])}
  <1>1. \A n \in Nat : Digits[n] \in Nat
    BY DigitsDef
  <1> SUFFICES ASSUME T # {}  PROVE FALSE
    BY <1>1
  <1>2. PICK y \in T : \A z \in T : y <= z
    <2>1. T \in SUBSET Nat
      OBVIOUS
    <2> HIDE DEF T
    <2> QED  BY <2>1, LeastNumber
  <1>3. PICK x \in Nat : x <= y /\ ~(Digits[x] <= Digits[y])
    OBVIOUS
  <1>4. y \in Nat /\ \A z \in Nat : z < y => \A w \in Nat : w <= z => Digits[w] <= Digits[z]
    BY <1>2
  <1> HIDE DEF T
  <1>5. \A n \in Nat : Digits[n] = IF n < 10 THEN 1 ELSE 1 + Digits[n \div 10]
    BY DigitsDef
  <1>6. CASE x < 10
    <2>1. Digits[x] = 1
      BY <1>5, <1>6
    <2>2. CASE y < 10
      BY <1>3, <1>4, <1>5, <2>1, <2>2
    <2>3. CASE ~(y < 10)
      <3>1. Digits[y] = 1 + Digits[y \div 10] /\ Digits[y \div 10] \in Nat
        BY <1>1, <1>4, <1>5, <2>3, TenthIsLess
      <3> QED  BY <1>3, <2>1, <3>1
    <2> QED  BY <2>2, <2>3
  <1>7. CASE ~(x < 10)
    <2>1. ~(y < 10)
      BY <1>3, <1>4, <1>7
    <2>2. /\ x \div 10 \in Nat /\ y \div 10 \in Nat /\ y \div 10 < y
          /\ x \div 10 <= y \div 10
      <3>1. x \div 10 \in Nat /\ y \div 10 \in Nat /\ y \div 10 <= y - 1
        BY <1>4, <1>7, <2>1, TenthIsLess
      <3>2. x \div 10 <= y \div 10
        BY <1>3, <1>4
      <3> QED  BY <1>4, <3>1, <3>2
    <2>3. Digits[x \div 10] <= Digits[y \div 10]
      BY <1>4, <2>2
    <2>4. Digits[x] = 1 + Digits[x \div 10] /\ Digits[y] = 1 + Digits[y \div 10]
      BY <1>4, <1>5, <1>7, <2>1
    <2>5. Digits[x \div 10] \in Nat /\ Digits[y \div 10] \in Nat
      BY <1>1, <2>2
    <2> QED  BY <1>3, <2>3, <2>4, <2>5
  <1> QED  BY <1>6, <1>7
-----------------------------------------------------------------------------
(* The lines of the histogram *)

\* The largest of numbers that have a bound.
LEMMA LargestRight ==
    ASSUME NEW S \in SUBSET Nat, NEW u \in Nat, \A x \in S : x <= u
    PROVE  Largest(S) \in Nat /\ Largest(S) \in S \cup {0} /\ \A x \in S : x <= Largest(S)
  <1> DEFINE T == S \cup {0}
             U == {v \in Nat : \A x \in T : x <= v}
  <1>1. PICK v \in U : \A w \in U : v <= w
    <2>1. U \in SUBSET Nat /\ u \in U
      OBVIOUS
    <2> HIDE DEF U
    <2> QED  BY <2>1, LeastNumber
  <1>2. v \in Nat /\ \A x \in T : x <= v
    OBVIOUS
  <1>3. v \in T
    <2> SUFFICES ASSUME v \notin T  PROVE FALSE
      OBVIOUS
    <2>1. v - 1 \in Nat /\ \A x \in T : x <= v - 1
      BY <1>2
    <2>2. v - 1 \in U
      BY <2>1
    <2>3. v <= v - 1
      BY <1>1, <2>2
    <2> QED  BY <1>2, <2>3
  <1> HIDE DEF U
  <1>4. Max(T) \in T /\ \A x \in T : Max(T) >= x
    BY <1>2, <1>3 DEF Max
  <1>5. Max(T) \in Nat
    <2>1. \A x \in T : x \in Nat
      OBVIOUS
    <2> HIDE DEF T
    <2> QED  BY <1>4, <2>1
  <1> QED  BY <1>4, <1>5 DEF Largest

LEMMA MultiplesOrder ==
    ASSUME NEW m \in Nat, NEW a \in Int, NEW b \in Int, a <= b
    PROVE  m * a \in Int /\ m * b \in Int /\ m * a <= m * b
  <1>1. m * (b - a) \in Nat
    <2>1. b - a \in Nat
      OBVIOUS
    <2> QED  BY <2>1
  <1>2. m * a \in Int /\ m * b \in Int /\ m * b = m * a + m * (b - a)
    OBVIOUS
  <1> QED  BY <1>1, <1>2

\* Part of a number, in forty parts.
LEMMA BarRight ==
    ASSUME NEW m \in Nat \ {0}, NEW c \in 0..m
    PROVE  (c * 40 + m \div 2) \div m \in 0..40
  <1> DEFINE x == c * 40 + m \div 2
             q == x \div m
             r == x % m
  <1>1. m \div 2 \in Nat /\ m \div 2 < m
    OBVIOUS
  <1>2. x \in Nat /\ x < 41 * m
    BY <1>1
  <1> HIDE DEF x
  <1>3. q \in Int /\ r \in Int /\ x = m * q + r /\ 0 <= r /\ r < m
    BY <1>2
  <1> HIDE DEF q, r
  <1>4. q >= 0
    <2> SUFFICES ASSUME q <= -1  PROVE FALSE
      BY <1>3
    <2>1. m * q \in Int /\ m * q <= m * (-1)
      BY <1>3, MultiplesOrder
    <2>2. m * (-1) = -m
      OBVIOUS
    <2> QED  BY <1>2, <1>3, <2>1, <2>2
  <1>5. q <= 40
    <2> SUFFICES ASSUME q >= 41  PROVE FALSE
      BY <1>3
    <2>1. m * q \in Int /\ m * 41 <= m * q
      BY <1>3, MultiplesOrder
    <2> QED  BY <1>2, <1>3, <2>1
  <1> QED  BY <1>3, <1>4, <1>5 DEF q, x

\* More of it is no fewer parts.
LEMMA BarOrder ==
    ASSUME NEW m \in Nat \ {0}, NEW b \in Nat, NEW c \in Nat, b <= c
    PROVE  (b * 40 + m \div 2) \div m <= (c * 40 + m \div 2) \div m
  <1> DEFINE x == b * 40 + m \div 2
             y == c * 40 + m \div 2
             q == x \div m
             r == x % m
             p == y \div m
             s == y % m
  <1>1. x \in Nat /\ y \in Nat /\ x <= y
    OBVIOUS
  <1> HIDE DEF x, y
  <1>2. q \in Int /\ r \in Int /\ x = m * q + r /\ 0 <= r /\ r < m
    BY <1>1
  <1>3. p \in Int /\ s \in Int /\ y = m * p + s /\ 0 <= s /\ s < m
    BY <1>1
  <1> HIDE DEF q, r, p, s
  <1>4. q <= p
    <2> SUFFICES ASSUME p + 1 <= q  PROVE FALSE
      BY <1>2, <1>3
    <2>1. m * (p + 1) \in Int /\ m * q \in Int /\ m * (p + 1) <= m * q
      BY <1>2, <1>3, MultiplesOrder
    <2>2. m * p \in Int /\ m * (p + 1) = m * p + m
      BY <1>3
    <2> QED  BY <1>1, <1>2, <1>3, <2>1, <2>2
  <1> QED  BY <1>4 DEF q, p, x, y
\* The widths of marks are numbers, in the order of the marks.
LEMMA MarkLenOrder ==
    ASSUME NEW a \in Nat, NEW b \in Nat, a <= b
    PROVE  MarkLen(a) \in Nat /\ MarkLen(b) \in Nat /\ MarkLen(a) <= MarkLen(b)
  <1>1. a \div 10 \in Nat /\ b \div 10 \in Nat /\ a \div 10 <= b \div 10
    OBVIOUS
  <1>2. /\ Digits[a \div 10] \in Nat /\ Digits[b \div 10] \in Nat
        /\ Digits[a \div 10] <= Digits[b \div 10]
    BY <1>1, DigitsOrder
  <1> QED  BY <1>2 DEF MarkLen

\* The column of the labels is as wide as the widest of them.
LEMMA LabelsFit ==
    ASSUME WalkInv, lats # <<>>, NEW b \in 0..9
    PROVE  LabelLen(b) \in Nat /\ MaxMarkLen \in Nat /\ LabelLen(b) <= MaxMarkLen
  <1>1. /\ lats \in Seq(Nat) /\ Sorted(lats)
        /\ Buckets = 0..9
    BY WalkLats DEF Buckets, NumBuckets
  <1>2. \A c \in 0..9 : Mark(c) \in Nat /\ Mark(9) \in Nat /\ Mark(c) <= Mark(9)
    <2> TAKE c \in 0..9
    <2>1. c <= 9 /\ 9 \in 0..9
      OBVIOUS
    <2> QED  BY <1>1, <2>1, MarkOrder
  <1> DEFINE marks == {Mark(c) : c \in 0..9}
             most == Largest(marks)
  <1>3. most \in Nat /\ \A c \in 0..9 : Mark(c) <= most
    <2>1. marks \in SUBSET Nat /\ Mark(9) \in Nat /\ \A x \in marks : x <= Mark(9)
      BY <1>2
    <2>2. Largest(marks) \in Nat /\ \A x \in marks : x <= Largest(marks)
      <3> HIDE DEF marks
      <3> QED  BY <2>1, LargestRight
    <2> QED  BY <2>2
  <1> HIDE DEF most
  <1>4. \A c \in 0..9 : MarkLen(Mark(c)) \in Nat /\ MarkLen(most) \in Nat
                        /\ MarkLen(Mark(c)) <= MarkLen(most)
    BY <1>2, <1>3, MarkLenOrder
  <1>9. MarkLen(Mark(9)) \in Nat /\ MarkLen(most) \in Nat
    <2>1. 9 \in 0..9
      OBVIOUS
    <2> QED  BY <1>4, <2>1
  <1>5. LabelLen(9) \in Nat
    <2>1. slowest \in Nat /\ tailPercentile \in Nat
      BY <1>1, GraphRange
    <2>2. 10 * slowest \in Nat /\ 10 * tailPercentile \in Nat
      BY <2>1
    <2>3. MarkLen(10 * slowest) \in Nat /\ MarkLen(10 * tailPercentile) \in Nat
      BY <2>2, MarkLenOrder
    <2> QED  BY <1>9, <2>3 DEF LabelLen, NumBuckets
  <1>6. /\ MaxMarkLen \in Nat /\ MarkLen(most) <= MaxMarkLen /\ LabelLen(9) <= MaxMarkLen
    <2> DEFINE two == {MarkLen(most), LabelLen(9)}
               u == MarkLen(most) + LabelLen(9)
    <2>1. two \in SUBSET Nat /\ u \in Nat /\ \A x \in two : x <= u
      BY <1>5, <1>9
    <2>2. Largest(two) \in Nat /\ \A x \in two : x <= Largest(two)
      <3> HIDE DEF two, u
      <3> QED  BY <2>1, LargestRight
    <2>3. MaxMarkLen = Largest(two)
      BY <1>1 DEF MaxMarkLen, NumBuckets, most
    <2> QED  BY <2>2, <2>3
  <1>7. CASE b = 9
    BY <1>5, <1>6, <1>7
  <1>8. CASE b # 9
    <2>1. LabelLen(b) = MarkLen(Mark(b))
      BY <1>8 DEF LabelLen, NumBuckets
    <2>2. MarkLen(Mark(b)) \in Nat /\ MarkLen(Mark(b)) <= MarkLen(most)
      BY <1>4
    <2> QED  BY <1>6, <1>9, <2>1, <2>2
  <1> QED  BY <1>7, <1>8

\* So is the column of the counts.
LEMMA CountsLargest ==
    ASSUME WalkInv, lats # <<>>
    PROVE  MaxCount \in Nat /\ \A b \in 0..9 : counts[b] \in 0..MaxCount
  <1> DEFINE all == {counts[b] : b \in 0..9}
             u == 2 * Len(lats)
  <1>1. \A b \in 0..9 : counts[b] \in Nat
    BY DEF WalkInv
  <1>2. Len(lats) \in Nat
    BY WalkLats
  <1>3. ASSUME NEW b \in 0..9  PROVE counts[b] <= u
    <2>1. ASSUME NEW S \in SUBSET (1..Len(lats))
          PROVE  Cardinality(First(S, i)) \in Nat /\ Cardinality(First(S, i)) <= Len(lats)
      <3>1. First(S, i) \in SUBSET (1..Len(lats))
        BY DEF First
      <3>2. IsFiniteSet(1..Len(lats)) /\ Cardinality(1..Len(lats)) = Len(lats)
        BY <1>2, FS_Interval
      <3> QED  BY <3>1, <3>2, FS_Subset, FS_CardinalityType
    <2>2. /\ Cardinality(First(Own(b), i)) \in Nat /\ Cardinality(First(Own(b), i)) <= Len(lats)
          /\ Cardinality(First(Beyond, i)) \in Nat /\ Cardinality(First(Beyond, i)) <= Len(lats)
      BY <2>1, WalkLats
    <2>3. counts[b] = Cardinality(First(Own(b), i))
                      + (IF b = 8 THEN Cardinality(First(Beyond, i)) ELSE 0)
      BY DEF WalkInv
    <2> QED  BY <1>2, <2>2, <2>3
  <1>8. u \in Nat
    BY <1>2
  <1> HIDE DEF u
  <1>4. all \in SUBSET Nat /\ u \in Nat /\ \A x \in all : x <= u
    BY <1>1, <1>3, <1>8
  <1>5. Largest(all) \in Nat /\ \A x \in all : x <= Largest(all)
    <2> HIDE DEF all
    <2> QED  BY <1>4, LargestRight
  <1>6. MaxCount = Largest(all)
    BY DEF MaxCount, Buckets, NumBuckets
  <1>7. \A b \in 0..9 : counts[b] <= MaxCount
    BY <1>5, <1>6
  <1> QED  BY <1>1, <1>5, <1>6, <1>7

\* For any report: its histogram can be printed, the columns of the labels and of the
\* counts are as wide as the widest of them, and the bars have at most 40 marks, in the
\* order of the counts.
THEOREM LinesCorrect == PrinterSpec => []LinesAlign
  <1>1. ASSUME WalkInv, lats # <<>>, NEW b \in 0..9
        PROVE  /\ Line(b).padding >= 0 /\ Line(b).countPadding >= 0
               /\ Line(b).bar \in 0..40
               /\ \A c \in 0..9 : counts[c] <= counts[b] => Line(c).bar <= Line(b).bar
    <2>1. LabelLen(b) \in Nat /\ MaxMarkLen \in Nat /\ LabelLen(b) <= MaxMarkLen
      BY <1>1, LabelsFit
    <2>2. MaxCount \in Nat /\ \A c \in 0..9 : counts[c] \in 0..MaxCount
      BY <1>1, CountsLargest
    <2>3. /\ Digits[MaxCount] \in Nat /\ Digits[counts[b]] \in Nat
          /\ Digits[counts[b]] <= Digits[MaxCount]
      BY <2>2, DigitsOrder
    <2>4. Line(b).padding >= 0 /\ Line(b).countPadding >= 0
      BY <2>1, <2>3 DEF Line
    <2>5. Line(b).bar \in 0..40
      <3>1. CASE MaxCount > 0
        <4>1. MaxCount \in Nat \ {0} /\ counts[b] \in 0..MaxCount
          BY <2>2, <3>1
        <4>2. (counts[b] * 40 + MaxCount \div 2) \div MaxCount \in 0..40
          BY <4>1, BarRight
        <4> QED  BY <3>1, <4>2 DEF Line
      <3>2. CASE ~(MaxCount > 0)
        BY <3>2 DEF Line
      <3> QED  BY <3>1, <3>2
    <2>6. ASSUME NEW c \in 0..9, counts[c] <= counts[b]  PROVE Line(c).bar <= Line(b).bar
      <3>1. CASE MaxCount > 0
        <4>1. MaxCount \in Nat \ {0} /\ counts[b] \in Nat /\ counts[c] \in Nat
          BY <2>2, <3>1
        <4>2. (counts[c] * 40 + MaxCount \div 2) \div MaxCount
                 <= (counts[b] * 40 + MaxCount \div 2) \div MaxCount
          BY <2>6, <4>1, BarOrder
        <4> QED  BY <3>1, <4>2 DEF Line
      <3>2. CASE ~(MaxCount > 0)
        BY <3>2 DEF Line
      <3> QED  BY <3>1, <3>2
    <2> QED  BY <2>4, <2>5, <2>6
  <1>2. ASSUME WalkInv  PROVE LinesAlign
    <2>1. CASE lats = <<>>
      BY <2>1 DEF LinesAlign, Buckets
    <2>2. CASE lats # <<>>
      <3>1. Buckets = 0..9
        BY <2>2 DEF Buckets, NumBuckets
      <3> QED  BY <1>1, <1>2, <2>2, <3>1 DEF LinesAlign
    <2> QED  BY <2>1, <2>2
  <1> QED  BY <1>2, WalkCorrect, PTL
-----------------------------------------------------------------------------
(* The buckets together *)

\* What c has in bucket b, if it has that bucket.
In(c, b) == IF b \in DOMAIN c THEN c[b] ELSE 0

\* The sums of the first buckets.
Sums(f, c) ==
    /\ f \in [0..10 -> Nat] /\ f[0] = 0
    /\ \A b \in 1..10 : f[b] = f[b - 1] + In(c, b - 1)

\* The recursive definition in Total has a solution, and Total is its last value.
LEMMA TotalIsSum ==
    ASSUME NEW c, \A b \in 0..9 : In(c, b) \in Nat
    PROVE  \E f : Sums(f, c) /\ Total(c) = f[10]
  <1> DEFINE Upto(f, k) == f \in [0..k -> Nat] /\ f[0] = 0
                           /\ \A b \in 1..k : f[b] = f[b - 1] + In(c, b - 1)
             S == {k \in Nat : k <= 10 => \E f : Upto(f, k)}
  <1>1. 0 \in S
    <2>1. Upto([b \in 0..0 |-> 0], 0)
      <3>1. ASSUME NEW b \in 1..0  PROVE FALSE
        OBVIOUS
      <3>2. [b \in 0..0 |-> 0] \in [0..0 -> Nat] /\ [b \in 0..0 |-> 0][0] = 0
        OBVIOUS
      <3> QED  BY <3>1, <3>2
    <2> HIDE DEF Upto
    <2> QED  BY <2>1
  <1>2. ASSUME NEW k \in Nat, k \in S  PROVE k + 1 \in S
    <2> HIDE DEF Upto
    <2> SUFFICES ASSUME k + 1 <= 10  PROVE \E f : Upto(f, k + 1)
      OBVIOUS
    <2>1. PICK f : Upto(f, k)
      BY <1>2
    <2> USE DEF Upto
    <2> DEFINE d == f[k] + In(c, k)
               g == [b \in 0..(k + 1) |-> IF b = k + 1 THEN d ELSE f[b]]
    <2>2. d \in Nat
      <3>1. f[k] \in Nat /\ k \in 0..9
        BY <2>1
      <3> QED  BY <3>1
    <2> HIDE DEF d
    <2>3. g \in [0..(k + 1) -> Nat] /\ g[0] = 0
      <3>1. 0 \in 0..(k + 1) /\ 0 # k + 1 /\ \A b \in 0..(k + 1) : b # k + 1 => b \in 0..k
        OBVIOUS
      <3> QED  BY <2>1, <2>2, <3>1
    <2>4. ASSUME NEW b \in 1..(k + 1)  PROVE g[b] = g[b - 1] + In(c, b - 1)
      <3>1. CASE b = k + 1
        <4>1. b - 1 = k /\ k \in 0..(k + 1) /\ k # k + 1
          BY <3>1
        <4> QED  BY <3>1, <4>1 DEF d
      <3>2. CASE b # k + 1
        <4>1. b \in 1..k /\ b \in 0..(k + 1) /\ b - 1 \in 0..(k + 1) /\ b - 1 # k + 1
          BY <3>2
        <4> QED  BY <2>1, <3>2, <4>1
      <3> QED  BY <3>1, <3>2
    <2>5. Upto(g, k + 1)
      <3> HIDE DEF g
      <3> QED  BY <2>3, <2>4
    <2> HIDE DEF Upto, g
    <2> QED  BY <2>5
  <1>3. PICK f : Upto(f, 10)
    <2>1. Nat \subseteq S
      <3> HIDE DEF S
      <3> QED  BY <1>1, <1>2, InductionOnSet
    <2>2. 10 \in S
      BY <2>1
    <2> HIDE DEF Upto
    <2> QED  BY <2>2
  <1> DEFINE Next10(h) == [b \in 0..10 |-> IF b = 0 THEN 0
                               ELSE h[b - 1] + (IF b - 1 \in DOMAIN c THEN c[b - 1] ELSE 0)]
             sum == CHOOSE h : h = Next10(h)
  <1>4. f = Next10(f)
    BY <1>3 DEF In
  <1>5. sum = Next10(sum)
    <2> HIDE DEF Next10
    <2> QED  BY <1>4
  <1>6. Total(c) = sum[10]
    BY DEF Total, NumBuckets
  <1> HIDE DEF sum
  <1>7. /\ sum[0] = 0
        /\ \A b \in 1..10 : sum[b] = sum[b - 1] + In(c, b - 1)
    BY <1>5 DEF In
  <1>8. sum[10] = f[10]
    <2> DEFINE T == {b \in Nat : b <= 10 => sum[b] = f[b]}
    <2>1. 0 \in T
      BY <1>3, <1>7
    <2>2. ASSUME NEW b \in Nat, b \in T  PROVE b + 1 \in T
      <3> SUFFICES ASSUME b + 1 <= 10  PROVE sum[b + 1] = f[b + 1]
        OBVIOUS
      <3>1. b + 1 \in 1..10 /\ (b + 1) - 1 = b /\ sum[b] = f[b]
        BY <2>2
      <3> QED  BY <1>3, <1>7, <3>1
    <2>3. Nat \subseteq T
      <3> HIDE DEF T
      <3> QED  BY <2>1, <2>2, InductionOnSet
    <2>4. 10 \in T
      BY <2>3
    <2> QED  BY <2>4
  <1>9. Sums(f, c)
    BY <1>3 DEF Sums
  <1> QED  BY <1>6, <1>8, <1>9
\* No buckets, or empty ones, sum up to nothing.
LEMMA TotalZero ==
    ASSUME NEW c, \A b \in 0..9 : In(c, b) = 0
    PROVE  Total(c) = 0
  <1>1. PICK f : Sums(f, c) /\ Total(c) = f[10]
    BY TotalIsSum
  <1> DEFINE T == {b \in Nat : b <= 10 => f[b] = 0}
  <1>2. 0 \in T
    BY <1>1 DEF Sums
  <1>3. ASSUME NEW b \in Nat, b \in T  PROVE b + 1 \in T
    <2> SUFFICES ASSUME b + 1 <= 10  PROVE f[b + 1] = 0
      OBVIOUS
    <2>1. b + 1 \in 1..10 /\ (b + 1) - 1 = b /\ b \in 0..9 /\ f[b] = 0
      BY <1>3
    <2> QED  BY <1>1, <2>1 DEF Sums
  <1>4. Nat \subseteq T
    <2> HIDE DEF T
    <2> QED  BY <1>2, <1>3, InductionOnSet
  <1>5. 10 \in T
    BY <1>4
  <1> QED  BY <1>1, <1>5

\* One more in one bucket is one more in all.
LEMMA TotalStep ==
    ASSUME NEW c \in [0..9 -> Nat], NEW j \in 0..9
    PROVE  Total([c EXCEPT ![j] = @ + 1]) = Total(c) + 1 /\ Total(c) \in Nat
  <1> DEFINE d == [c EXCEPT ![j] = @ + 1]
  <1>1. \A b \in 0..9 : /\ In(c, b) \in Nat /\ In(d, b) \in Nat
                         /\ In(d, b) = In(c, b) + (IF b = j THEN 1 ELSE 0)
    BY DEF In
  <1> HIDE DEF d
  <1>2. PICK f : Sums(f, c) /\ Total(c) = f[10]
    BY <1>1, TotalIsSum
  <1>3. PICK g : Sums(g, d) /\ Total(d) = g[10]
    BY <1>1, TotalIsSum
  <1> DEFINE T == {b \in Nat : b <= 10 => g[b] = f[b] + (IF b > j THEN 1 ELSE 0)}
  <1>4. 0 \in T
    BY <1>2, <1>3 DEF Sums
  <1>5. ASSUME NEW b \in Nat, b \in T  PROVE b + 1 \in T
    <2> SUFFICES ASSUME b + 1 <= 10  PROVE g[b + 1] = f[b + 1] + (IF b + 1 > j THEN 1 ELSE 0)
      OBVIOUS
    <2>1. /\ b + 1 \in 1..10 /\ (b + 1) - 1 = b /\ b \in 0..9 /\ b \in 0..10
          /\ g[b] = f[b] + (IF b > j THEN 1 ELSE 0)
      BY <1>5
    <2>2. f[b + 1] = f[b] + In(c, b) /\ g[b + 1] = g[b] + In(d, b) /\ f[b] \in Nat
      BY <1>2, <1>3, <2>1 DEF Sums
    <2>3. In(c, b) \in Nat /\ In(d, b) = In(c, b) + (IF b = j THEN 1 ELSE 0)
      BY <1>1, <2>1
    <2> QED  BY <2>1, <2>2, <2>3
  <1>6. Nat \subseteq T
    <2> HIDE DEF T
    <2> QED  BY <1>4, <1>5, InductionOnSet
  <1>7. 10 \in T
    BY <1>6
  <1>8. g[10] = f[10] + 1 /\ f[10] \in Nat
    BY <1>2, <1>7 DEF Sums
  <1> QED  BY <1>2, <1>3, <1>8 DEF d

\* As many latencies are in buckets as the walk has counted.
SumInv == Total(counts) = i

LEMMA SumInit ==
    ASSUME Init
    PROVE  SumInv
  <1>1. counts = [b \in 0..9 |-> 0] /\ i = 0
    BY DEF Init, NumBuckets
  <1>2. \A b \in 0..9 : In(counts, b) = 0
    BY <1>1 DEF In
  <1> QED  BY <1>1, <1>2, TotalZero DEF SumInv

LEMMA SumStep ==
    ASSUME WalkInv, SumInv, [Next]_vars
    PROVE  SumInv'
  <1>1. counts \in [0..9 -> Nat] /\ bi \in 0..9 /\ Total(counts) = i
    BY DEF WalkInv, SumInv
  <1>2. CASE Count
    <2>1. counts' = [counts EXCEPT ![bi] = @ + 1] /\ i' = i + 1
      BY <1>2 DEF Count
    <2> QED  BY <1>1, <2>1, TotalStep DEF SumInv
  <1>3. CASE CountTail
    <2>1. counts' = [counts EXCEPT ![8] = @ + 1] /\ i' = i + 1
      BY <1>3 DEF CountTail, NumBuckets
    <2>2. 8 \in 0..9
      OBVIOUS
    <2>3. Total([counts EXCEPT ![8] = @ + 1]) = Total(counts) + 1
      BY <1>1, <2>2, TotalStep
    <2> QED  BY <1>1, <2>1, <2>3 DEF SumInv
  <1>4. CASE NextBucket \/ UNCHANGED vars
    <2>1. counts' = counts /\ i' = i
      BY <1>4 DEF NextBucket, vars
    <2> QED  BY <1>1, <2>1 DEF SumInv
  <1> QED  BY <1>2, <1>3, <1>4 DEF Next

-----------------------------------------------------------------------------
(* The documents *)

Medians(S) == {x \in S : x[1] \in {500, 950}}

\* Each field of a document is that of the report, whatever format it is of.
RowsOK(d) ==
    "rows" \in DOMAIN d =>
        /\ DOMAIN d.rows = DOMAIN run.details /\ Len(d.rows) = Len(run.details)
        /\ \A k \in DOMAIN d.rows : /\ d.rows[k].ms = run.details[k].ms
                                    /\ d.rows[k].error = run.details[k].error

ErrorsOK(d) ==
    /\ "errors" \in DOMAIN d => d.errors = ErrorCount
    /\ "hasErrors" \in DOMAIN d => (d.hasErrors <=> ErrorCount > 0)

FieldsOK(d) ==
    /\ "samples" \in DOMAIN d => d.samples = shown.samples
    /\ "distribution" \in DOMAIN d => Medians(d.distribution) = Medians(Distribution)
    /\ "tags" \in DOMAIN d => d.tags = InfluxTags
    /\ "labels" \in DOMAIN d => d.labels = PrometheusLabels
    /\ "cumulativeCounts" \in DOMAIN d => Total(d.cumulativeCounts) = Len(lats)

DocOK(d) == RowsOK(d) /\ ErrorsOK(d) /\ FieldsOK(d)

\* A report is not changed by printing it, and every document printed is right.
PrintInv ==
    /\ shown.details = run.details
    /\ outputs # {} => Finished
    /\ \A o \in outputs : o.doc = <<>> \/ DocOK(o.doc)

LEMMA DetailsSeq ==
    ASSUME NEW r \in Runs
    PROVE  /\ Len(r.details) \in Nat /\ DOMAIN r.details = 1..Len(r.details)
           /\ \A f : DOMAIN f = DOMAIN r.details /\ f = [k \in DOMAIN f |-> f[k]]
                    => Len(f) = Len(r.details)
  <1> DEFINE Detail == [ms: Nat, error: STRING]
  <1>1. r.details \in Seq(Detail)
    BY HistogramAssumption DEF HistogramAssumption
  <1>2. Len(r.details) \in Nat /\ DOMAIN r.details = 1..Len(r.details)
    <2> HIDE DEF Detail
    <2> QED  BY <1>1, LenProperties
  <1>3. ASSUME NEW f, DOMAIN f = DOMAIN r.details, f = [k \in DOMAIN f |-> f[k]]
        PROVE  Len(f) = Len(r.details)
    <2> DEFINE V == {f[k] : k \in DOMAIN f}
               n == Len(r.details)
    <2>1. f \in [1..n -> V]
      BY <1>2, <1>3
    <2> HIDE DEF V
    <2>2. f \in Seq(V)
      BY <1>2, <2>1, SeqDef
    <2>3. Len(f) \in Nat /\ 1..Len(f) = 1..n
      BY <1>2, <1>3, <2>2, LenProperties
    <2> HIDE DEF n
    <2> QED  BY <1>2, <2>3 DEF n
  <1> QED  BY <1>2, <1>3

LEMMA DocumentsRight ==
    ASSUME WalkInv, SumInv, PrintInv, Finished
    PROVE  /\ DocOK(Text) /\ DocOK(Csv) /\ DocOK(Json) /\ DocOK(Html)
           /\ DocOK(InfluxSummary) /\ DocOK(InfluxDetails) /\ DocOK(Prometheus)
           /\ \A file : /\ DocOK([file |-> file, rows |-> shown.details])
                        /\ DocOK([file |-> file, samples |-> shown.samples])
  <1>1. shown.details = run.details
    BY DEF PrintInv
  <1>2. DocOK(Text)
    BY DEF DocOK, RowsOK, ErrorsOK, FieldsOK, Text
  <1>3. DocOK(Csv)
    BY <1>1 DEF DocOK, RowsOK, ErrorsOK, FieldsOK, Csv
  <1>4. DocOK(Json)
    BY <1>1 DEF DocOK, RowsOK, ErrorsOK, FieldsOK, Json
  <1>5. DocOK(Html)
    BY DEF DocOK, RowsOK, ErrorsOK, FieldsOK, Html
  <1>6. DocOK(InfluxSummary)
    <2>1. Medians(NamedPercentiles) = Medians(Distribution)
      BY DEF Medians, NamedPercentiles
    <2> QED  BY <2>1 DEF DocOK, RowsOK, ErrorsOK, FieldsOK, InfluxSummary
  <1>7. DocOK(InfluxDetails)
    <2> DEFINE row(k) == [ms |-> shown.details[k].ms, error |-> shown.details[k].error,
                          hasError |-> shown.details[k].error # ""]
               rows == [k \in DOMAIN shown.details |-> row(k)]
    <2>1. /\ DOMAIN rows = DOMAIN run.details
          /\ \A k \in DOMAIN rows : /\ rows[k].ms = run.details[k].ms
                                    /\ rows[k].error = run.details[k].error
      BY <1>1
    <2>2. Len(rows) = Len(run.details)
      <3>1. rows = [k \in DOMAIN rows |-> rows[k]] /\ run \in Runs
        BY DEF WalkInv
      <3> HIDE DEF rows
      <3> QED  BY <2>1, <3>1, DetailsSeq
    <2>3. InfluxDetails = [tags |-> InfluxTags, rows |-> rows]
      BY DEF InfluxDetails
    <2> HIDE DEF rows
    <2> QED  BY <2>1, <2>2, <2>3 DEF DocOK, RowsOK, ErrorsOK, FieldsOK
  <1>8. DocOK(Prometheus)
    <2>1. Total([b \in Buckets |-> counts[b]]) = Len(lats)
      <3>1. CASE lats = <<>>
        <4> DEFINE c == [b \in Buckets |-> counts[b]]
        <4>1. \A b \in 0..9 : In(c, b) = 0
          BY <3>1 DEF In, Buckets
        <4> HIDE DEF c
        <4>2. Total(c) = 0
          BY <4>1, TotalZero
        <4> QED  BY <3>1, <4>2 DEF c
      <3>2. CASE lats # <<>>
        <4>1. [b \in Buckets |-> counts[b]] = counts
          BY <3>2 DEF Buckets, NumBuckets, WalkInv
        <4> QED  BY <4>1 DEF SumInv, Finished
      <3> QED  BY <3>1, <3>2
    <2> QED  BY <2>1 DEF DocOK, RowsOK, ErrorsOK, FieldsOK, Prometheus
  <1>9. ASSUME NEW file
        PROVE  /\ DocOK([file |-> file, rows |-> shown.details])
               /\ DocOK([file |-> file, samples |-> shown.samples])
    BY <1>1 DEF DocOK, RowsOK, ErrorsOK, FieldsOK
  <1> QED  BY <1>2, <1>3, <1>4, <1>5, <1>6, <1>7, <1>8, <1>9

\* Nothing that a document takes from the report changes while it is printed.
LEMMA ReportStays ==
    ASSUME UNCHANGED vars, UNCHANGED shown, NEW d, DocOK(d)
    PROVE  DocOK(d)'
  <1>1. UNCHANGED <<run, lats, i, bi, counts>>
    BY DEF vars
  <1>2. /\ RowsOK(d)' /\ ErrorsOK(d)'
    BY <1>1 DEF DocOK, RowsOK, ErrorsOK, ErrorCount
  <1>3. Distribution' = Distribution
    BY <1>1 DEF Distribution, Percentiles, p999, Entry, Percentile
  <1>4. InfluxTags' = InfluxTags /\ PrometheusLabels' = PrometheusLabels
    BY <1>1 DEF InfluxTags, PrometheusLabels
  <1>5. FieldsOK(d)'
    BY <1>1, <1>3, <1>4 DEF DocOK, FieldsOK
  <1> QED  BY <1>2, <1>5 DEF DocOK

LEMMA PrintStep ==
    ASSUME WalkInv, SumInv, PrintInv, [PrinterNext]_allVars
    PROVE  PrintInv'
  <1>1. CASE UNCHANGED allVars
    <2>1. UNCHANGED vars /\ UNCHANGED <<run, i, lats, shown, outputs>>
      BY <1>1 DEF allVars, vars, printer
    <2> QED  BY <2>1, ReportStays DEF PrintInv, Finished
  <1>2. CASE Figuring
    <2>1. i < Len(lats) /\ UNCHANGED <<run, shown, outputs>>
      BY <1>2 DEF Figuring, Next, Count, NextBucket, CountTail, printer
    <2>2. i # Len(lats)
      BY <2>1, WalkLats DEF WalkInv
    <2>3. outputs = {}
      BY <2>2 DEF PrintInv, Finished
    <2> QED  BY <2>1, <2>3 DEF PrintInv
  <1>3. ASSUME NEW f, NEW doc, Finished, Printed(f, doc), UNCHANGED <<vars, outIsFile, shown>>,
               doc = <<>> \/ DocOK(doc)
        PROVE  PrintInv'
    <2>1. UNCHANGED vars /\ UNCHANGED shown /\ UNCHANGED <<run, i, lats>>
      BY <1>3 DEF vars
    <2>2. outputs' = outputs \cup {[format |-> f, doc |-> doc]}
      BY <1>3 DEF Printed
    <2>3. ASSUME NEW o \in outputs'  PROVE o.doc = <<>> \/ DocOK(o.doc)
      BY <1>3, <2>2 DEF PrintInv
    <2>4. \A o \in outputs' : o.doc = <<>> \/ DocOK(o.doc)'
      BY <2>1, <2>3, ReportStays
    <2> QED  BY <1>3, <2>1, <2>4 DEF PrintInv, Finished
  <1>4. ASSUME NEW f, PrintReport(f)  PROVE PrintInv'
    <2>1. /\ Finished /\ f \in Formats /\ Printed(f, Document(f))
          /\ UNCHANGED <<vars, outIsFile, shown>>
      BY <1>4 DEF PrintReport, Fails
    <2>2. DocOK(Document(f))
      BY <2>1, DocumentsRight DEF Formats, Document, Parquet
    <2> QED  BY <1>3, <2>1, <2>2
  <1>5. ASSUME NEW f, PrintFails(f)  PROVE PrintInv'
    BY <1>3, <1>5 DEF PrintFails
  <1>6. ASSUME NEW path, WriteParquetFile(path)  PROVE PrintInv'
    <2>1. Finished /\ DocOK(Parquet(path, shown.details))
      BY <1>6, DocumentsRight DEF WriteParquetFile, Parquet
    <2> QED  BY <1>3, <1>6, <2>1 DEF WriteParquetFile
  <1>7. ASSUME NEW path, WriteParquetSampleFile(path)  PROVE PrintInv'
    <2> DEFINE doc == [file |-> <<path[1], "parquet">>, samples |-> shown.samples]
    <2>1. Finished /\ DocOK(doc)
      BY <1>7, DocumentsRight DEF WriteParquetSampleFile
    <2>2. Printed("parquet-samples", doc) /\ UNCHANGED <<vars, outIsFile, shown>>
      BY <1>7 DEF WriteParquetSampleFile, Parquet
    <2> QED  BY <1>3, <2>1, <2>2
  <1> QED  BY <1>1, <1>2, <1>4, <1>5, <1>6, <1>7 DEF PrinterNext

\* The documents printed of any report agree, however many there are and in whatever
\* order they are printed, on the rows and the samples, the errors, the percentiles,
\* the schedules and the latencies in buckets.
THEOREM OutputsCorrect == PrinterSpec => []OutputsAgree
  <1>1. PrinterInit => WalkInv /\ SumInv /\ PrintInv
    <2> SUFFICES ASSUME PrinterInit  PROVE WalkInv /\ SumInv /\ PrintInv
      OBVIOUS
    <2>1. WalkInv /\ SumInv
      BY WalkInit, SumInit DEF PrinterInit
    <2>2. PrintInv
      BY DEF PrinterInit, PrintInv
    <2> QED  BY <2>1, <2>2
  <1>2. ASSUME WalkInv, SumInv, PrintInv, [PrinterNext]_allVars
        PROVE  WalkInv' /\ SumInv' /\ PrintInv'
    BY <1>2, PrinterWalks, WalkStep, SumStep, PrintStep
  <1>3. ASSUME WalkInv, SumInv, PrintInv  PROVE OutputsAgree
    <2>1. \A d \in Docs : DocOK(d)
      BY <1>3 DEF PrintInv, Docs
    <2>2. run \in Runs
      BY <1>3 DEF WalkInv
    <2>3. ASSUME NEW d \in Shows("rows")
          PROVE  /\ Len(d.rows) = Len(run.details)
                 /\ \A k \in DOMAIN d.rows : /\ d.rows[k].ms = run.details[k].ms
                                             /\ d.rows[k].error = run.details[k].error
                 /\ Failed(d.rows) = Failed(run.details)
      BY <2>1 DEF Shows, DocOK, RowsOK, Failed
    <2>4. ASSUME NEW e \in Shows("errors")
          PROVE  /\ e.errors = ErrorCount
                 /\ "hasErrors" \in DOMAIN e => (e.hasErrors <=> ErrorCount > 0)
      BY <2>1 DEF Shows, DocOK, ErrorsOK
    <2>5. /\ Cardinality(Failed(run.details)) <= ErrorCount
          /\ Len(run.details) = run.count => Cardinality(Failed(run.details)) = ErrorCount
      BY <2>2, PrinterAssumption DEF PrinterAssumption, ErrorCount
    <2>6. \A d, e \in Shows("samples") : d.samples = e.samples
      BY <2>1 DEF Shows, DocOK, FieldsOK
    <2>7. \A d, e \in Shows("distribution") :
             {x \in d.distribution : x[1] \in {500, 950}}
                 = {x \in e.distribution : x[1] \in {500, 950}}
      BY <2>1 DEF Shows, DocOK, FieldsOK, Medians
    <2>8. \A d \in Shows("tags"), e \in Shows("labels") :
             \A l \in {"concurrency-schedule", "load-schedule"} : l \in d.tags <=> l \in e.labels
      <3>1. \A l \in {"concurrency-schedule", "load-schedule"} :
               l \in InfluxTags <=> l \in PrometheusLabels
        BY DEF InfluxTags, PrometheusLabels
      <3> QED  BY <2>1, <3>1 DEF Shows, DocOK, FieldsOK
    <2>9. \A d \in Shows("cumulativeCounts") : Total(d.cumulativeCounts) = Len(lats)
      BY <2>1 DEF Shows, DocOK, FieldsOK
    <2> QED  BY <2>3, <2>4, <2>5, <2>6, <2>7, <2>8, <2>9 DEF OutputsAgree
  <1> QED  BY <1>1, <1>2, <1>3, PTL DEF PrinterSpec
=============================================================================
