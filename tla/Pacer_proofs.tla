----------------------------- MODULE Pacer_proofs -----------------------------
(***************************************************************************)
(* Proofs about the pacers, for any load that Pacer calls regular: what is *)
(* asked for up to a tick, how the pacers count it, and that they neither  *)
(* stop too early nor send what is not due.                                *)
(***************************************************************************)
EXTENDS Pacer, WellFoundedInduction, TLAPS

-----------------------------------------------------------------------------
(* Induction *)

LessThan == {ss \in Nat \X Nat : ss[1] < ss[2]}

\* A set of numbers that is not empty has a least one.
LEMMA LeastNumber ==
    ASSUME NEW T \in SUBSET Nat, T # {}
    PROVE  \E x \in T : \A y \in T : x <= y
  <1>1. IsWellFoundedOn(LessThan, Nat)
    BY NatLessThanWellFounded DEF OpToRel, LessThan
  <1>2. PICK x \in T : \A y \in T : <<y, x>> \notin LessThan
    BY <1>1, WFMin
  <1>3. ASSUME NEW y \in T  PROVE x <= y
    <2>1. <<y, x>> \notin LessThan
      BY <1>2
    <2>2. x \in Nat /\ y \in Nat
      OBVIOUS
    <2>3. ~ (y < x)
      BY <2>1, <2>2 DEF LessThan
    <2> QED  BY <2>2, <2>3
  <1> QED  BY <1>3

\* A set of numbers that has 0 and every next one has them all.
LEMMA InductionOnSet ==
    ASSUME NEW S, 0 \in S, \A n \in Nat : n \in S => n + 1 \in S
    PROVE  Nat \subseteq S
  <1> DEFINE T == {n \in Nat : n \notin S}
  <1>1. SUFFICES ASSUME T # {}  PROVE FALSE
    OBVIOUS
  <1>2. PICK x \in T : \A y \in T : x <= y
    <2>1. T \in SUBSET Nat
      OBVIOUS
    <2> HIDE DEF T
    <2> QED  BY <1>1, <2>1, LeastNumber
  <1>3. x \in Nat /\ x # 0 /\ x \notin S
    OBVIOUS
  <1>4. x - 1 \in Nat /\ x - 1 \in S
    BY <1>2, <1>3
  <1> QED  BY <1>3, <1>4

-----------------------------------------------------------------------------
(* Products and quotients *)

LEMMA TimesOrder ==
    ASSUME NEW m \in Nat, NEW a \in Int, NEW b \in Int, a <= b
    PROVE  m * a \in Int /\ m * b \in Int /\ m * a <= m * b
  <1>1. m * (b - a) \in Nat
    <2>1. b - a \in Nat
      OBVIOUS
    <2> QED  BY <2>1
  <1>2. m * a \in Int /\ m * b \in Int /\ m * b = m * a + m * (b - a)
    OBVIOUS
  <1> QED  BY <1>1, <1>2

\* A quotient is the greatest number of whole parts.
LEMMA QuotientRight ==
    ASSUME NEW a \in Int, NEW b \in Nat \ {0}
    PROVE  /\ a \div b \in Int /\ b * (a \div b) \in Int
           /\ b * (a \div b) <= a /\ a < b * (a \div b) + b
           /\ a % b = a - b * (a \div b)
  OBVIOUS

LEMMA QuotientReached ==
    ASSUME NEW a \in Int, NEW b \in Nat \ {0}, NEW q \in Int
    PROVE  q <= a \div b <=> b * q <= a
  <1> DEFINE d == a \div b
  <1>1. d \in Int /\ b * d \in Int /\ b * d <= a /\ a < b * d + b
    BY QuotientRight
  <1> HIDE DEF d
  <1>2. ASSUME q <= d  PROVE b * q <= a
    <2>1. b * q \in Int /\ b * q <= b * d
      BY <1>1, <1>2, TimesOrder
    <2> QED  BY <1>1, <2>1
  <1>3. ASSUME d + 1 <= q  PROVE ~(b * q <= a)
    <2>1. b * (d + 1) \in Int /\ b * q \in Int /\ b * (d + 1) <= b * q
      BY <1>1, <1>3, TimesOrder
    <2>2. b * (d + 1) = b * d + b
      BY <1>1
    <2> QED  BY <1>1, <2>1, <2>2
  <1>4. q <= d \/ d + 1 <= q
    BY <1>1
  <1> QED  BY <1>2, <1>3, <1>4 DEF d

LEMMA QuotientNat ==
    ASSUME NEW a \in Nat, NEW b \in Nat \ {0}
    PROVE  a \div b \in Nat
  <1>1. a \div b \in Int
    BY QuotientRight
  <1>2. 0 <= a \div b
    BY QuotientReached
  <1> QED  BY <1>1, <1>2

-----------------------------------------------------------------------------
(* Sums *)

\* f sums up the first n of a.
SumsUp(f, a, n) ==
    /\ f \in [0..n -> Int] /\ f[0] = 0
    /\ \A k \in 1..n : f[k] = f[k - 1] + a[k]

LEMMA SumsExist ==
    ASSUME NEW m \in Nat, NEW a \in [1..m -> Int]
    PROVE  \E f : SumsUp(f, a, m)
  <1> DEFINE S == {n \in Nat : n <= m => \E f : SumsUp(f, a, n)}
  <1>1. 0 \in S
    <2>1. SumsUp([k \in 0..0 |-> 0], a, 0)
      BY DEF SumsUp
    <2> QED  BY <2>1
  <1>2. ASSUME NEW n \in Nat, n \in S  PROVE n + 1 \in S
    <2> SUFFICES ASSUME n + 1 <= m  PROVE \E f : SumsUp(f, a, n + 1)
      OBVIOUS
    <2>1. PICK f : SumsUp(f, a, n)
      BY <1>2
    <2> DEFINE d == f[n] + a[n + 1]
               g == [k \in 0..(n + 1) |-> IF k = n + 1 THEN d ELSE f[k]]
    <2>2. d \in Int
      BY <2>1 DEF SumsUp
    <2> HIDE DEF d
    <2>3. g \in [0..(n + 1) -> Int] /\ g[0] = 0
      <3>1. 0 \in 0..(n + 1) /\ 0 # n + 1 /\ \A k \in 0..(n + 1) : k # n + 1 => k \in 0..n
        OBVIOUS
      <3> QED  BY <2>1, <2>2, <3>1 DEF SumsUp
    <2>4. ASSUME NEW k \in 1..(n + 1)  PROVE g[k] = g[k - 1] + a[k]
      <3>1. CASE k = n + 1
        <4>1. k - 1 = n /\ n \in 0..(n + 1) /\ n # n + 1
          BY <3>1
        <4> QED  BY <3>1, <4>1 DEF d
      <3>2. CASE k # n + 1
        <4>1. k \in 1..n /\ k \in 0..(n + 1) /\ k - 1 \in 0..(n + 1) /\ k - 1 # n + 1
          BY <3>2
        <4> QED  BY <2>1, <3>2, <4>1 DEF SumsUp
      <3> QED  BY <3>1, <3>2
    <2>5. SumsUp(g, a, n + 1)
      <3> HIDE DEF g
      <3> QED  BY <2>3, <2>4 DEF SumsUp
    <2> HIDE DEF g
    <2> QED  BY <2>5
  <1>3. Nat \subseteq S
    <2> HIDE DEF S
    <2> QED  BY <1>1, <1>2, InductionOnSet
  <1>4. m \in S
    BY <1>3
  <1> QED  BY <1>4

\* Two sums of the same numbers agree as far as both go.
LEMMA SumsAgree ==
    ASSUME NEW m \in Nat, NEW f, NEW g, f[0] = g[0],
           \A k \in 1..m : f[k - 1] = g[k - 1] => f[k] = g[k]
    PROVE  \A k \in 0..m : f[k] = g[k]
  <1> DEFINE S == {n \in Nat : n <= m => f[n] = g[n]}
  <1>1. 0 \in S
    OBVIOUS
  <1>2. ASSUME NEW n \in Nat, n \in S  PROVE n + 1 \in S
    <2> SUFFICES ASSUME n + 1 <= m  PROVE f[n + 1] = g[n + 1]
      OBVIOUS
    <2>1. n + 1 \in 1..m /\ (n + 1) - 1 = n /\ f[n] = g[n]
      BY <1>2
    <2> QED  BY <2>1
  <1>3. Nat \subseteq S
    <2> HIDE DEF S
    <2> QED  BY <1>1, <1>2, InductionOnSet
  <1> QED  BY <1>3

-----------------------------------------------------------------------------
(* What is asked for *)

CfgOK == cfg \in Configs

LEMMA CfgFields ==
    ASSUME CfgOK
    PROVE  /\ cfg.kind \in {"const", "step", "line", "segments"}
           /\ cfg.start \in Nat /\ cfg.step \in Int /\ cfg.stepDuration \in Nat \ {0}
           /\ cfg.stop \in Nat /\ cfg.duration \in Nat /\ cfg.max \in Nat
           /\ cfg.segments \in Seq([duration: Nat \ {0}, rps: Nat])
           /\ Second \in Nat \ {0} /\ StepLen \in Nat \ {0}
  BY PacerAssumption DEF PacerAssumption, CfgOK, StepLen, LenOf

LEMMA ElementType ==
    ASSUME NEW T, NEW s \in Seq(T), NEW k \in DOMAIN s
    PROVE  s[k] \in T
  OBVIOUS

LEMMA SegmentFields ==
    ASSUME CfgOK
    PROVE  /\ Len(cfg.segments) \in Nat /\ Segments = 1..Len(cfg.segments)
           /\ \A i \in Segments : /\ cfg.segments[i].duration \in Nat \ {0}
                                  /\ cfg.segments[i].rps \in Nat
  <1> DEFINE T == [duration: Nat \ {0}, rps: Nat]
  <1>1. cfg.segments \in Seq(T)
    BY CfgFields
  <1>2. ASSUME NEW i \in Segments  PROVE cfg.segments[i] \in T
    <2> HIDE DEF T
    <2> QED  BY <1>1, ElementType DEF Segments
  <1>3. Len(cfg.segments) \in Nat /\ Segments = 1..Len(cfg.segments)
    <2> HIDE DEF T
    <2> QED  BY <1>1 DEF Segments
  <1> QED  BY <1>2, <1>3

\* A rate of the configuration is a number of hits.
LEMMA AskedType ==
    ASSUME CfgOK, NEW t \in Nat
    PROVE  Asked(t) \in Nat
  <1>1. StepRate(t \div StepLen) \in Nat /\ StepRate(cfg.duration \div StepLen) \in Nat
    <2>1. ASSUME NEW n \in Int  PROVE StepRate(n) \in Nat
      <3> DEFINE r == cfg.start + cfg.step * n
      <3>1. r \in Int
        BY <2>1, CfgFields
      <3> HIDE DEF r
      <3>2. StepRate(n) = IF r < 0 THEN 0 ELSE r
        BY DEF StepRate, r
      <3> QED  BY <3>1, <3>2
    <2>2. t \div StepLen \in Int /\ cfg.duration \div StepLen \in Int
      <3>1. cfg.duration \in Int /\ t \in Int /\ StepLen \in Nat \ {0}
        BY CfgFields
      <3> QED  BY <3>1, QuotientRight
    <2> QED  BY <2>1, <2>2
  <1>2. CASE cfg.kind = "const"
    BY <1>2, CfgFields DEF Asked
  <1>3. CASE cfg.kind = "segments"
    <2>1. CASE \E i \in Segments : CumTime[i - 1] <= t /\ t < CumTime[i]
      <3> DEFINE i == CHOOSE i \in Segments : CumTime[i - 1] <= t /\ t < CumTime[i]
      <3>1. i \in Segments
        BY <2>1
      <3> HIDE DEF i
      <3>2. cfg.segments[i].rps \in Nat
        BY <3>1, SegmentFields
      <3> QED  BY <1>3, <2>1, <3>2 DEF Asked, i
    <2>2. CASE ~\E i \in Segments : CumTime[i - 1] <= t /\ t < CumTime[i]
      BY <1>3, <2>2 DEF Asked
    <2> QED  BY <2>1, <2>2
  <1>4. CASE cfg.kind \in {"step", "line"}
    <2> DEFINE n == IF cfg.duration > 0 /\ t >= cfg.duration THEN cfg.duration \div StepLen
                    ELSE t \div StepLen
    <2>1. StepRate(n) \in Nat
      BY <1>1
    <2>2. Asked(t) \in {cfg.stop, StepRate(n)}
      BY <1>4 DEF Asked
    <2> QED  BY <2>1, <2>2, CfgFields
  <1> QED  BY <1>2, <1>3, <1>4, CfgFields

\* The recursive definition in Schedule has a solution.
LEMMA ScheduleSum ==
    ASSUME CfgOK, NEW m \in Nat
    PROVE  \E f : /\ f \in [0..m -> Int] /\ f[0] = 0 /\ Schedule(m) = f[m]
                  /\ \A k \in 1..m : f[k] = f[k - 1] + Asked(k - 1)
  <1> DEFINE a == [k \in 1..m |-> Asked(k - 1)]
             Next0(h) == [u \in 0..m |-> IF u = 0 THEN 0 ELSE h[u - 1] + Asked(u - 1)]
             sum == CHOOSE h : h = Next0(h)
  <1>1. a \in [1..m -> Int]
    <2>1. ASSUME NEW k \in 1..m  PROVE Asked(k - 1) \in Int
      <3>1. k - 1 \in Nat
        OBVIOUS
      <3> QED  BY <3>1, AskedType
    <2> QED  BY <2>1
  <1>2. PICK f : SumsUp(f, a, m)
    <2> HIDE DEF a
    <2> QED  BY <1>1, SumsExist
  <1>3. /\ f \in [0..m -> Int] /\ f[0] = 0
        /\ \A k \in 1..m : f[k] = f[k - 1] + Asked(k - 1)
    BY <1>2 DEF SumsUp
  <1>4. f = Next0(f)
    <2>1. \A u \in 0..m : f[u] = IF u = 0 THEN 0 ELSE f[u - 1] + Asked(u - 1)
      BY <1>3
    <2> QED  BY <1>3, <2>1
  <1>5. sum = Next0(sum)
    <2> HIDE DEF Next0
    <2> QED  BY <1>4
  <1>6. Schedule(m) = sum[m]
    BY DEF Schedule
  <1> HIDE DEF sum
  <1>7. /\ sum[0] = f[0]
        /\ \A k \in 1..m : sum[k - 1] = f[k - 1] => sum[k] = f[k]
    BY <1>3, <1>5
  <1>8. sum[m] = f[m]
    <2>1. \A k \in 0..m : sum[k] = f[k]
      BY <1>7, SumsAgree
    <2> QED  BY <2>1
  <1> QED  BY <1>3, <1>6, <1>8

\* What is asked for up to the next tick.
LEMMA ScheduleStep ==
    ASSUME CfgOK, NEW t \in Nat
    PROVE  /\ Schedule(0) = 0 /\ Schedule(t) \in Int
           /\ Schedule(t + 1) = Schedule(t) + Asked(t)
  <1>1. Schedule(0) = 0
    <2>1. PICK f : f[0] = 0 /\ Schedule(0) = f[0]
      BY ScheduleSum
    <2> QED  BY <2>1
  <1>2. PICK f : /\ f \in [0..t -> Int] /\ f[0] = 0 /\ Schedule(t) = f[t]
                 /\ \A k \in 1..t : f[k] = f[k - 1] + Asked(k - 1)
    BY ScheduleSum
  <1>3. PICK g : /\ g \in [0..(t + 1) -> Int] /\ g[0] = 0 /\ Schedule(t + 1) = g[t + 1]
                 /\ \A k \in 1..(t + 1) : g[k] = g[k - 1] + Asked(k - 1)
    <2>1. t + 1 \in Nat
      OBVIOUS
    <2> QED  BY <2>1, ScheduleSum
  <1>4. \A k \in 0..t : f[k] = g[k]
    <2>1. f[0] = g[0] /\ \A k \in 1..t : f[k - 1] = g[k - 1] => f[k] = g[k]
      BY <1>2, <1>3
    <2> QED  BY <2>1, SumsAgree
  <1>5. g[t + 1] = g[(t + 1) - 1] + Asked((t + 1) - 1) /\ (t + 1) - 1 = t
    BY <1>3
  <1> QED  BY <1>1, <1>2, <1>3, <1>4, <1>5

\* While at least r hits are asked for, the schedule grows by at least as many.
LEMMA ScheduleGrows ==
    ASSUME CfgOK, NEW e \in Nat, NEW t \in Nat, e <= t, NEW r \in Nat,
           \A u \in e..(t - 1) : Asked(u) >= r
    PROVE  Schedule(e) + r * (t - e) <= Schedule(t)
  <1> DEFINE S == {n \in Nat : e + n <= t => Schedule(e) + r * n <= Schedule(e + n)}
  <1>1. 0 \in S
    BY ScheduleStep
  <1>2. ASSUME NEW n \in Nat, n \in S  PROVE n + 1 \in S
    <2> SUFFICES ASSUME e + (n + 1) <= t
                 PROVE  Schedule(e) + r * (n + 1) <= Schedule(e + (n + 1))
      OBVIOUS
    <2>1. Schedule(e) + r * n <= Schedule(e + n)
      BY <1>2
    <2>2. e + n \in Nat /\ e + n \in e..(t - 1) /\ e + (n + 1) = (e + n) + 1
      OBVIOUS
    <2>3. Schedule(e + (n + 1)) = Schedule(e + n) + Asked(e + n) /\ Asked(e + n) >= r
      BY <2>2, ScheduleStep
    <2>4. Schedule(e) \in Int /\ Schedule(e + n) \in Int /\ Asked(e + n) \in Nat
      BY <2>2, ScheduleStep, AskedType
    <2>5. r * (n + 1) = r * n + r /\ r * n \in Int
      OBVIOUS
    <2> QED  BY <2>1, <2>3, <2>4, <2>5
  <1>3. t - e \in S
    <2>1. Nat \subseteq S
      <3> HIDE DEF S
      <3> QED  BY <1>1, <1>2, InductionOnSet
    <2>2. t - e \in Nat
      OBVIOUS
    <2> QED  BY <2>1, <2>2
  <1>4. e + (t - e) = t
    OBVIOUS
  <1> QED  BY <1>3, <1>4

\* While r hits are asked for, it grows by as many.
LEMMA ScheduleEven ==
    ASSUME CfgOK, NEW e \in Nat, NEW t \in Nat, e <= t, NEW r \in Nat,
           \A u \in e..(t - 1) : Asked(u) = r
    PROVE  Schedule(t) = Schedule(e) + r * (t - e)
  <1> DEFINE S == {n \in Nat : e + n <= t => Schedule(e + n) = Schedule(e) + r * n}
  <1>1. 0 \in S
    BY ScheduleStep
  <1>2. ASSUME NEW n \in Nat, n \in S  PROVE n + 1 \in S
    <2> SUFFICES ASSUME e + (n + 1) <= t
                 PROVE  Schedule(e + (n + 1)) = Schedule(e) + r * (n + 1)
      OBVIOUS
    <2>1. Schedule(e + n) = Schedule(e) + r * n
      BY <1>2
    <2>2. e + n \in Nat /\ e + n \in e..(t - 1) /\ e + (n + 1) = (e + n) + 1
      OBVIOUS
    <2>3. Schedule(e + (n + 1)) = Schedule(e + n) + Asked(e + n) /\ Asked(e + n) = r
      BY <2>2, ScheduleStep
    <2>4. Schedule(e) \in Int
      BY ScheduleStep
    <2>5. r * (n + 1) = r * n + r /\ r * n \in Int
      OBVIOUS
    <2> QED  BY <2>1, <2>3, <2>4, <2>5
  <1>3. t - e \in S
    <2>1. Nat \subseteq S
      <3> HIDE DEF S
      <3> QED  BY <1>1, <1>2, InductionOnSet
    <2>2. t - e \in Nat
      OBVIOUS
    <2> QED  BY <2>1, <2>2
  <1>4. e + (t - e) = t
    OBVIOUS
  <1> QED  BY <1>3, <1>4

LEMMA ScheduleOrder ==
    ASSUME CfgOK, NEW e \in Nat, NEW t \in Nat, e <= t
    PROVE  Schedule(e) \in Int /\ Schedule(t) \in Int /\ Schedule(e) <= Schedule(t)
  <1>1. \A u \in e..(t - 1) : u \in Nat /\ Asked(u) \in Nat
    BY AskedType
  <1>2. \A u \in e..(t - 1) : Asked(u) >= 0
    BY <1>1
  <1>3. Schedule(e) + 0 * (t - e) <= Schedule(t)
    BY <1>2, ScheduleGrows
  <1> QED  BY <1>3, ScheduleStep

\* n hits are due by the end of tick t; the pacer of segments adds one at their end.
DueBy(n, t) ==
    \/ Second * n <= Schedule(t)
    \/ Second * n < Schedule(t) + Asked(t)
    \/ cfg.kind = "segments" /\ t >= totalDuration /\ Second * (n - 1) <= Schedule(t)

LEMMA DueLater ==
    ASSUME CfgOK, NEW n \in Nat, NEW e \in Nat, NEW t \in Nat, e <= t,
           totalDuration \in Int, DueBy(n, e)
    PROVE  DueBy(n, t)
  <1>1. CASE e = t
    BY <1>1
  <1>2. CASE e # t
    <2>1. e + 1 \in Nat /\ e + 1 <= t
      BY <1>2
    <2>2. Schedule(e) \in Int /\ Asked(e) \in Nat /\ Second \in Nat
          /\ Schedule(e + 1) = Schedule(e) + Asked(e)
      BY AskedType, ScheduleStep, CfgFields
    <2>3. Schedule(e + 1) <= Schedule(t) /\ Schedule(t) \in Int
      BY <2>1, ScheduleOrder
    <2>4. Second * n \in Int /\ Second * (n - 1) \in Int
      BY <2>2
    <2> DEFINE x == Second * n
               y == Second * (n - 1)
    <2> HIDE DEF x, y
    <2>5. CASE x <= Schedule(e) \/ x < Schedule(e) + Asked(e)
      <3>1. x <= Schedule(t)
        BY <2>2, <2>3, <2>4, <2>5 DEF x
      <3> QED  BY <3>1 DEF DueBy, x
    <2>6. CASE cfg.kind = "segments" /\ e >= totalDuration /\ y <= Schedule(e)
      <3>1. t >= totalDuration /\ y <= Schedule(t)
        BY <2>2, <2>3, <2>4, <2>6 DEF y
      <3> QED  BY <2>6, <3>1 DEF DueBy, y
    <2> QED  BY <2>5, <2>6 DEF DueBy, x, y
  <1> QED  BY <1>1, <1>2

-----------------------------------------------------------------------------
(* A constant rate *)

\* When the next hit is sent by a pacer that says p.
After(e, p) == IF p.wait > 0 THEN e + p.wait ELSE e

LEMMA WordFacts ==
    /\ UintSize \in Nat \ {0} /\ MaxInt \in Nat /\ UintSize = 2 * MaxInt + 2
    /\ Second \in Nat \ {0} /\ Second <= MaxInt
    /\ MaxTime \in Nat /\ MaxTime <= MaxInt
    /\ MaxHits \in Nat /\ Second * MaxHits \in Nat /\ Second * MaxHits <= MaxInt
    /\ \A u \in 0..(UintSize - 1) : ToUint(u) = u
    /\ \A u \in 0..MaxInt : ToInt(u) = u
  <1> DEFINE m == UintSize \div 2
  <1>1. /\ UintSize \in Nat \ {0} /\ UintSize % 2 = 0 /\ Second \in Nat \ {0}
        /\ MaxTime \in Nat /\ MaxHits \in Nat /\ 2 * MaxTime < UintSize
        /\ 2 * MaxHits * Second < UintSize /\ 2 * Second < UintSize
    BY PacerAssumption DEF PacerAssumption
  <1>2. m \in Nat /\ UintSize = 2 * m /\ m > 0 /\ MaxInt = m - 1
    BY <1>1 DEF MaxInt
  <1> HIDE DEF m
  <1>3. Second * MaxHits \in Nat /\ 2 * (Second * MaxHits) < UintSize
    <2>1. 2 * MaxHits * Second = 2 * (Second * MaxHits)
      BY <1>1
    <2> QED  BY <1>1, <2>1
  <1>4. \A u \in 0..(UintSize - 1) : ToUint(u) = u
    BY <1>1 DEF ToUint
  <1>5. \A u \in 0..MaxInt : ToInt(u) = u
    BY <1>1, <1>2 DEF ToInt
  <1> QED  BY <1>1, <1>2, <1>3, <1>4, <1>5

LEMMA IntervalRight ==
    ASSUME NEW f \in Nat \ {0}, Second % f = 0
    PROVE  /\ f <= Second /\ Second \div f \in Nat \ {0} /\ Second \div f <= Second
           /\ f * (Second \div f) = Second
           /\ ToUint(Quot(Second, ToInt(f))) = Second \div f
  <1> DEFINE i == Second \div f
  <1>1. Second \in Nat \ {0} /\ Second <= MaxInt /\ MaxInt \in Nat /\ UintSize = 2 * MaxInt + 2
    BY WordFacts
  <1>2. i \in Int /\ f * i = Second
    BY <1>1, QuotientRight
  <1>3. i \in Nat
    BY <1>1, QuotientNat
  <1>4. Quot(Second, f) = i
    BY <1>1 DEF Quot
  <1> HIDE DEF i
  <1>5. i # 0
    BY <1>1, <1>2
  <1>6. f * 1 <= f * i /\ i * 1 <= i * f /\ f * i = i * f
    <2>1. 1 <= i /\ 1 <= f /\ i \in Nat /\ f \in Nat
      BY <1>3, <1>5
    <2>2. f * 1 <= f * i
      BY <2>1, TimesOrder
    <2>3. i * 1 <= i * f
      BY <2>1, TimesOrder
    <2> QED  BY <2>1, <2>2, <2>3
  <1>7. f <= Second /\ i <= Second
    BY <1>2, <1>3, <1>6
  <1>8. ToInt(f) = f /\ ToUint(i) = i
    BY <1>1, <1>3, <1>7, WordFacts
  <1> QED  BY <1>2, <1>3, <1>4, <1>5, <1>7, <1>8 DEF i

\* What a constant pacer says at e, when h hits are sent: it stops at its bound only;
\* it waits only when h + 1 hits are not due, and long enough.
LEMMA ConstPaceRight ==
    ASSUME NEW f \in Nat, f > 0 => Second % f = 0, NEW max \in Nat,
           NEW e \in Nat, e <= MaxTime, NEW h \in Nat, h <= MaxHits
    PROVE  LET p == ConstPace(f, max, e, h)
           IN  /\ p.stop \in BOOLEAN /\ p.wait \in Int
               /\ p.stop => max > 0 /\ h >= max
               /\ f > 0 /\ ~p.stop => Second * (h + 1) <= f * After(e, p)
               /\ f > 0 /\ p.wait > 0 => f * e < Second * (h + 1)
               /\ f = 0 => p.wait = 0
  <1> DEFINE p == ConstPace(f, max, e, h)
             i == Second \div f
  <1>1. CASE max > 0 /\ h >= max
    BY <1>1 DEF ConstPace, StopNow
  <1>2. CASE ~(max > 0 /\ h >= max) /\ f = 0
    <2>1. p = [wait |-> 0, stop |-> FALSE]
      BY <1>2 DEF ConstPace, Go
    <2> HIDE DEF p
    <2>2. p.wait = 0 /\ p.wait \in Int
      BY <2>1
    <2>3. ~(f > 0)
      BY <1>2
    <2>4. p.stop \in BOOLEAN /\ ~p.stop
      BY <2>1
    <2>5. ~(p.wait > 0)
      BY <2>2
    <2> QED  BY <2>2, <2>3, <2>4, <2>5 DEF p
  <1>3. CASE ~(max > 0 /\ h >= max) /\ f > 0
    <2>1. /\ i \in Nat \ {0} /\ i <= Second /\ f <= Second /\ f * i = Second
          /\ ToUint(Quot(Second, ToInt(f))) = i
          /\ Second \in Nat \ {0} /\ MaxInt \in Nat
      BY <1>3, IntervalRight, WordFacts
    <2> HIDE DEF i
    <2>2. ~(MaxInt \div i < h)
      <3>1. /\ h * i <= h * Second /\ Second * h <= Second * MaxHits
            /\ h * i \in Int /\ h * Second \in Int /\ Second * h \in Int
        BY <2>1, WordFacts, TimesOrder
      <3>2. h * Second = Second * h /\ h * i = i * h
        BY <2>1
      <3>3. i * h <= MaxInt
        BY <3>1, <3>2, WordFacts
      <3>4. h <= MaxInt \div i
        BY <2>1, <3>3, QuotientReached
      <3>5. MaxInt \div i \in Int
        BY <2>1, QuotientRight
      <3> QED  BY <3>4, <3>5
    <2> DEFINE k == e \div Second
    <2>3. /\ k \in Nat /\ Second * k <= e /\ f * k \in Nat /\ f * k <= Second * k
          /\ ToUint(f * k) = f * k
      <3>1. k \in Nat /\ Second * k \in Int /\ Second * k <= e
        <4>1. Second \in Nat \ {0}
          BY <2>1
        <4>2. k \in Nat
          BY <4>1, QuotientNat
        <4>3. Second * k \in Int /\ Second * k <= e
          BY <4>1, QuotientRight
        <4> QED  BY <4>2, <4>3
      <3> HIDE DEF k
      <3>2. f * k \in Nat /\ k * f <= k * Second
        BY <2>1, <3>1, TimesOrder
      <3>3. k * f = f * k /\ k * Second = Second * k
        BY <2>1, <3>1
      <3>4. f * k <= MaxTime
        BY <3>1, <3>2, <3>3, WordFacts
      <3>5. f * k \in 0..(UintSize - 1)
        BY <3>2, <3>4, WordFacts
      <3> QED  BY <3>1, <3>2, <3>3, <3>5, WordFacts
    <2> HIDE DEF k
    <2>4. p = IF h < f * k THEN Go(0) ELSE Go((h + 1) * i - e)
      BY <1>3, <2>1, <2>2, <2>3 DEF ConstPace, k
    <2>5. CASE h < f * k
      <3>1. p = [wait |-> 0, stop |-> FALSE]
        BY <2>4, <2>5 DEF Go
      <3>2. Second * (h + 1) <= Second * (f * k)
        BY <2>1, <2>3, <2>5, TimesOrder
      <3>3. f * (Second * k) <= f * e
        BY <2>1, <2>3, TimesOrder
      <3>4. Second * (f * k) = f * (Second * k) /\ Second * (f * k) \in Int /\ f * e \in Int
            /\ Second * (h + 1) \in Int
        BY <2>1, <2>3
      <3>5. Second * (h + 1) <= f * e
        BY <3>2, <3>3, <3>4
      <3> HIDE DEF p
      <3> QED  BY <1>3, <3>1, <3>5 DEF After, p
    <2>6. CASE ~(h < f * k)
      <3> DEFINE w == (h + 1) * i - e
      <3>1. p = [wait |-> w, stop |-> FALSE]
        BY <2>4, <2>6 DEF Go
      <3>2. w \in Int /\ e + w = (h + 1) * i /\ (h + 1) * i \in Int
        BY <2>1
      <3>3. f * ((h + 1) * i) = Second * (h + 1)
        <4>1. f * ((h + 1) * i) = (f * i) * (h + 1)
          BY <2>1
        <4> QED  BY <2>1, <4>1
      <3> HIDE DEF w
      <3>4. w > 0 => f * e < Second * (h + 1)
        <4> SUFFICES ASSUME w > 0  PROVE f * e < Second * (h + 1)
          OBVIOUS
        <4>1. e + 1 <= (h + 1) * i /\ e + 1 \in Int
          BY <3>2
        <4>2. f * (e + 1) <= f * ((h + 1) * i)
          BY <3>2, <4>1, TimesOrder
        <4>3. f * (e + 1) = f * e + f /\ f * e \in Int
          OBVIOUS
        <4>4. Second * (h + 1) \in Int
          BY <2>1
        <4> QED  BY <1>3, <3>3, <4>2, <4>3, <4>4
      <3>5. Second * (h + 1) <= f * After(e, p)
        <4>1. CASE w > 0
          <5>1. After(e, p) = (h + 1) * i
            BY <3>1, <3>2, <4>1 DEF After
          <5>2. Second * (h + 1) \in Int
            BY <2>1
          <5> QED  BY <3>3, <5>1, <5>2
        <4>2. CASE ~(w > 0)
          <5>1. After(e, p) = e /\ (h + 1) * i <= e
            BY <3>1, <3>2, <4>2 DEF After
          <5>2. f * ((h + 1) * i) <= f * e
            BY <3>2, <5>1, TimesOrder
          <5> QED  BY <3>3, <5>1, <5>2
        <4> QED  BY <4>1, <4>2
      <3> HIDE DEF p
      <3> QED  BY <1>3, <3>1, <3>2, <3>4, <3>5 DEF p
    <2> QED  BY <2>5, <2>6
  <1> QED  BY <1>1, <1>2, <1>3

\* A constant rate asks for as much in every tick.
LEMMA ConstSchedule ==
    ASSUME CfgOK, cfg.kind = "const", NEW t \in Nat
    PROVE  Schedule(t) = cfg.start * t
  <1>1. \A u \in 0..(t - 1) : Asked(u) = cfg.start
    BY DEF Asked
  <1>2. cfg.start \in Nat
    BY CfgFields
  <1>3. Schedule(t) = Schedule(0) + cfg.start * (t - 0)
    BY <1>1, <1>2, ScheduleEven
  <1> QED  BY <1>2, <1>3, ScheduleStep

-----------------------------------------------------------------------------
(* Steps and lines *)

\* A load in steps that the pacer does not refuse.
StepsOK ==
    /\ CfgOK /\ Regular(cfg)
    /\ cfg.kind \in {"step", "line"} /\ cfg.start # 0 /\ cfg.step # 0

LEMMA StepRateRight ==
    ASSUME StepsOK, NEW n \in Nat
    PROVE  /\ cfg.start + cfg.step * n \in Int
           /\ StepRate(n) = IF cfg.start + cfg.step * n < 0 THEN 0 ELSE cfg.start + cfg.step * n
           /\ StepRate(n) \in Nat
  <1> DEFINE r == cfg.start + cfg.step * n
  <1>1. cfg.start \in Nat /\ cfg.step \in Int
    BY CfgFields DEF StepsOK
  <1>2. r \in Int
    BY <1>1
  <1>3. StepRate(n) = IF r < 0 THEN 0 ELSE r
    BY DEF StepRate
  <1> HIDE DEF r
  <1>4. StepRate(n) \in Nat
    BY <1>2, <1>3
  <1> QED  BY <1>2, <1>3, <1>4 DEF r

\* The rates go one way.
LEMMA StepRateOrder ==
    ASSUME StepsOK, NEW m \in Nat, NEW n \in Nat, m <= n
    PROVE  /\ cfg.step > 0 => StepRate(m) <= StepRate(n)
           /\ cfg.step < 0 => StepRate(n) <= StepRate(m)
  <1>1. cfg.start \in Nat /\ cfg.step \in Int
    BY CfgFields DEF StepsOK
  <1> DEFINE a == cfg.step * m
             b == cfg.step * n
  <1>2. a \in Int /\ b \in Int
    BY <1>1
  <1>3. cfg.step > 0 => a <= b
    <2> SUFFICES ASSUME cfg.step > 0  PROVE a <= b
      OBVIOUS
    <2>1. cfg.step \in Nat
      BY <1>1
    <2> QED  BY <2>1, TimesOrder
  <1>4. cfg.step < 0 => b <= a
    <2> SUFFICES ASSUME cfg.step < 0  PROVE b <= a
      OBVIOUS
    <2>1. -cfg.step \in Nat
      BY <1>1
    <2>2. (-cfg.step) * m <= (-cfg.step) * n
      BY <2>1, TimesOrder
    <2>3. (-cfg.step) * m = -a /\ (-cfg.step) * n = -b
      BY <1>1
    <2> QED  BY <1>2, <2>2, <2>3
  <1>5. /\ StepRate(m) = IF cfg.start + a < 0 THEN 0 ELSE cfg.start + a
        /\ StepRate(n) = IF cfg.start + b < 0 THEN 0 ELSE cfg.start + b
    BY StepRateRight
  <1> HIDE DEF a, b
  <1> QED  BY <1>1, <1>2, <1>3, <1>4, <1>5

\* The Stop rate is passed from some step on, which is the one that constAt names.
Passed(n) == IF cfg.step > 0 THEN StepRate(n) > cfg.stop ELSE StepRate(n) < cfg.stop

LEMMA PassedFrom ==
    ASSUME StepsOK, cfg.duration = 0, cfg.stop > 0
    PROVE  \E k \in Nat \ {0} : /\ constAt = StepLen * k
                                /\ \A n \in Nat : Passed(n) <=> k <= n
  <1>1. /\ cfg.start \in Nat \ {0} /\ cfg.step \in Int \ {0} /\ cfg.stop \in Nat \ {0}
        /\ IF cfg.step > 0 THEN cfg.start < cfg.stop ELSE cfg.start > cfg.stop
    BY CfgFields DEF StepsOK, Regular
  <1> DEFINE top == cfg.stop + cfg.start
  <1>2. top \in Nat /\ Passed(top)
    <2>1. top \in Nat
      BY <1>1
    <2>2. CASE cfg.step > 0
      <3>1. top * 1 <= top * cfg.step
        BY <1>1, <2>1, <2>2, TimesOrder
      <3>2. top * cfg.step = cfg.step * top /\ cfg.step * top \in Int
        BY <1>1, <2>1
      <3>3. cfg.start + cfg.step * top > cfg.stop
        BY <1>1, <3>1, <3>2
      <3> HIDE DEF top
      <3>4. StepRate(top) > cfg.stop
        BY <1>1, <2>1, <3>2, <3>3, StepRateRight
      <3> QED  BY <2>1, <2>2, <3>4 DEF Passed
    <2>3. CASE ~(cfg.step > 0)
      <3>1. top * 1 <= top * (-cfg.step)
        <4>1. -cfg.step \in Int /\ 1 <= -cfg.step
          BY <1>1, <2>3
        <4> HIDE DEF top
        <4> QED  BY <2>1, <4>1, TimesOrder
      <3>2. top * (-cfg.step) = -(cfg.step * top) /\ cfg.step * top \in Int
        BY <1>1, <2>1
      <3>3. cfg.start + cfg.step * top < 0
        BY <1>1, <3>1, <3>2
      <3> HIDE DEF top
      <3>4. StepRate(top) = 0
        BY <2>1, <3>3, StepRateRight
      <3> QED  BY <1>1, <2>1, <2>3, <3>4 DEF Passed
    <2> QED  BY <2>2, <2>3
  <1>3. ~Passed(0)
    <2>1. StepRate(0) = cfg.start
      <3>1. cfg.start + cfg.step * 0 = cfg.start
        BY <1>1
      <3> QED  BY <1>1, <3>1, StepRateRight
    <2> QED  BY <1>1, <2>1 DEF Passed
  <1>4. \A m \in Nat : \A n \in Nat : m <= n /\ Passed(m) => Passed(n)
    <2> TAKE m \in Nat, n \in Nat
    <2> HAVE m <= n /\ Passed(m)
    <2>1. StepRate(m) \in Nat /\ StepRate(n) \in Nat
      BY StepRateRight
    <2> QED  BY <1>1, <2>1, StepRateOrder DEF Passed
  <1> DEFINE T == {n \in Nat : Passed(n)}
  <1>5. PICK x \in T : \A y \in T : x <= y
    <2>1. T \in SUBSET Nat /\ T # {}
      BY <1>2
    <2> HIDE DEF T
    <2> QED  BY <2>1, LeastNumber
  <1>6. x \in Nat \ {0} /\ Passed(x) /\ x \in 0..top /\ \A m \in 0..x - 1 : ~Passed(m)
    <2>1. x \in Nat /\ Passed(x) /\ x <= top
      BY <1>2, <1>5
    <2>2. x # 0
      BY <1>3, <2>1
    <2>3. \A m \in 0..x - 1 : ~Passed(m)
      BY <1>5, <2>1
    <2> QED  BY <2>1, <2>2, <2>3
  <1> HIDE DEF T, top
  <1> DEFINE Q(n) == Passed(n) /\ \A m \in 0..n - 1 : ~Passed(m)
             k == CHOOSE n \in 0..top : Q(n)
  <1>7. k \in 0..top /\ Q(k)
    <2>1. \E n \in 0..top : Q(n)
      BY <1>6
    <2> HIDE DEF Q
    <2> QED  BY <2>1
  <1>8. constAt = StepLen * k
    BY <1>1 DEF constAt, Passed, top
  <1> HIDE DEF k
  <1>9. k \in Nat
    BY <1>2, <1>7
  <1>10. k # 0
    BY <1>3, <1>7
  <1>11. \A n \in Nat : Passed(n) <=> k <= n
    <2> TAKE n \in Nat
    <2>1. CASE k <= n
      BY <1>4, <1>7, <1>9, <2>1
    <2>2. CASE ~(k <= n)
      BY <1>7, <1>9, <2>2
    <2> QED  BY <2>1, <2>2
  <1> QED  BY <1>8, <1>9, <1>10, <1>11

\* The rate becomes constant at the beginning of a step, if it does, and is what the
\* configuration asks for in every tick.
LEMMA RateRight ==
    ASSUME StepsOK
    PROVE  /\ stopFreq \in Nat /\ (stopFreq > 0 => Second % stopFreq = 0)
           /\ constAt \in Nat
           /\ \E k \in Nat : constAt = StepLen * k
           /\ \A t \in Nat : Asked(t) = Rate(t)
  <1>1. /\ cfg.start \in Nat \ {0} /\ cfg.step \in Int \ {0} /\ cfg.stop \in Nat
        /\ cfg.duration \in Nat /\ StepLen \in Nat \ {0} /\ cfg.duration % StepLen = 0
        /\ cfg.kind # "const" /\ cfg.kind # "segments"
    BY CfgFields DEF StepsOK, Regular, StepLen
  <1> DEFINE d == cfg.duration \div StepLen
  <1>2. d \in Nat /\ cfg.duration = StepLen * d
    <2>1. d \in Nat
      BY <1>1, QuotientNat
    <2>2. cfg.duration % StepLen = cfg.duration - StepLen * d /\ StepLen * d \in Int
      <3>1. cfg.duration \in Int /\ StepLen \in Nat \ {0}
        BY <1>1
      <3> QED  BY <3>1, QuotientRight
    <2> QED  BY <1>1, <2>1, <2>2
  <1>3. CASE cfg.duration > 0
    <2>1. constAt = cfg.duration
      BY <1>3 DEF constAt
    <2>2. /\ stopFreq \in Nat /\ (stopFreq > 0 => Second % stopFreq = 0)
          /\ stopFreq = IF cfg.stop > 0 THEN cfg.stop ELSE StepRate(d)
      <3>1. CASE cfg.stop > 0
        <4>1. Second % cfg.stop = 0
          BY <1>1, <1>3, <3>1 DEF StepsOK, Regular
        <4> QED  BY <1>1, <3>1, <4>1 DEF stopFreq
      <3>2. CASE ~(cfg.stop > 0)
        <4> DEFINE last == cfg.start + cfg.step * d
        <4>1. cfg.stop = 0
          BY <1>1, <3>2
        <4>2. last \in Int /\ StepRate(d) = IF last < 0 THEN 0 ELSE last
          BY <1>2, StepRateRight
        <4>3. last >= 0 /\ (last > 0 => Second % last = 0)
          BY <1>1, <1>3, <4>1 DEF StepsOK, Regular, StepLen
        <4>4. stopFreq = ToUint(last)
          BY <1>3, <4>1 DEF stopFreq
        <4> HIDE DEF last
        <4>5. last \in Nat /\ last <= Second
          <5>1. CASE last = 0
            BY <5>1, WordFacts
          <5>2. CASE last > 0
            BY <4>2, <4>3, <5>2, IntervalRight
          <5> QED  BY <4>2, <4>3, <5>1, <5>2
        <4>6. ToUint(last) = last
          BY <4>5, WordFacts
        <4> QED  BY <3>2, <4>2, <4>3, <4>4, <4>5, <4>6
      <3> QED  BY <3>1, <3>2
    <2>3. ASSUME NEW t \in Nat  PROVE Asked(t) = Rate(t)
      <3>1. CASE t >= cfg.duration
        <4>1. Rate(t) = stopFreq
          BY <1>3, <2>1, <3>1 DEF Rate
        <4>2. CASE cfg.stop > 0
          BY <1>1, <1>3, <2>2, <3>1, <4>1, <4>2 DEF Asked
        <4>3. CASE ~(cfg.stop > 0)
          BY <1>1, <1>3, <2>2, <3>1, <4>1, <4>3 DEF Asked
        <4> QED  BY <4>2, <4>3
      <3>2. CASE ~(t >= cfg.duration)
        <4>1. Rate(t) = StepRate(t \div StepLen)
          BY <2>1, <3>2 DEF Rate
        <4>2. Asked(t) = StepRate(t \div StepLen)
          BY <1>1, <1>3, <3>2 DEF Asked
        <4> QED  BY <4>1, <4>2
      <3> QED  BY <3>1, <3>2
    <2> QED  BY <1>1, <1>2, <2>1, <2>2, <2>3
  <1>4. CASE ~(cfg.duration > 0)
    <2>1. cfg.duration = 0 /\ stopFreq = cfg.stop
      BY <1>1, <1>4 DEF stopFreq
    <2>2. stopFreq > 0 => Second % stopFreq = 0
      BY <1>1, <2>1 DEF StepsOK, Regular
    <2>3. CASE cfg.stop = 0
      <3>1. constAt = 0
        BY <1>4, <2>3 DEF constAt
      <3>2. 0 = StepLen * 0
        BY <1>1
      <3>3. ASSUME NEW t \in Nat  PROVE Asked(t) = Rate(t)
        <4>1. Rate(t) = StepRate(t \div StepLen)
          BY <3>1 DEF Rate
        <4>2. Asked(t) = StepRate(t \div StepLen)
          BY <1>1, <1>4, <2>3 DEF Asked
        <4> QED  BY <4>1, <4>2
      <3> QED  BY <1>1, <2>1, <2>2, <3>1, <3>2, <3>3
    <2>4. CASE cfg.stop # 0
      <3>1. cfg.stop > 0
        BY <1>1, <2>4
      <3>2. PICK k \in Nat \ {0} : /\ constAt = StepLen * k
                                   /\ \A n \in Nat : Passed(n) <=> k <= n
        BY <2>1, <3>1, PassedFrom
      <3>3. constAt \in Nat /\ constAt > 0
        <4>1. k * 1 <= k * StepLen /\ k * StepLen = StepLen * k
          BY <1>1, TimesOrder
        <4>2. StepLen * k \in Nat
          BY <1>1
        <4> QED  BY <3>2, <4>1, <4>2
      <3>4. ASSUME NEW t \in Nat  PROVE Asked(t) = Rate(t)
        <4> DEFINE n == t \div StepLen
        <4>1. n \in Nat
          BY <1>1, QuotientNat
        <4>2. Passed(n) <=> t >= constAt
          <5>1. k <= n <=> StepLen * k <= t
            BY <1>1, QuotientReached
          <5> HIDE DEF n
          <5> QED  BY <3>2, <3>3, <4>1, <5>1
        <4>3. Rate(t) = IF Passed(n) THEN cfg.stop ELSE StepRate(n)
          BY <2>1, <3>3, <4>2 DEF Rate
        <4>4. Asked(t) = IF Passed(n) THEN cfg.stop ELSE StepRate(n)
          BY <1>1, <1>4, <2>1, <3>1 DEF Asked, Passed
        <4> QED  BY <4>3, <4>4
      <3> QED  BY <1>1, <2>1, <2>2, <3>2, <3>3, <3>4
    <2> QED  BY <2>3, <2>4
  <1> QED  BY <1>3, <1>4

\* The rate does not change within a step, and is Start in the first.
LEMMA RateInStep ==
    ASSUME StepsOK, NEW u \in Nat, NEW v \in Nat, u \div StepLen = v \div StepLen
    PROVE  /\ Rate(u) = Rate(v)
           /\ u < StepLen => Rate(u) = cfg.start
  <1>1. StepLen \in Nat \ {0}
    BY CfgFields DEF StepsOK
  <1>2. PICK k \in Nat : constAt = StepLen * k
    BY RateRight
  <1>3. constAt <= u <=> constAt <= v
    <2>1. k <= u \div StepLen <=> StepLen * k <= u
      BY <1>1, QuotientReached
    <2>2. k <= v \div StepLen <=> StepLen * k <= v
      BY <1>1, QuotientReached
    <2> QED  BY <1>2, <2>1, <2>2
  <1>4. Rate(u) = Rate(v)
    BY <1>3, RateRight DEF Rate
  <1>5. ASSUME u < StepLen  PROVE Rate(u) = cfg.start
    <2>1. u \div StepLen = 0
      <3>1. 0 <= u \div StepLen
        BY <1>1, QuotientNat
      <3>2. ~(1 <= u \div StepLen)
        <4>1. StepLen * 1 = StepLen
          BY <1>1
        <4> QED  BY <1>1, <1>5, <4>1, QuotientReached
      <3>3. u \div StepLen \in Int
        BY <1>1, QuotientRight
      <3> QED  BY <3>1, <3>2, <3>3
    <2>2. ~(constAt > 0 /\ u >= constAt)
      <3> SUFFICES ASSUME constAt > 0, u >= constAt  PROVE FALSE
        OBVIOUS
      <3>1. k # 0
        <4>1. StepLen * 0 = 0
          BY <1>1
        <4> QED  BY <1>2, <4>1
      <3>2. StepLen * 1 <= StepLen * k /\ StepLen * 1 = StepLen /\ StepLen * k \in Int
        BY <1>1, <3>1, TimesOrder
      <3> QED  BY <1>1, <1>2, <1>5, <3>2
    <2>3. Rate(u) = StepRate(0)
      BY <2>1, <2>2 DEF Rate
    <2>4. StepRate(0) = cfg.start
      <3>1. cfg.start \in Nat /\ cfg.start + cfg.step * 0 = cfg.start
        BY CfgFields DEF StepsOK
      <3> QED  BY <3>1, StepRateRight
    <2> QED  BY <2>3, <2>4
  <1> QED  BY <1>4, <1>5

LEMMA QuotientIs ==
    ASSUME NEW b \in Nat \ {0}, NEW k \in Int, NEW u \in Int, b * k <= u, u < b * k + b
    PROVE  u \div b = k
  <1> DEFINE q == u \div b
  <1>1. q \in Int
    BY QuotientRight
  <1>2. k <= q
    BY QuotientReached
  <1>3. ~(k + 1 <= q)
    <2>1. b * (k + 1) = b * k + b /\ b * k \in Int
      OBVIOUS
    <2>2. ~(b * (k + 1) <= u)
      BY <2>1
    <2>3. k + 1 \in Int
      OBVIOUS
    <2> QED  BY <2>2, <2>3, QuotientReached
  <1> HIDE DEF q
  <1>4. q = k
    BY <1>1, <1>2, <1>3
  <1> QED  BY <1>4 DEF q

\* What the schedule grows by within the n-th step is at the rate of its beginning.
LEMMA ScheduleInStep ==
    ASSUME StepsOK, NEW n \in Nat, NEW t \in Nat,
           StepLen * n <= t, t <= StepLen * n + StepLen
    PROVE  /\ StepLen * n \in Nat
           /\ Schedule(t) = Schedule(StepLen * n) + Rate(StepLen * n) * (t - StepLen * n)
           /\ n = 0 => Rate(StepLen * n) = cfg.start
  <1> DEFINE e == StepLen * n
  <1>1. StepLen \in Nat \ {0} /\ CfgOK
    BY CfgFields DEF StepsOK
  <1>2. e \in Nat /\ e <= t /\ t <= e + StepLen
    BY <1>1
  <1>3. ASSUME NEW u \in Nat, e <= u, u < e + StepLen  PROVE u \div StepLen = n
    <2>1. StepLen * n <= u /\ u < StepLen * n + StepLen
      BY <1>3
    <2> HIDE DEF e
    <2> QED  BY <1>1, <2>1, QuotientIs
  <1> HIDE DEF e
  <1>4. e \div StepLen = n
    BY <1>1, <1>2, <1>3
  <1>5. Rate(e) \in Nat
    <2>1. Asked(e) \in Nat /\ Asked(e) = Rate(e)
      BY <1>1, <1>2, AskedType, RateRight
    <2> QED  BY <2>1
  <1>6. \A u \in e..(t - 1) : Asked(u) = Rate(e)
    <2> TAKE u \in e..(t - 1)
    <2>1. u \in Nat /\ e <= u /\ u < e + StepLen
      BY <1>1, <1>2
    <2>2. u \div StepLen = n
      BY <1>3, <2>1
    <2>3. Rate(u) = Rate(e)
      BY <1>2, <1>4, <2>1, <2>2, RateInStep
    <2>4. Asked(u) = Rate(u)
      BY <2>1, RateRight
    <2> QED  BY <2>3, <2>4
  <1>7. Schedule(t) = Schedule(e) + Rate(e) * (t - e)
    BY <1>1, <1>2, <1>5, <1>6, ScheduleEven
  <1>8. ASSUME n = 0  PROVE Rate(e) = cfg.start
    <2>1. e = 0
      BY <1>1, <1>8 DEF e
    <2>2. e < StepLen
      BY <1>1, <2>1
    <2> QED  BY <1>2, <2>2, RateInStep
  <1> QED  BY <1>2, <1>7, <1>8 DEF e

\* hits(t) counts what the schedule asks for.
LEMMA HitsAtRight ==
    ASSUME StepsOK, NEW t \in Nat
    PROVE  HitsAt(t) = Schedule(t)
  <1> DEFINE steps == t \div StepLen
  <1>1. StepLen \in Nat \ {0} /\ CfgOK /\ cfg.start \in Nat
    BY CfgFields DEF StepsOK
  <1>2. /\ steps \in Nat /\ StepLen * steps \in Nat /\ StepLen * steps <= t
        /\ t < StepLen * steps + StepLen
    <2>1. steps \in Nat
      BY <1>1, QuotientNat
    <2>2. t \in Int /\ StepLen \in Nat \ {0}
      BY <1>1
    <2>3. StepLen * steps <= t /\ t < StepLen * steps + StepLen
      BY <2>2, QuotientRight
    <2> HIDE DEF steps
    <2>4. StepLen * steps \in Nat
      BY <2>1, <2>2
    <2> QED  BY <2>1, <2>3, <2>4
  <1>3. ASSUME NEW n \in Nat  PROVE StepLen * n \in Nat /\ Rate(StepLen * n) \in Nat
    <2>1. StepLen * n \in Nat
      BY <1>1
    <2>2. Asked(StepLen * n) \in Nat /\ Asked(StepLen * n) = Rate(StepLen * n)
      BY <1>1, <2>1, AskedType, RateRight
    <2> QED  BY <2>1, <2>2
  <1> DEFINE rate(n) == IF n = 1 THEN cfg.start ELSE Rate((n - 1) * StepLen)
             a == [n \in 1..steps |-> StepLen * rate(n)]
             Next0(h) == [n \in 0..steps |->
                            IF n = 0 THEN 0 ELSE h[n - 1] + StepLen * rate(n)]
             before == CHOOSE h : h = Next0(h)
             sched == [n \in 0..steps |-> Schedule(StepLen * n)]
  <1>4. HitsAt(t) = IF steps = 0 THEN t * cfg.start
                    ELSE before[steps] + (t - steps * StepLen) * Rate(t)
    BY DEF HitsAt
  <1> HIDE DEF steps
  <1>5. ASSUME NEW n \in 1..steps
        PROVE  /\ n - 1 \in Nat /\ rate(n) = Rate(StepLen * (n - 1)) /\ rate(n) \in Nat
               /\ sched[n] = sched[n - 1] + StepLen * rate(n)
    <2>1. n - 1 \in Nat /\ n - 1 \in 0..steps /\ n \in 0..steps /\ n \in Nat
      BY <1>2
    <2>2. (n - 1) * StepLen = StepLen * (n - 1)
      BY <1>1, <2>1
    <2>3. StepLen * n = StepLen * (n - 1) + StepLen /\ StepLen * n \in Nat
      BY <1>1, <2>1
    <2>4. /\ StepLen * (n - 1) \in Nat
          /\ Schedule(StepLen * n) = Schedule(StepLen * (n - 1))
                 + Rate(StepLen * (n - 1)) * (StepLen * n - StepLen * (n - 1))
          /\ n - 1 = 0 => Rate(StepLen * (n - 1)) = cfg.start
      <3>1. StepLen * (n - 1) <= StepLen * n /\ StepLen * n <= StepLen * (n - 1) + StepLen
        BY <1>1, <1>3, <2>1, <2>3
      <3> QED  BY <2>1, <2>3, <3>1, ScheduleInStep
    <2>5. rate(n) = Rate(StepLen * (n - 1))
      BY <2>1, <2>2, <2>4
    <2>6. Rate(StepLen * (n - 1)) \in Nat
      BY <1>3, <2>1
    <2>7. Rate(StepLen * (n - 1)) * (StepLen * n - StepLen * (n - 1))
             = StepLen * Rate(StepLen * (n - 1))
      <3>1. StepLen * n - StepLen * (n - 1) = StepLen
        BY <1>1, <2>3, <2>4
      <3> QED  BY <1>1, <2>6, <3>1
    <2>8. sched[n] = Schedule(StepLen * n) /\ sched[n - 1] = Schedule(StepLen * (n - 1))
      BY <2>1
    <2> QED  BY <2>1, <2>4, <2>5, <2>6, <2>7, <2>8
  <1>6. PICK f : SumsUp(f, a, steps)
    <2>1. a \in [1..steps -> Int]
      <3>1. \A n \in 1..steps : StepLen * rate(n) \in Int
        <4> TAKE n \in 1..steps
        <4>1. rate(n) \in Nat
          BY <1>5
        <4> HIDE DEF rate
        <4> QED  BY <1>1, <4>1
      <3> HIDE DEF rate
      <3> QED  BY <3>1
    <2> HIDE DEF a
    <2> QED  BY <1>2, <2>1, SumsExist
  <1> HIDE DEF rate
  <1>7. f = Next0(f)
    <2>1. f \in [0..steps -> Int] /\ f[0] = 0
          /\ \A n \in 1..steps : f[n] = f[n - 1] + StepLen * rate(n)
      BY <1>6 DEF SumsUp
    <2>2. \A n \in 0..steps : f[n] = IF n = 0 THEN 0 ELSE f[n - 1] + StepLen * rate(n)
      BY <1>2, <2>1
    <2> QED  BY <2>1, <2>2
  <1>8. before = Next0(before)
    <2> HIDE DEF Next0
    <2> QED  BY <1>7
  <1> HIDE DEF before
  <1>9. before[steps] = Schedule(StepLen * steps)
    <2>1. before[0] = sched[0]
      <3>1. StepLen * 0 = 0 /\ Schedule(0) = 0 /\ 0 \in 0..steps
        BY <1>1, <1>2, ScheduleStep
      <3>2. before[0] = 0
        BY <1>8, <3>1
      <3> QED  BY <3>1, <3>2
    <2>2. ASSUME NEW n \in 1..steps, before[n - 1] = sched[n - 1]
          PROVE  before[n] = sched[n]
      <3>1. n \in 0..steps /\ n # 0
        BY <1>2
      <3>2. before[n] = before[n - 1] + StepLen * rate(n)
        BY <1>8, <3>1
      <3>3. sched[n] = sched[n - 1] + StepLen * rate(n)
        BY <1>5
      <3> QED  BY <2>2, <3>2, <3>3
    <2>3. steps \in 0..steps /\ sched[steps] = Schedule(StepLen * steps)
      BY <1>2
    <2> HIDE DEF sched
    <2>4. \A n \in 0..steps : before[n] = sched[n]
      BY <1>2, <2>1, <2>2, SumsAgree
    <2> QED  BY <2>3, <2>4
  <1>10. /\ Schedule(t) = Schedule(StepLen * steps)
                              + Rate(StepLen * steps) * (t - StepLen * steps)
         /\ steps = 0 => Rate(StepLen * steps) = cfg.start
    <2>1. t <= StepLen * steps + StepLen
      BY <1>1, <1>2
    <2> QED  BY <1>2, <2>1, ScheduleInStep
  <1>11. CASE steps = 0
    <2>1. StepLen * steps = 0 /\ Schedule(0) = 0
      BY <1>1, <1>11, ScheduleStep
    <2>2. Schedule(t) = 0 + cfg.start * (t - 0)
      BY <1>10, <1>11, <2>1
    <2> QED  BY <1>1, <1>4, <1>11, <2>2
  <1>12. CASE steps # 0
    <2>1. Rate(t) = Rate(StepLen * steps)
      <3>1. (StepLen * steps) \div StepLen = steps
        <4>1. StepLen * steps < StepLen * steps + StepLen /\ StepLen * steps <= StepLen * steps
          BY <1>1, <1>2
        <4> QED  BY <1>1, <1>2, <4>1, QuotientIs
      <3>2. t \div StepLen = steps
        BY DEF steps
      <3> QED  BY <1>2, <3>1, <3>2, RateInStep
    <2>2. Rate(StepLen * steps) \in Nat
      BY <1>2, <1>3
    <2>3. (t - steps * StepLen) * Rate(StepLen * steps)
            = Rate(StepLen * steps) * (t - StepLen * steps)
      <3>1. steps * StepLen = StepLen * steps
        BY <1>1, <1>2
      <3> QED  BY <1>2, <2>2, <3>1
    <2> QED  BY <1>4, <1>9, <1>10, <1>12, <2>1, <2>3
  <1> QED  BY <1>11, <1>12

\* Whole steps of whole seconds ask for whole hits.
LEMMA WholeStepHits ==
    ASSUME StepsOK, StepLen % Second = 0, NEW n \in Nat
    PROVE  \E k \in Nat : Schedule(StepLen * n) = Second * k
  <1>1. StepLen \in Nat \ {0} /\ Second \in Nat \ {0} /\ CfgOK
    BY CfgFields DEF StepsOK
  <1> DEFINE d == StepLen \div Second
  <1>2. d \in Nat /\ StepLen = Second * d
    <2>1. StepLen \in Nat /\ StepLen \in Int
      BY <1>1
    <2>2. d \in Nat
      BY <1>1, <2>1, QuotientNat
    <2>3. StepLen % Second = StepLen - Second * d /\ Second * d \in Int
      BY <1>1, <2>1, QuotientRight
    <2> QED  BY <2>1, <2>2, <2>3
  <1> HIDE DEF d
  <1> DEFINE S == {m \in Nat : \E k \in Nat : Schedule(StepLen * m) = Second * k}
  <1>3. 0 \in S
    <2>1. StepLen * 0 = 0 /\ Second * 0 = 0 /\ Schedule(0) = 0
      BY <1>1, ScheduleStep
    <2> QED  BY <2>1
  <1>4. ASSUME NEW m \in Nat, m \in S  PROVE m + 1 \in S
    <2>1. PICK k \in Nat : Schedule(StepLen * m) = Second * k
      BY <1>4
    <2> DEFINE e == StepLen * m
               t == StepLen * (m + 1)
               r == Rate(e)
    <2>2. e \in Nat /\ t \in Nat /\ t = e + StepLen
      BY <1>1
    <2>3. e <= t /\ t <= e + StepLen /\ t - e = StepLen
      BY <1>1, <2>2
    <2>4. Schedule(t) = Schedule(e) + r * (t - e)
      <3> HIDE DEF r
      <3>1. StepLen * m <= t /\ t <= StepLen * m + StepLen
        BY <2>3
      <3> HIDE DEF t
      <3> QED  BY <2>2, <3>1, ScheduleInStep DEF r
    <2>5. r \in Nat
      <3>1. Asked(e) = Rate(e) /\ Asked(e) \in Nat
        BY <1>1, <2>2, AskedType, RateRight
      <3> QED  BY <3>1
    <2> HIDE DEF r
    <2>6. Second * (k + r * d) = Second * k + r * (Second * d) /\ k + r * d \in Nat
      BY <1>1, <1>2, <2>5
    <2>7. Schedule(t) = Second * (k + r * d)
      BY <1>2, <2>1, <2>3, <2>4, <2>6
    <2> QED  BY <2>6, <2>7
  <1>5. Nat \subseteq S
    <2> HIDE DEF S
    <2> QED  BY <1>3, <1>4, InductionOnSet
  <1> QED  BY <1>5

\* What a pacer of steps says at e, when h hits are sent: it stops at its bound, or
\* when nothing is asked for any more; it waits only when what is due is sent; and, with
\* steps of whole seconds, until the next hit is due.
LEMMA StepPaceRight ==
    ASSUME StepsOK, NEW e \in Nat, e <= MaxTime, NEW h \in Nat, h <= MaxHits
    PROVE  LET p == StepPace(e, h)
           IN  /\ p.stop \in BOOLEAN /\ p.wait \in Int
               /\ p.stop => Asked(e) = 0 \/ (cfg.max > 0 /\ h >= cfg.max)
               /\ p.wait > 0 => Schedule(e) < Second * (h + 1)
               /\ ~p.stop /\ StepLen % Second = 0 /\ DueBy(h, e)
                  => DueBy(h + 1, After(e, p))
  <1> DEFINE p == StepPace(e, h)
             f == stopFreq
             c == constAt
             r == Asked(e)
  <1>1. /\ CfgOK /\ Second \in Nat \ {0} /\ cfg.max \in Nat
        /\ f \in Nat /\ (f > 0 => Second % f = 0) /\ c \in Nat
        /\ r = Rate(e) /\ r \in Nat
        /\ HitsAt(e) = Schedule(e) /\ HitsAt(c) = Schedule(c)
        /\ Schedule(e) \in Int /\ Schedule(c) \in Int
    <2>1. CfgOK
      BY DEF StepsOK
    <2>2. /\ f \in Nat /\ (f > 0 => Second % f = 0) /\ c \in Nat /\ r = Rate(e)
      BY RateRight
    <2>3. r \in Nat /\ Schedule(e) \in Int /\ Schedule(c) \in Int
      BY <2>1, <2>2, AskedType, ScheduleStep
    <2>4. HitsAt(e) = Schedule(e) /\ HitsAt(c) = Schedule(c)
      BY <2>2, HitsAtRight
    <2> QED  BY <2>1, <2>2, <2>3, <2>4, CfgFields
  <1> DEFINE b == Schedule(c) \div Second
             g == ConstPace(f, cfg.max, e - c, ToUint(h - b))
             w == ((h + 1) * Second - Schedule(e)) \div r
  <1>2. p = IF h < Schedule(e) \div Second THEN Go(0)
            ELSE IF c > 0 /\ e >= c THEN (IF f = 0 THEN StopNow ELSE g)
            ELSE IF r = 0 THEN (IF h > 0 THEN StopNow ELSE Go(InfiniteWait)) ELSE Go(w)
    <2>1. c > 0 => baseHits = b
      BY <1>1 DEF baseHits
    <2>2. ASSUME r # 0  PROVE ~(Second \div r # 0 /\ MaxInt \div (Second \div r) < h)
      <3> DEFINE n == Second \div r
      <3>1. n \in Nat /\ n <= Second
        <4>1. Second \in Nat /\ r \in Nat \ {0}
          BY <1>1, <2>2
        <4>2. n \in Nat /\ r * n \in Int /\ r * n <= Second
          <5>1. Second \in Int
            BY <4>1
          <5> QED  BY <4>1, <5>1, QuotientNat, QuotientRight
        <4> HIDE DEF n, r
        <4> QED  BY <4>1, <4>2
      <3> HIDE DEF n
      <3>2. SUFFICES ASSUME n # 0  PROVE ~(MaxInt \div n < h)
        BY DEF n
      <3>3. n * h <= Second * MaxHits /\ n * h \in Int
        <4>1. n * h <= n * MaxHits /\ n * MaxHits <= Second * MaxHits
          BY <1>1, <3>1, WordFacts
        <4> QED  BY <1>1, <3>1, <4>1, WordFacts
      <3>4. n * h <= MaxInt /\ MaxInt \in Int
        BY <3>3, WordFacts DEF MaxInt
      <3>5. h <= MaxInt \div n
        BY <3>1, <3>2, <3>4, QuotientReached
      <3>6. MaxInt \div n \in Int
        BY <3>1, <3>2, <3>4, QuotientRight
      <3> QED  BY <3>5, <3>6
    <2>3. r # 0 => (IF Second \div r # 0 /\ MaxInt \div (Second \div r) < h
                    THEN StopNow ELSE Go(w)) = Go(w)
      BY <2>2
    <2> QED  BY <1>1, <2>1, <2>3 DEF StepPace
  <1>3. h < Schedule(e) \div Second <=> Second * (h + 1) <= Schedule(e)
    <2>1. h + 1 \in Int /\ Schedule(e) \div Second \in Int
      <3>1. Schedule(e) \in Int /\ Second \in Nat \ {0}
        BY <1>1
      <3> QED  BY <3>1, QuotientRight
    <2>2. h + 1 <= Schedule(e) \div Second <=> Second * (h + 1) <= Schedule(e)
      BY <1>1, <2>1, QuotientReached
    <2> QED  BY <2>1, <2>2
  <1>4. Second * h \in Nat /\ Second * (h + 1) = Second * h + Second
    BY <1>1
  <1> HIDE DEF f, c, r, g, w, p
  <1> SUFFICES /\ p.stop \in BOOLEAN /\ p.wait \in Int
               /\ p.stop => r = 0 \/ (cfg.max > 0 /\ h >= cfg.max)
               /\ p.wait > 0 => Schedule(e) < Second * (h + 1)
               /\ ~p.stop /\ StepLen % Second = 0 /\ DueBy(h, e)
                  => DueBy(h + 1, After(e, p))
    BY DEF p, r
  <1>5. CASE h < Schedule(e) \div Second
    <2>1. p = [wait |-> 0, stop |-> FALSE]
      BY <1>2, <1>5 DEF Go
    <2>2. p.wait = 0
      BY <2>1
    <2>3. p.stop \in BOOLEAN /\ ~p.stop
      BY <2>1
    <2>4. p.wait \in Int /\ ~(p.wait > 0) /\ After(e, p) = e
      BY <2>2 DEF After
    <2>5. DueBy(h + 1, e)
      BY <1>3, <1>5 DEF DueBy
    <2> QED  BY <2>3, <2>4, <2>5
  <1>6. CASE ~(h < Schedule(e) \div Second) /\ c > 0 /\ e >= c
    <2>1. Schedule(e) < Second * (h + 1)
      BY <1>1, <1>3, <1>4, <1>6
    <2>2. \A u \in Nat : u >= c => Asked(u) = f
      <3> TAKE u \in Nat
      <3> HAVE u >= c
      <3>1. Asked(u) = Rate(u)
        BY RateRight
      <3> QED  BY <1>6, <3>1 DEF Rate, c, f
    <2>3. r = f
      BY <1>6, <2>2 DEF r
    <2>4. CASE f = 0
      <3>1. p = [wait |-> 0, stop |-> TRUE]
        BY <1>2, <1>6, <2>4 DEF StopNow
      <3>2. p.wait = 0
        BY <3>1
      <3>3. p.stop
        BY <3>1
      <3>4. p.wait \in Int /\ ~(p.wait > 0)
        BY <3>2
      <3> QED  BY <2>3, <2>4, <3>3, <3>4
    <2>5. CASE f > 0
      <3>1. p = g
        BY <1>1, <1>2, <1>6, <2>5
      <3>2. \A t \in Nat : t >= c => Schedule(t) = Schedule(c) + f * (t - c)
        <4> TAKE t \in Nat
        <4> HAVE t >= c
        <4>1. \A u \in c..(t - 1) : Asked(u) = f
          BY <1>1, <2>2
        <4> QED  BY <1>1, <4>1, ScheduleEven
      <3>3. Schedule(c) <= Schedule(e)
        BY <1>1, <1>6, ScheduleOrder
      <3>4. 0 <= Schedule(c)
        <4>1. Schedule(0) = 0
          BY <1>1, ScheduleStep
        <4> QED  BY <1>1, <4>1, ScheduleOrder
      <3>5. b \in Nat /\ b <= h /\ Second * b \in Int /\ Second * b <= Schedule(c)
        <4>1. Schedule(c) \in Nat /\ Schedule(c) \in Int /\ Second \in Nat \ {0}
          BY <1>1, <3>4
        <4>2. b \in Nat
          BY <4>1, QuotientNat
        <4>3. Second * b \in Int /\ Second * b <= Schedule(c)
          BY <4>1, QuotientRight
        <4>4. ~(h + 1 <= b)
          <5>1. ~(Second * (h + 1) <= Schedule(c))
            BY <1>1, <1>4, <2>1, <3>3
          <5>2. h + 1 \in Int
            OBVIOUS
          <5> QED  BY <4>1, <5>1, <5>2, QuotientReached
        <4> HIDE DEF b
        <4> QED  BY <4>2, <4>3, <4>4
      <3> HIDE DEF b
      <3> DEFINE k == h - b
                 d == e - c
      <3>6. k \in Nat /\ k <= h /\ k <= MaxHits /\ ToUint(k) = k
        <4>1. k \in Nat /\ k <= h /\ k <= MaxHits
          BY <3>5, WordFacts
        <4>2. MaxHits * 1 <= MaxHits * Second /\ MaxHits * Second = Second * MaxHits
          BY <1>1, WordFacts, TimesOrder
        <4>3. k \in 0..(UintSize - 1)
          BY <4>1, <4>2, WordFacts
        <4> QED  BY <4>1, <4>3, WordFacts
      <3>7. d \in Nat /\ d <= MaxTime
        BY <1>1, <1>6, WordFacts
      <3>8. g = ConstPace(f, cfg.max, d, k)
        BY <3>6 DEF g
      <3> HIDE DEF k, d
      <3>9. /\ g.stop \in BOOLEAN /\ g.wait \in Int
            /\ g.stop => cfg.max > 0 /\ k >= cfg.max
            /\ ~g.stop => Second * (k + 1) <= f * After(d, g)
        BY <1>1, <2>5, <3>6, <3>7, <3>8, ConstPaceRight
      <3>10. g.stop => cfg.max > 0 /\ h >= cfg.max
        BY <1>1, <3>6, <3>9
      <3>11. ~g.stop => DueBy(h + 1, After(e, g))
        <4> SUFFICES ASSUME ~g.stop  PROVE DueBy(h + 1, After(e, g))
          OBVIOUS
        <4> DEFINE t == After(e, g)
        <4>1. t \in Nat /\ t >= c /\ t - c = After(d, g)
          <5>1. g.wait \in Int
            BY <3>9
          <5>2. e \in Nat /\ c \in Nat /\ e >= c
            BY <1>1, <1>6
          <5> QED  BY <5>1, <5>2 DEF After, d
        <4> HIDE DEF t
        <4>2. Schedule(t) = Schedule(c) + f * (t - c) /\ Second * (k + 1) <= f * (t - c)
          BY <3>2, <3>9, <4>1
        <4>3. Second * (k + 1) = Second * h - Second * b + Second /\ f * (t - c) \in Int
          BY <1>1, <3>5, <4>1 DEF k
        <4>4. Second * (h + 1) <= Schedule(t)
          BY <1>1, <1>4, <3>5, <4>2, <4>3
        <4> QED  BY <4>4 DEF t, DueBy
      <3> QED  BY <2>1, <3>1, <3>9, <3>10, <3>11
    <2> QED  BY <1>1, <2>4, <2>5
  <1>7. CASE ~(h < Schedule(e) \div Second) /\ ~(c > 0 /\ e >= c) /\ r = 0
    <2>1. CASE h > 0
      <3>1. p = [wait |-> 0, stop |-> TRUE]
        BY <1>2, <1>7, <2>1 DEF StopNow
      <3>2. p.wait = 0
        BY <3>1
      <3>3. p.stop
        BY <3>1
      <3>4. p.wait \in Int /\ ~(p.wait > 0)
        BY <3>2
      <3> QED  BY <1>7, <3>3, <3>4
    <2>2. CASE h = 0
      <3>1. p = [wait |-> InfiniteWait, stop |-> FALSE]
        BY <1>2, <1>7, <2>2 DEF Go
      <3>2. p.stop \in BOOLEAN /\ ~p.stop
        BY <3>1
      <3>3. p.wait \in Int
        BY <3>1, PacerAssumption DEF PacerAssumption
      <3>4. Schedule(e) < Second * (h + 1)
        BY <1>1, <1>3, <1>4, <1>7
      <3>5. ~(StepLen % Second = 0)
        <4> SUFFICES ASSUME StepLen % Second = 0  PROVE FALSE
          OBVIOUS
        <4>1. /\ StepLen \in Nat \ {0} /\ cfg.kind # "segments"
              /\ cfg.start \in Nat /\ cfg.start > 0
          BY <1>1, CfgFields DEF StepsOK
        <4>2. \A u \in Nat : u < StepLen /\ u <= e => Asked(u) = cfg.start
          <5> TAKE u \in Nat
          <5> HAVE u < StepLen /\ u <= e
          <5>1. u \div StepLen = 0
            <6>1. StepLen * 0 <= u /\ u < StepLen * 0 + StepLen
              BY <4>1
            <6> QED  BY <4>1, <6>1, QuotientIs
          <5>2. Asked(u) = Rate(u)
            BY RateRight
          <5>3. Rate(u) = StepRate(0)
            BY <1>1, <1>7, <5>1 DEF Rate, c
          <5>4. cfg.step * 0 = 0
            BY <1>1, CfgFields
          <5> QED  BY <4>1, <5>2, <5>3, <5>4 DEF StepRate
        <4>3. StepLen <= e
          BY <1>7, <4>1, <4>2 DEF r
        <4>4. Schedule(StepLen) = Schedule(0) + cfg.start * (StepLen - 0) /\ Schedule(0) = 0
          <5>1. \A u \in 0..(StepLen - 1) : Asked(u) = cfg.start
            BY <4>1, <4>2, <4>3
          <5>2. Schedule(0) = 0
            BY <1>1, ScheduleStep
          <5>3. 0 \in Nat /\ StepLen \in Nat /\ 0 <= StepLen
            BY <4>1
          <5>4. Schedule(StepLen) = Schedule(0) + cfg.start * (StepLen - 0)
            BY <1>1, <4>1, <5>1, <5>3, ScheduleEven
          <5> QED  BY <5>2, <5>4
        <4>5. Second <= StepLen
          BY <1>1, <4>1
        <4>6. StepLen <= cfg.start * StepLen /\ cfg.start * StepLen \in Int
          BY <4>1
        <4>7. Schedule(StepLen) <= Schedule(e)
          BY <1>1, <4>1, <4>3, ScheduleOrder
        <4>8. cfg.start * (StepLen - 0) = cfg.start * StepLen
          BY <4>1
        <4> QED  BY <1>1, <1>4, <2>2, <3>4, <4>1, <4>4, <4>5, <4>6, <4>7, <4>8
      <3> QED  BY <3>2, <3>3, <3>4, <3>5
    <2> QED  BY <2>1, <2>2
  <1>8. CASE ~(h < Schedule(e) \div Second) /\ ~(c > 0 /\ e >= c) /\ r # 0
    <2>1. p = [wait |-> w, stop |-> FALSE]
      BY <1>2, <1>8 DEF Go
    <2>2. p.wait = w
      BY <2>1
    <2>3. p.stop \in BOOLEAN /\ ~p.stop
      BY <2>1
    <2>4. Schedule(e) < Second * (h + 1)
      BY <1>1, <1>3, <1>4, <1>8
    <2>5. w \in Nat /\ r * w \in Int /\ Second * (h + 1) - Schedule(e) < r * w + r
      <3> DEFINE x == (h + 1) * Second - Schedule(e)
      <3>1. x \in Nat /\ x = Second * (h + 1) - Schedule(e) /\ r \in Nat \ {0}
        BY <1>1, <1>8, <2>4
      <3>2. w = x \div r
        BY DEF w
      <3> HIDE DEF x
      <3>3. x \div r \in Nat
        BY <3>1, QuotientNat
      <3>4. x \in Int
        BY <3>1
      <3>5. r * (x \div r) \in Int /\ x < r * (x \div r) + r
        BY <3>1, <3>4, QuotientRight
      <3> QED  BY <3>1, <3>2, <3>3, <3>5
    <2>6. After(e, p) = e + w
      BY <2>2, <2>5 DEF After
    <2>7. ASSUME StepLen % Second = 0, DueBy(h, e)  PROVE DueBy(h + 1, e + w)
      <3> DEFINE n == e \div StepLen
                 s == StepLen * n
                 t == s + StepLen
      <3>1. StepLen \in Nat \ {0} /\ cfg.kind # "segments"
        BY <1>1, CfgFields DEF StepsOK
      <3>2. n \in Nat /\ s \in Nat /\ s <= e /\ e < t
        <4>1. n \in Nat
          BY <3>1, QuotientNat
        <4>2. e \in Int /\ StepLen \in Nat \ {0}
          BY <3>1
        <4>3. s \in Int /\ s <= e /\ e < s + StepLen
          BY <4>2, QuotientRight
        <4> HIDE DEF n
        <4>4. s \in Nat
          BY <4>1, <4>2
        <4> QED  BY <4>1, <4>3, <4>4
      <3> HIDE DEF n
      <3>3. t = StepLen * (n + 1) /\ n + 1 \in Nat /\ t \in Nat
        BY <3>1, <3>2
      <3>4. PICK k \in Nat : Schedule(t) = Second * k
        BY <2>7, <3>3, WholeStepHits
      <3>5. ASSUME NEW u \in Nat, e <= u, u < t  PROVE Asked(u) = r
        <4>1. StepLen * n <= u /\ u < StepLen * n + StepLen
          BY <3>2, <3>5
        <4>2. u \div StepLen = n
          BY <3>1, <3>2, <4>1, QuotientIs
        <4>3. Rate(u) = Rate(e)
          BY <4>2, RateInStep DEF n
        <4>4. Asked(u) = Rate(u)
          BY RateRight
        <4> QED  BY <1>1, <4>3, <4>4
      <3> HIDE DEF s, t
      <3>6. ASSUME NEW u \in Nat, e <= u, u <= t
            PROVE  Schedule(u) = Schedule(e) + r * (u - e)
        <4>1. \A v \in e..(u - 1) : Asked(v) = r
          BY <3>3, <3>5, <3>6
        <4> QED  BY <1>1, <3>6, <4>1, ScheduleEven
      <3>7. Schedule(e) + r <= Second * k
        <4>1. e + 1 \in Nat /\ e <= e + 1 /\ e + 1 <= t /\ (e + 1) - e = 1
          BY <3>2, <3>3
        <4>2. Schedule(e + 1) = Schedule(e) + r * 1
          BY <3>6, <4>1
        <4>3. Schedule(e + 1) <= Schedule(t)
          BY <1>1, <3>3, <4>1, ScheduleOrder
        <4> QED  BY <1>1, <3>4, <4>2, <4>3
      <3>8. h + 1 <= k
        <4>1. Second * h <= Schedule(e) \/ Second * h < Schedule(e) + r
          BY <2>7, <3>1 DEF DueBy, r
        <4>2. Second * h < Second * k /\ Second * k \in Int
          BY <1>1, <1>4, <1>8, <3>7, <4>1
        <4>3. ~(k <= h)
          <5> SUFFICES ASSUME k <= h  PROVE FALSE
            OBVIOUS
          <5>1. Second * k <= Second * h
            BY <1>1, TimesOrder
          <5> QED  BY <1>4, <4>2, <5>1
        <4> QED  BY <4>3
      <3>9. w <= t - e
        <4>1. Second * (h + 1) <= Second * k /\ Second * k \in Int
          BY <1>1, <3>8, TimesOrder
        <4>2. Schedule(t) = Schedule(e) + r * (t - e) /\ r * (t - e) \in Int
          <5>1. e <= t /\ t <= t
            BY <3>2, <3>3
          <5>2. r * (t - e) \in Int
            BY <1>1, <3>3
          <5> QED  BY <3>3, <3>6, <5>1, <5>2
        <4> DEFINE x == (h + 1) * Second - Schedule(e)
        <4>3. x <= r * (t - e) /\ x \in Int /\ r \in Nat \ {0}
          BY <1>1, <1>4, <1>8, <3>4, <4>1, <4>2
        <4>4. w = x \div r
          BY DEF w
        <4> HIDE DEF x
        <4>5. ~((t - e) + 1 <= x \div r)
          <5>1. r * ((t - e) + 1) = r * (t - e) + r
            BY <1>1, <3>3
          <5>2. ~(r * ((t - e) + 1) <= x)
            BY <4>2, <4>3, <5>1
          <5>3. (t - e) + 1 \in Int
            BY <3>3
          <5> QED  BY <4>3, <5>2, <5>3, QuotientReached
        <4> QED  BY <2>5, <3>3, <4>4, <4>5
      <3>10. e + w \in Nat /\ e <= e + w /\ e + w <= t /\ (e + w) - e = w
        BY <2>5, <3>3, <3>9
      <3>11. Schedule(e + w) = Schedule(e) + r * w
        BY <3>6, <3>10
      <3>12. CASE e + w < t
        <4>1. Asked(e + w) = r
          BY <3>5, <3>10, <3>12
        <4>2. Second * (h + 1) < Schedule(e + w) + Asked(e + w)
          BY <1>1, <1>4, <2>5, <3>11, <4>1
        <4> QED  BY <4>2 DEF DueBy
      <3>13. CASE e + w = t
        <4>1. Second * (h + 1) <= Second * k
          BY <1>1, <3>8, TimesOrder
        <4>2. Second * (h + 1) <= Schedule(e + w)
          BY <3>4, <3>13, <4>1
        <4> QED  BY <4>2 DEF DueBy
      <3> QED  BY <3>3, <3>10, <3>12, <3>13
    <2> QED  BY <2>2, <2>3, <2>4, <2>5, <2>6, <2>7
  <1> QED  BY <1>5, <1>6, <1>7, <1>8

-----------------------------------------------------------------------------
(* Segments *)

Last == Len(cfg.segments)

\* The recursive definitions of the ends of the segments have solutions.
LEMMA CumRight ==
    ASSUME CfgOK
    PROVE  /\ CumTime[0] = 0 /\ CumHits[0] = 0
           /\ \A i \in Segments :
                 /\ CumTime[i] = CumTime[i - 1] + cfg.segments[i].duration
                 /\ CumHits[i] = CumHits[i - 1]
                                  + cfg.segments[i].duration * cfg.segments[i].rps
           /\ \A i \in 0..Last : CumTime[i] \in Nat /\ CumHits[i] \in Nat
  <1>1. /\ Last \in Nat /\ Segments = 1..Last
        /\ \A i \in Segments : /\ cfg.segments[i].duration \in Nat \ {0}
                               /\ cfg.segments[i].rps \in Nat
    BY SegmentFields DEF Last
  <1>2. ASSUME NEW a \in [1..Last -> Nat]
        PROVE  LET Next0(h) == [i \in 0..Last |-> IF i = 0 THEN 0 ELSE h[i - 1] + a[i]]
                   s == CHOOSE h : h = Next0(h)
               IN  /\ s[0] = 0 /\ \A i \in 1..Last : s[i] = s[i - 1] + a[i]
                   /\ \A i \in 0..Last : s[i] \in Nat
    <2> DEFINE Next0(h) == [i \in 0..Last |-> IF i = 0 THEN 0 ELSE h[i - 1] + a[i]]
               s == CHOOSE h : h = Next0(h)
    <2>1. PICK f : SumsUp(f, a, Last)
      BY <1>1, SumsExist
    <2>2. f = Next0(f)
      <3>1. f \in [0..Last -> Int] /\ f[0] = 0
            /\ \A i \in 1..Last : f[i] = f[i - 1] + a[i]
        BY <2>1 DEF SumsUp
      <3>2. \A i \in 0..Last : f[i] = IF i = 0 THEN 0 ELSE f[i - 1] + a[i]
        BY <1>1, <3>1
      <3> QED  BY <3>1, <3>2
    <2>3. s = Next0(s)
      <3> HIDE DEF Next0
      <3> QED  BY <2>2
    <2> HIDE DEF s
    <2>4. s[0] = 0
      BY <1>1, <2>3
    <2>5. \A i \in 1..Last : s[i] = s[i - 1] + a[i]
      <3> TAKE i \in 1..Last
      <3>1. i \in 0..Last /\ i # 0
        BY <1>1
      <3> QED  BY <2>3, <3>1
    <2>6. \A i \in 0..Last : s[i] \in Nat
      <3> DEFINE S == {i \in Nat : i <= Last => s[i] \in Nat}
      <3>1. 0 \in S
        BY <2>4
      <3>2. ASSUME NEW i \in Nat, i \in S  PROVE i + 1 \in S
        <4> SUFFICES ASSUME i + 1 <= Last  PROVE s[i + 1] \in Nat
          OBVIOUS
        <4>1. i + 1 \in 1..Last /\ (i + 1) - 1 = i /\ s[i] \in Nat
          BY <1>1, <3>2
        <4>2. s[i + 1] = s[i] + a[i + 1] /\ a[i + 1] \in Nat
          BY <2>5, <4>1
        <4> QED  BY <4>1, <4>2
      <3>3. Nat \subseteq S
        <4> HIDE DEF S
        <4> QED  BY <3>1, <3>2, InductionOnSet
      <3> QED  BY <1>1, <3>3
    <2> QED  BY <2>4, <2>5, <2>6 DEF s
  <1> DEFINE a == [i \in 1..Last |-> cfg.segments[i].duration]
             b == [i \in 1..Last |-> cfg.segments[i].duration * cfg.segments[i].rps]
  <1>3. a \in [1..Last -> Nat] /\ b \in [1..Last -> Nat]
    <2>1. \A i \in 1..Last : /\ cfg.segments[i].duration \in Nat
                             /\ cfg.segments[i].duration * cfg.segments[i].rps \in Nat
      BY <1>1
    <2> QED  BY <2>1
  <1>4. CumTime = CHOOSE h : h = [i \in 0..Last |-> IF i = 0 THEN 0
                                     ELSE h[i - 1] + cfg.segments[i].duration]
    BY DEF CumTime, Last
  <1>5. CumHits = CHOOSE h : h = [i \in 0..Last |-> IF i = 0 THEN 0
                    ELSE h[i - 1] + cfg.segments[i].duration * cfg.segments[i].rps]
    BY DEF CumHits, Last
  <1>6. CumTime = CHOOSE h : h = [i \in 0..Last |-> IF i = 0 THEN 0 ELSE h[i - 1] + a[i]]
    <2>1. \A h : [i \in 0..Last |-> IF i = 0 THEN 0 ELSE h[i - 1] + cfg.segments[i].duration]
                 = [i \in 0..Last |-> IF i = 0 THEN 0 ELSE h[i - 1] + a[i]]
      <3> TAKE h
      <3>1. \A i \in 0..Last : i # 0 => a[i] = cfg.segments[i].duration
        BY <1>1
      <3> HIDE DEF a
      <3> QED  BY <3>1
    <2> HIDE DEF a
    <2> QED  BY <1>4, <2>1
  <1>7. CumHits = CHOOSE h : h = [i \in 0..Last |-> IF i = 0 THEN 0 ELSE h[i - 1] + b[i]]
    <2>1. \A h : [i \in 0..Last |-> IF i = 0 THEN 0
                    ELSE h[i - 1] + cfg.segments[i].duration * cfg.segments[i].rps]
                 = [i \in 0..Last |-> IF i = 0 THEN 0 ELSE h[i - 1] + b[i]]
      <3> TAKE h
      <3>1. \A i \in 0..Last : i # 0 => b[i] = cfg.segments[i].duration * cfg.segments[i].rps
        BY <1>1
      <3> HIDE DEF b
      <3> QED  BY <3>1
    <2> HIDE DEF b
    <2> QED  BY <1>5, <2>1
  <1> HIDE DEF a, b
  <1>8. /\ CumTime[0] = 0 /\ \A i \in 1..Last : CumTime[i] = CumTime[i - 1] + a[i]
        /\ \A i \in 0..Last : CumTime[i] \in Nat
    BY <1>2, <1>3, <1>6
  <1>9. /\ CumHits[0] = 0 /\ \A i \in 1..Last : CumHits[i] = CumHits[i - 1] + b[i]
        /\ \A i \in 0..Last : CumHits[i] \in Nat
    BY <1>2, <1>3, <1>7
  <1>10. \A i \in 1..Last : /\ a[i] = cfg.segments[i].duration
                            /\ b[i] = cfg.segments[i].duration * cfg.segments[i].rps
    BY DEF a, b
  <1> QED  BY <1>1, <1>8, <1>9, <1>10

\* The segments follow one another.
LEMMA CumOrder ==
    ASSUME CfgOK, NEW i \in 0..Last, NEW j \in 0..Last, i <= j
    PROVE  /\ CumTime[i] <= CumTime[j] /\ CumHits[i] <= CumHits[j]
           /\ i < j => CumTime[i] < CumTime[j]
  <1>1. Last \in Nat /\ Segments = 1..Last
    BY SegmentFields DEF Last
  <1> DEFINE S == {n \in Nat : i + n <= Last =>
                      /\ CumTime[i] + n <= CumTime[i + n]
                      /\ CumHits[i] <= CumHits[i + n]}
  <1>2. 0 \in S
    <2>1. CumTime[i] \in Nat /\ CumHits[i] \in Nat /\ i + 0 = i
      BY CumRight
    <2> QED  BY <2>1
  <1>3. ASSUME NEW n \in Nat, n \in S  PROVE n + 1 \in S
    <2> SUFFICES ASSUME i + (n + 1) <= Last
                 PROVE  /\ CumTime[i] + (n + 1) <= CumTime[i + (n + 1)]
                        /\ CumHits[i] <= CumHits[i + (n + 1)]
      OBVIOUS
    <2> DEFINE k == i + (n + 1)
    <2>1. k \in Segments /\ k - 1 = i + n /\ k - 1 \in 0..Last /\ i + n <= Last
          /\ k \in 0..Last
      BY <1>1
    <2>2. CumTime[i] + n <= CumTime[i + n] /\ CumHits[i] <= CumHits[i + n]
      BY <1>3, <2>1
    <2> HIDE DEF k
    <2>3. cfg.segments[k].duration \in Nat \ {0} /\ cfg.segments[k].rps \in Nat
      BY <2>1, SegmentFields
    <2>4. cfg.segments[k].duration * cfg.segments[k].rps \in Nat
      BY <2>3
    <2>5. /\ CumTime[k] = CumTime[k - 1] + cfg.segments[k].duration
          /\ CumHits[k] = CumHits[k - 1] + cfg.segments[k].duration * cfg.segments[k].rps
          /\ CumTime[k - 1] \in Nat /\ CumHits[k - 1] \in Nat
          /\ CumTime[i] \in Nat /\ CumHits[i] \in Nat
      BY <2>1, CumRight
    <2>6. CumTime[i] + (n + 1) <= CumTime[k]
      BY <2>1, <2>2, <2>3, <2>5
    <2>7. CumHits[i] <= CumHits[k]
      BY <2>1, <2>2, <2>4, <2>5
    <2> QED  BY <2>6, <2>7 DEF k
  <1>4. j - i \in S
    <2>1. Nat \subseteq S
      <3> HIDE DEF S
      <3> QED  BY <1>2, <1>3, InductionOnSet
    <2>2. j - i \in Nat
      BY <1>1
    <2> QED  BY <2>1, <2>2
  <1>5. i + (j - i) = j /\ j <= Last
    BY <1>1
  <1>6. CumTime[i] \in Nat /\ CumTime[j] \in Nat
    BY CumRight
  <1>7. CumTime[i] + (j - i) <= CumTime[j] /\ CumHits[i] <= CumHits[j]
    BY <1>4, <1>5
  <1> QED  BY <1>1, <1>6, <1>7

\* A segment's rate is what is asked for in its ticks, and nothing after the last.
LEMMA AskedInSegment ==
    ASSUME CfgOK, cfg.kind = "segments", NEW u \in Nat
    PROVE  /\ \A i \in Segments : CumTime[i - 1] <= u /\ u < CumTime[i]
                 => Asked(u) = cfg.segments[i].rps
           /\ u >= CumTime[Last] => Asked(u) = 0
  <1>1. Last \in Nat /\ Segments = 1..Last
    BY SegmentFields DEF Last
  <1>2. \A i \in 0..Last : CumTime[i] \in Nat
    BY CumRight
  <1> DEFINE Within(i) == CumTime[i - 1] <= u /\ u < CumTime[i]
  <1>3. Asked(u) = IF \E i \in Segments : Within(i)
                   THEN cfg.segments[CHOOSE i \in Segments : Within(i)].rps ELSE 0
    BY DEF Asked
  <1>4. ASSUME NEW i \in Segments, NEW j \in Segments, Within(i), Within(j)
        PROVE  ~(i < j)
    <2> SUFFICES ASSUME i < j  PROVE FALSE
      OBVIOUS
    <2>1. i \in 0..Last /\ j - 1 \in 0..Last /\ i <= j - 1
      BY <1>1
    <2>2. CumTime[i] <= CumTime[j - 1]
      BY <2>1, CumOrder
    <2> QED  BY <1>2, <1>4, <2>1, <2>2
  <1>5. ASSUME NEW i \in Segments, Within(i)
        PROVE  Asked(u) = cfg.segments[i].rps
    <2> DEFINE j == CHOOSE j \in Segments : Within(j)
    <2>1. j \in Segments /\ Within(j)
      <3> HIDE DEF Within
      <3> QED  BY <1>5
    <2>2. Asked(u) = cfg.segments[j].rps
      <3> HIDE DEF Within
      <3> QED  BY <1>3, <1>5
    <2> HIDE DEF j, Within
    <2>3. ~(i < j) /\ ~(j < i)
      BY <1>4, <1>5, <2>1
    <2>4. i = j
      BY <1>1, <2>1, <2>3
    <2> QED  BY <2>2, <2>4
  <1>6. ASSUME u >= CumTime[Last]  PROVE Asked(u) = 0
    <2>1. ASSUME NEW i \in Segments  PROVE ~Within(i)
      <3>1. i \in 0..Last /\ Last \in 0..Last /\ i <= Last
        BY <1>1
      <3>2. CumTime[i] <= CumTime[Last]
        BY <3>1, CumOrder
      <3> QED  BY <1>2, <1>6, <3>1, <3>2
    <2> HIDE DEF Within
    <2> QED  BY <1>3, <2>1
  <1> QED  BY <1>5, <1>6

\* What the schedule is within a segment, and after the last.
LEMMA SegmentSchedule ==
    ASSUME CfgOK, cfg.kind = "segments"
    PROVE  /\ \A i \in 0..Last : Schedule(CumTime[i]) = CumHits[i]
           /\ \A i \in Segments : \A t \in Nat :
                 CumTime[i - 1] <= t /\ t <= CumTime[i] =>
                 Schedule(t) = CumHits[i - 1] + cfg.segments[i].rps * (t - CumTime[i - 1])
           /\ \A t \in Nat : t >= CumTime[Last] => Schedule(t) = CumHits[Last]
  <1>1. Last \in Nat /\ Segments = 1..Last
    BY SegmentFields DEF Last
  <1>2. \A i \in 0..Last : CumTime[i] \in Nat /\ CumHits[i] \in Nat
    BY CumRight
  <1>3. ASSUME NEW i \in Segments, NEW t \in Nat, CumTime[i - 1] <= t, t <= CumTime[i],
               Schedule(CumTime[i - 1]) = CumHits[i - 1]
        PROVE  Schedule(t) = CumHits[i - 1] + cfg.segments[i].rps * (t - CumTime[i - 1])
    <2>1. i - 1 \in 0..Last /\ i \in 0..Last
      BY <1>1
    <2>2. CumTime[i - 1] \in Nat /\ CumTime[i] \in Nat
      BY <1>2, <2>1
    <2>3. \A u \in CumTime[i - 1]..(t - 1) : Asked(u) = cfg.segments[i].rps
      <3> TAKE u \in CumTime[i - 1]..(t - 1)
      <3>1. u \in Nat /\ CumTime[i - 1] <= u /\ u < CumTime[i]
        BY <1>3, <2>2
      <3> QED  BY <3>1, AskedInSegment
    <2>4. cfg.segments[i].rps \in Nat
      BY SegmentFields
    <2> QED  BY <1>3, <2>2, <2>3, <2>4, ScheduleEven
  <1> DEFINE S == {n \in Nat : n <= Last => Schedule(CumTime[n]) = CumHits[n]}
  <1>4. 0 \in S
    BY CumRight, ScheduleStep
  <1>5. ASSUME NEW n \in Nat, n \in S  PROVE n + 1 \in S
    <2> SUFFICES ASSUME n + 1 <= Last  PROVE Schedule(CumTime[n + 1]) = CumHits[n + 1]
      OBVIOUS
    <2> DEFINE i == n + 1
    <2>1. i \in Segments /\ i - 1 = n /\ i - 1 \in 0..Last /\ i \in 0..Last
          /\ Schedule(CumTime[n]) = CumHits[n]
      BY <1>1, <1>5
    <2> HIDE DEF i
    <2>2. /\ CumTime[i] = CumTime[i - 1] + cfg.segments[i].duration
          /\ CumHits[i] = CumHits[i - 1] + cfg.segments[i].duration * cfg.segments[i].rps
          /\ CumTime[i - 1] \in Nat /\ CumHits[i - 1] \in Nat /\ CumTime[i] \in Nat
      BY <1>2, <2>1, CumRight
    <2>3. cfg.segments[i].duration \in Nat /\ cfg.segments[i].rps \in Nat
      BY <2>1, SegmentFields
    <2>4. CumTime[i - 1] <= CumTime[i] /\ CumTime[i] <= CumTime[i]
          /\ CumTime[i] - CumTime[i - 1] = cfg.segments[i].duration
      BY <2>2, <2>3
    <2>5. Schedule(CumTime[i]) = CumHits[i - 1]
                                 + cfg.segments[i].rps * (CumTime[i] - CumTime[i - 1])
      BY <1>3, <2>1, <2>2, <2>4
    <2>6. cfg.segments[i].rps * cfg.segments[i].duration
          = cfg.segments[i].duration * cfg.segments[i].rps
      BY <2>3
    <2>7. Schedule(CumTime[i]) = CumHits[i]
      BY <2>2, <2>4, <2>5, <2>6
    <2> QED  BY <2>7 DEF i
  <1>6. \A i \in 0..Last : Schedule(CumTime[i]) = CumHits[i]
    <2>1. Nat \subseteq S
      <3> HIDE DEF S
      <3> QED  BY <1>4, <1>5, InductionOnSet
    <2> QED  BY <1>1, <2>1
  <1>7. ASSUME NEW t \in Nat, t >= CumTime[Last]  PROVE Schedule(t) = CumHits[Last]
    <2>1. Last \in 0..Last /\ CumTime[Last] \in Nat /\ CumHits[Last] \in Nat
      BY <1>1, <1>2
    <2>2. \A u \in CumTime[Last]..(t - 1) : Asked(u) = 0
      <3> TAKE u \in CumTime[Last]..(t - 1)
      <3>1. u \in Nat /\ u >= CumTime[Last]
        BY <2>1
      <3> QED  BY <3>1, AskedInSegment
    <2>3. Schedule(t) = Schedule(CumTime[Last]) + 0 * (t - CumTime[Last])
      BY <1>7, <2>1, <2>2, ScheduleEven
    <2> QED  BY <1>6, <2>1, <2>3
  <1>8. ASSUME NEW i \in Segments, NEW t \in Nat, CumTime[i - 1] <= t, t <= CumTime[i]
        PROVE  Schedule(t) = CumHits[i - 1] + cfg.segments[i].rps * (t - CumTime[i - 1])
    <2>1. i - 1 \in 0..Last
      BY <1>1
    <2> QED  BY <1>3, <1>6, <1>8, <2>1
  <1> QED  BY <1>6, <1>7, <1>8

\* Hit k is due by the end of the tick of its time, and not before; it is the end of the last segment when the segments do not ask for as many.
LEMMA TimeForHitRight ==
    ASSUME CfgOK, cfg.kind = "segments", NEW k \in Nat \ {0}
    PROVE  LET t == TimeForHit(k)
           IN  /\ t \in Nat /\ t <= CumTime[Last]
               /\ Second * k <= CumHits[Last] =>
                     /\ Schedule(t) <= Second * k
                     /\ DueBy(k, t)
               /\ ~(Second * k <= CumHits[Last]) => t = CumTime[Last]
  <1>1. /\ Last \in Nat /\ Segments = 1..Last /\ Second \in Nat \ {0}
        /\ \A i \in Segments : /\ cfg.segments[i].duration \in Nat \ {0}
                               /\ cfg.segments[i].rps \in Nat
    BY CfgFields, SegmentFields DEF Last
  <1>2. \A i \in 0..Last : CumTime[i] \in Nat /\ CumHits[i] \in Nat
    BY CumRight
  <1> DEFINE x == k * Second
             Reaches(i) == cfg.segments[i].rps > 0 /\ x <= CumHits[i]
             First(i) == Reaches(i) /\ \A m \in 1..i - 1 : ~Reaches(m)
             i == CHOOSE j \in Segments : First(j)
             t == TimeForHit(k)
             q == (x - CumHits[i - 1]) \div cfg.segments[i].rps
  <1>3. x \in Nat /\ x > 0 /\ Second * k = x
    <2>1. Second \in Nat /\ k \in Nat /\ 1 <= k
      BY <1>1
    <2>2. Second * 1 <= Second * k /\ Second * k \in Int
      BY <2>1, TimesOrder
    <2>3. Second * 1 = Second /\ k * Second = Second * k
      BY <1>1
    <2> QED  BY <1>1, <2>2, <2>3
  <1>4. t = IF \E j \in Segments : Reaches(j) THEN CumTime[i - 1] + q ELSE CumTime[Last]
    BY DEF TimeForHit, totalDuration, Last
  <1> HIDE DEF x, t, i
  <1>5. ASSUME NEW j \in Segments, Reaches(j)  PROVE x <= CumHits[Last]
    <2>1. j \in 0..Last /\ Last \in 0..Last /\ j <= Last
      BY <1>1
    <2>2. CumHits[j] <= CumHits[Last]
      BY <2>1, CumOrder
    <2>3. CumHits[j] \in Nat /\ CumHits[Last] \in Nat
      BY <1>2, <2>1
    <2> QED  BY <1>3, <1>5, <2>2, <2>3
  <1>6. CASE ~(x <= CumHits[Last])
    <2>1. t = CumTime[Last]
      <3> HIDE DEF Reaches
      <3> QED  BY <1>4, <1>5, <1>6
    <2>2. CumTime[Last] \in Nat
      BY <1>1, <1>2
    <2> QED  BY <1>3, <1>6, <2>1, <2>2 DEF t
  <1>7. CASE x <= CumHits[Last]
    <2> DEFINE T == {j \in 0..Last : x <= CumHits[j]}
    <2>1. PICK m \in T : \A y \in T : m <= y
      <3>1. T \in SUBSET Nat /\ Last \in T
        BY <1>1, <1>7
      <3> HIDE DEF T
      <3> QED  BY <3>1, LeastNumber
    <2>2. m \in 0..Last /\ x <= CumHits[m]
      BY <2>1
    <2>3. m # 0
      <3>1. CumHits[0] = 0
        BY CumRight
      <3> QED  BY <1>3, <2>2, <3>1
    <2>4. m \in Segments /\ m - 1 \in 0..Last
      BY <1>1, <2>2, <2>3
    <2>5. ~(x <= CumHits[m - 1])
      <3>1. ~(m <= m - 1)
        BY <2>4
      <3> QED  BY <2>1, <2>4, <3>1
    <2> HIDE DEF T
    <2>6. cfg.segments[m].rps > 0
      <3>1. CumHits[m] = CumHits[m - 1] + cfg.segments[m].duration * cfg.segments[m].rps
        BY <2>4, CumRight
      <3>2. cfg.segments[m].duration \in Nat /\ cfg.segments[m].rps \in Nat
        BY <1>1, <2>4
      <3>3. CumHits[m - 1] \in Nat
        BY <1>2, <2>4
      <3>4. cfg.segments[m].rps = 0 => cfg.segments[m].duration * cfg.segments[m].rps = 0
        BY <3>2
      <3>5. cfg.segments[m].duration * cfg.segments[m].rps # 0
        BY <1>3, <2>2, <2>5, <3>1, <3>3
      <3> QED  BY <3>2, <3>4, <3>5
    <2>7. ASSUME NEW j \in 1..m - 1  PROVE ~Reaches(j)
      <3>1. j \in 0..Last /\ j <= m - 1
        BY <1>1, <2>4
      <3>2. CumHits[j] <= CumHits[m - 1]
        BY <2>4, <3>1, CumOrder
      <3>3. CumHits[j] \in Nat /\ CumHits[m - 1] \in Nat
        BY <1>2, <2>4, <3>1
      <3> QED  BY <1>3, <2>5, <3>2, <3>3
    <2>8. First(m)
      <3>1. Reaches(m)
        BY <2>2, <2>6
      <3> HIDE DEF Reaches
      <3> QED  BY <2>7, <3>1
    <2>9. i \in Segments /\ First(i)
      <3> HIDE DEF First
      <3> QED  BY <2>4, <2>8 DEF i
    <2>10. i = m
      <3>1. ~(i < m) /\ ~(m < i)
        <4>1. i < m => i \in 1..m - 1
          BY <1>1, <2>4, <2>9
        <4>2. m < i => m \in 1..i - 1
          BY <1>1, <2>4, <2>9
        <4> HIDE DEF Reaches
        <4> QED  BY <2>8, <2>9, <4>1, <4>2
      <3> QED  BY <1>1, <2>4, <2>9, <3>1
    <2> DEFINE r == cfg.segments[m].rps
               d == cfg.segments[m].duration
               y == x - CumHits[m - 1]
    <2>11. /\ r \in Nat \ {0} /\ d \in Nat
           /\ CumTime[m] = CumTime[m - 1] + d /\ CumHits[m] = CumHits[m - 1] + d * r
           /\ CumTime[m - 1] \in Nat /\ CumHits[m - 1] \in Nat
      BY <1>1, <1>2, <2>4, <2>6, CumRight
    <2>12. t = CumTime[m - 1] + y \div r
      <3>1. \E j \in Segments : Reaches(j)
        BY <2>9
      <3> HIDE DEF Reaches
      <3> QED  BY <1>4, <2>10, <3>1
    <2> HIDE DEF r, d
    <2>13. y \in Nat /\ y <= r * d
      <3>1. d * r = r * d
        BY <2>11
      <3> QED  BY <1>3, <2>2, <2>5, <2>11, <3>1
    <2>14. x = CumHits[m - 1] + y
      BY <1>3, <2>11
    <2> HIDE DEF y
    <2> DEFINE z == y \div r
    <2>15. z \in Nat /\ z <= d /\ r * z <= y /\ y < r * z + r
      <3>1. y \in Int /\ r \in Nat \ {0} /\ y \in Nat
        BY <2>11, <2>13
      <3>2. z \in Nat
        BY <3>1, QuotientNat
      <3>3. r * z <= y /\ y < r * z + r
        BY <3>1, QuotientRight
      <3>4. ~(d + 1 <= z)
        <4>1. r * (d + 1) = r * d + r /\ r * d \in Int
          BY <2>11
        <4>2. ~(r * (d + 1) <= y)
          BY <2>11, <2>13, <4>1
        <4>3. d + 1 \in Int
          BY <2>11
        <4> QED  BY <3>1, <4>2, <4>3, QuotientReached
      <3> HIDE DEF z
      <3> QED  BY <2>11, <3>2, <3>3, <3>4
    <2>16. t = CumTime[m - 1] + z
      BY <2>12
    <2> HIDE DEF z
    <2>17. /\ t \in Nat /\ CumTime[m - 1] <= t /\ t <= CumTime[m]
           /\ t - CumTime[m - 1] = z
      BY <2>11, <2>15, <2>16
    <2>18. Schedule(t) = CumHits[m - 1] + r * z
      BY <2>4, <2>17, SegmentSchedule DEF r
    <2>19. CumTime[m] <= CumTime[Last] /\ CumTime[m] \in Nat /\ CumTime[Last] \in Nat
      <3>1. m \in 0..Last /\ Last \in 0..Last /\ m <= Last
        BY <1>1, <2>4
      <3> QED  BY <1>2, <3>1, CumOrder
    <2>20. r * z \in Nat
      BY <2>11, <2>15
    <2>21. Schedule(t) <= x /\ x < Schedule(t) + r
      BY <2>11, <2>13, <2>14, <2>15, <2>18, <2>20
    <2>22. t <= CumTime[Last]
      BY <2>17, <2>19
    <2>23. x <= Schedule(t) \/ x < Schedule(t) + Asked(t)
      <3>1. CASE t < CumTime[m]
        <4>1. Asked(t) = r
          BY <2>4, <2>17, <3>1, AskedInSegment DEF r
        <4> QED  BY <2>21, <4>1
      <3>2. CASE t = CumTime[m]
        <4>1. Schedule(t) = CumHits[m]
          BY <2>2, <3>2, SegmentSchedule
        <4> QED  BY <2>2, <4>1
      <3> QED  BY <2>17, <2>19, <3>1, <3>2
    <2>24. DueBy(k, t)
      BY <1>3, <2>23 DEF DueBy
    <2> QED  BY <1>3, <1>7, <2>17, <2>21, <2>22, <2>24 DEF t
  <1> QED  BY <1>6, <1>7

\* The segments ask for no more after their end.
LEMMA SegmentBound ==
    ASSUME CfgOK, cfg.kind = "segments", NEW t \in Nat
    PROVE  Schedule(t) <= CumHits[Last]
  <1>1. Last \in Nat
    BY SegmentFields DEF Last
  <1>2. CumTime[Last] \in Nat /\ CumHits[Last] \in Nat
    BY <1>1, CumRight
  <1>3. CASE t >= CumTime[Last]
    BY <1>2, <1>3, SegmentSchedule
  <1>4. CASE ~(t >= CumTime[Last])
    <2>1. Schedule(CumTime[Last]) = CumHits[Last]
      BY <1>1, SegmentSchedule
    <2>2. t <= CumTime[Last]
      BY <1>2, <1>4
    <2> QED  BY <1>2, <2>1, <2>2, ScheduleOrder
  <1> QED  BY <1>3, <1>4

\* What the pacer of segments says at e, when h hits are sent: it stops at the end of
\* the segments; it waits only when what is due is sent, and until the next hit is due.
LEMMA SegmentedPaceRight ==
    ASSUME CfgOK, cfg.kind = "segments", NEW e \in Nat, NEW h \in Nat
    PROVE  LET p == SegmentedPace(e, h)
           IN  /\ p.stop \in BOOLEAN /\ p.wait \in Int
               /\ p.stop => e >= totalDuration
               /\ p.wait > 0 => Schedule(e) <= Second * (h + 1)
               /\ ~p.stop /\ DueBy(h, e) => DueBy(h + 1, After(e, p))
  <1> DEFINE p == SegmentedPace(e, h)
             t == TimeForHit(h + 1)
             total == CumTime[Last]
  <1>1. /\ Last \in Nat /\ Segments = 1..Last /\ Second \in Nat \ {0}
        /\ total \in Nat /\ CumHits[Last] \in Nat /\ total = totalDuration
        /\ Second * h \in Nat /\ Second * (h + 1) = Second * h + Second
    <2>1. Last \in Nat /\ Segments = 1..Last /\ Second \in Nat \ {0}
      BY CfgFields, SegmentFields DEF Last
    <2>2. total \in Nat /\ CumHits[Last] \in Nat
      BY <2>1, CumRight
    <2> QED  BY <2>1, <2>2 DEF totalDuration, Last
  <1>2. h + 1 \in Nat \ {0}
    OBVIOUS
  <1>3. /\ t \in Nat /\ t <= total
        /\ Second * (h + 1) <= CumHits[Last] =>
              Schedule(t) <= Second * (h + 1) /\ DueBy(h + 1, t)
        /\ ~(Second * (h + 1) <= CumHits[Last]) => t = total
    BY <1>2, TimeForHitRight
  <1>4. p = IF e >= total THEN StopNow ELSE IF t > total THEN StopNow
            ELSE IF e >= t THEN Go(0) ELSE Go(t - e)
    BY <1>1 DEF SegmentedPace
  <1> HIDE DEF p, t, total
  <1> SUFFICES /\ p.stop \in BOOLEAN /\ p.wait \in Int
               /\ p.stop => e >= total
               /\ p.wait > 0 => Schedule(e) <= Second * (h + 1)
               /\ ~p.stop /\ DueBy(h, e) => DueBy(h + 1, After(e, p))
    BY <1>1 DEF p
  <1>5. CASE e >= total
    <2>1. p = [wait |-> 0, stop |-> TRUE]
      BY <1>4, <1>5 DEF StopNow
    <2>2. p.wait = 0
      BY <2>1
    <2>3. p.stop
      BY <2>1
    <2>4. p.wait \in Int /\ ~(p.wait > 0)
      BY <2>2
    <2> QED  BY <1>5, <2>3, <2>4
  <1>6. CASE ~(e >= total)
    <2> DEFINE w == IF e >= t THEN 0 ELSE t - e
               a == IF e >= t THEN e ELSE t
    <2>1. p = [wait |-> w, stop |-> FALSE]
      <3>1. ~(t > total)
        BY <1>1, <1>3
      <3>2. p = IF e >= t THEN Go(0) ELSE Go(t - e)
        BY <1>4, <1>6, <3>1
      <3> QED  BY <3>2 DEF Go
    <2>2. p.wait = w
      BY <2>1
    <2>3. p.stop \in BOOLEAN /\ ~p.stop
      BY <2>1
    <2>4. p.wait \in Int /\ (p.wait > 0 => e < t)
      BY <1>3, <2>2
    <2>5. After(e, p) = a /\ a \in Nat /\ a >= t /\ a <= total
      BY <1>1, <1>3, <1>6, <2>2 DEF After
    <2> HIDE DEF w, a
    <2>6. Schedule(e) \in Int /\ Schedule(t) \in Int
      BY <1>3, ScheduleOrder
    <2>7. CASE Second * (h + 1) <= CumHits[Last]
      <3>1. e < t => Schedule(e) <= Second * (h + 1)
        <4> SUFFICES ASSUME e < t  PROVE Schedule(e) <= Second * (h + 1)
          OBVIOUS
        <4>1. e <= t
          BY <1>3
        <4>2. Schedule(e) <= Schedule(t)
          BY <1>3, <4>1, ScheduleOrder
        <4> QED  BY <1>1, <1>3, <2>6, <2>7, <4>2
      <3>2. DueBy(h + 1, a)
        <4>1. h + 1 \in Nat /\ t <= a /\ totalDuration \in Int
          BY <1>1, <1>3, <2>5
        <4> QED  BY <1>3, <2>5, <2>7, <4>1, DueLater
      <3> QED  BY <2>3, <2>4, <2>5, <3>1, <3>2
    <2>8. CASE ~(Second * (h + 1) <= CumHits[Last])
      <3>1. a = total
        BY <1>1, <1>3, <2>5, <2>8
      <3>2. Schedule(a) = CumHits[Last]
        <4>1. Schedule(total) = CumHits[Last]
          BY <1>1, SegmentSchedule DEF total
        <4> QED  BY <3>1, <4>1
      <3>3. Schedule(e) <= Second * (h + 1)
        <4>1. Schedule(e) <= CumHits[Last]
          BY SegmentBound
        <4> QED  BY <1>1, <2>6, <2>8, <4>1
      <3>4. ASSUME DueBy(h, e)  PROVE DueBy(h + 1, a)
        <4>1. Second * h <= CumHits[Last]
          <5>1. Second * h <= Schedule(e) \/ Second * h < Schedule(e) + Asked(e)
            BY <1>1, <1>6, <3>4 DEF DueBy
          <5>2. Schedule(e + 1) = Schedule(e) + Asked(e) /\ Asked(e) \in Nat
            BY ScheduleStep, AskedType
          <5>3. Schedule(e + 1) <= CumHits[Last]
            <6>1. e + 1 \in Nat
              OBVIOUS
            <6> QED  BY <6>1, SegmentBound
          <5> QED  BY <1>1, <2>6, <5>1, <5>2, <5>3
        <4>2. (h + 1) - 1 = h /\ a >= totalDuration
          BY <1>1, <3>1
        <4> QED  BY <3>2, <4>1, <4>2 DEF DueBy
      <3> QED  BY <2>3, <2>4, <2>5, <3>3, <3>4
    <2> QED  BY <2>7, <2>8
  <1> QED  BY <1>5, <1>6

-----------------------------------------------------------------------------
(* The pacer goroutine *)

\* The steps are whole seconds, as those of a line are.
WholeSteps == cfg.kind \in {"step", "line"} => StepLen % Second = 0

\* What any pacer says at e, when h hits are sent.
LEMMA PaceRight ==
    ASSUME CfgOK, Regular(cfg), ~Invalid,
           NEW e \in 0..MaxTime, NEW h \in 0..MaxHits
    PROVE  LET p == Pace(e, h)
           IN  /\ p.stop \in BOOLEAN /\ p.wait \in Int
               /\ p.stop => \/ cfg.max > 0 /\ h >= cfg.max
                            \/ cfg.kind = "segments" /\ e >= totalDuration
                            \/ cfg.kind \in {"step", "line"} /\ Asked(e) = 0
               /\ Paced /\ p.wait > 0 => Schedule(e) <= Second * (h + 1)
               /\ Paced /\ WholeSteps /\ ~p.stop /\ DueBy(h, e)
                  => DueBy(h + 1, After(e, p))
  <1> DEFINE p == Pace(e, h)
  <1>1. /\ e \in Nat /\ e <= MaxTime /\ h \in Nat /\ h <= MaxHits
        /\ Second \in Nat /\ cfg.max \in Nat
        /\ Schedule(e) \in Int /\ Second * (h + 1) \in Int
    <2>1. e \in Nat /\ e <= MaxTime /\ h \in Nat /\ h <= MaxHits /\ Second \in Nat
          /\ cfg.max \in Nat
      BY WordFacts, CfgFields
    <2> QED  BY <2>1, ScheduleStep
  <1>2. CASE cfg.kind = "const"
    <2> DEFINE g == ConstPace(cfg.start, cfg.max, e, h)
    <2>1. p = g
      BY <1>2 DEF Pace
    <2>2. cfg.start \in Nat /\ (cfg.start > 0 => Second % cfg.start = 0)
      BY <1>2, CfgFields DEF Regular
    <2>3. /\ g.stop \in BOOLEAN /\ g.wait \in Int
          /\ g.stop => cfg.max > 0 /\ h >= cfg.max
          /\ cfg.start > 0 /\ ~g.stop => Second * (h + 1) <= cfg.start * After(e, g)
          /\ cfg.start > 0 /\ g.wait > 0 => cfg.start * e < Second * (h + 1)
      BY <1>1, <2>2, ConstPaceRight
    <2> HIDE DEF g, p
    <2>4. After(e, g) \in Nat
      BY <1>1, <2>3 DEF After
    <2>5. Schedule(e) = cfg.start * e /\ Schedule(After(e, g)) = cfg.start * After(e, g)
      BY <1>1, <1>2, <2>4, ConstSchedule
    <2>6. Paced <=> cfg.start > 0
      BY <1>2 DEF Paced
    <2>7. Paced /\ g.wait > 0 => Schedule(e) <= Second * (h + 1)
      BY <1>1, <2>3, <2>5, <2>6
    <2>8. Paced /\ ~g.stop => DueBy(h + 1, After(e, g))
      BY <2>3, <2>5, <2>6 DEF DueBy
    <2> QED  BY <2>1, <2>3, <2>7, <2>8 DEF p
  <1>3. CASE cfg.kind # "const" /\ cfg.max > 0 /\ h >= cfg.max
    <2>1. p = [wait |-> 0, stop |-> TRUE]
      BY <1>3 DEF Pace, StopNow
    <2>2. p.wait = 0
      BY <2>1
    <2>3. p.stop
      BY <2>1
    <2> HIDE DEF p
    <2>4. p.wait \in Int /\ ~(p.wait > 0)
      BY <2>2
    <2> QED  BY <1>3, <2>3, <2>4 DEF p
  <1>4. CASE cfg.kind = "segments" /\ ~(cfg.max > 0 /\ h >= cfg.max)
    <2> DEFINE g == SegmentedPace(e, h)
    <2>1. p = g
      BY <1>4 DEF Pace
    <2>2. /\ g.stop \in BOOLEAN /\ g.wait \in Int
          /\ g.stop => e >= totalDuration
          /\ g.wait > 0 => Schedule(e) <= Second * (h + 1)
          /\ ~g.stop /\ DueBy(h, e) => DueBy(h + 1, After(e, g))
      BY <1>1, <1>4, SegmentedPaceRight
    <2> HIDE DEF g, p
    <2> QED  BY <1>4, <2>1, <2>2 DEF p
  <1>5. CASE cfg.kind \in {"step", "line"} /\ ~(cfg.max > 0 /\ h >= cfg.max)
    <2> DEFINE g == StepPace(e, h)
    <2>1. p = g
      BY <1>5 DEF Pace
    <2>2. StepsOK
      BY <1>5 DEF StepsOK, Invalid
    <2>3. /\ g.stop \in BOOLEAN /\ g.wait \in Int
          /\ g.stop => Asked(e) = 0 \/ (cfg.max > 0 /\ h >= cfg.max)
          /\ g.wait > 0 => Schedule(e) < Second * (h + 1)
          /\ ~g.stop /\ StepLen % Second = 0 /\ DueBy(h, e) => DueBy(h + 1, After(e, g))
      BY <1>1, <2>2, StepPaceRight
    <2> HIDE DEF g, p
    <2>4. g.wait > 0 => Schedule(e) <= Second * (h + 1)
      BY <1>1, <2>3
    <2>5. WholeSteps => StepLen % Second = 0
      BY <1>5 DEF WholeSteps
    <2> QED  BY <1>5, <2>1, <2>3, <2>4, <2>5 DEF p
  <1> QED  BY <1>2, <1>3, <1>4, <1>5, CfgFields

-----------------------------------------------------------------------------
(* What depends on the configuration only stays the same. *)

LEMMA CumSame ==
    ASSUME cfg' = cfg
    PROVE  CumTime' = CumTime /\ totalDuration' = totalDuration
  <1>1. CumTime' = CumTime
    BY DEF CumTime
  <1> QED  BY <1>1 DEF totalDuration

LEMMA AskedSame ==
    ASSUME cfg' = cfg, NEW t
    PROVE  Asked(t)' = Asked(t)
  <1>1. CumTime' = CumTime
    BY CumSame
  <1> QED  BY <1>1 DEF Asked, Segments, StepRate, StepLen, LenOf

LEMMA AskedThen ==
    ASSUME cfg' = cfg, NEW t, t = elapsed'
    PROVE  Asked(elapsed)' = Asked(t)
  <1>1. CumTime' = CumTime
    BY CumSame
  <1> QED  BY <1>1 DEF Asked, Segments, StepRate, StepLen, LenOf

LEMMA ScheduleThen ==
    ASSUME cfg' = cfg, NEW t, t = elapsed'
    PROVE  Schedule(elapsed)' = Schedule(t)
  <1>1. \A u : Asked(u)' = Asked(u)
    BY AskedSame
  <1> QED  BY <1>1 DEF Schedule

LEMMA DueThen ==
    ASSUME cfg' = cfg, NEW n, n = hits', NEW t, t = elapsed'
    PROVE  /\ DueBy(hits, elapsed)' <=> DueBy(n, t)
           /\ DueBy(hits + 1, elapsed)' <=> DueBy(n + 1, t)
  <1>1. /\ Schedule(elapsed)' = Schedule(t) /\ Asked(elapsed)' = Asked(t)
        /\ totalDuration' = totalDuration
    BY ScheduleThen, AskedThen, CumSame
  <1> QED  BY <1>1 DEF DueBy

-----------------------------------------------------------------------------
(* The theorems *)

PacerInv ==
    /\ CfgOK /\ Regular(cfg)
    /\ pc \in {"pace", "tick", "stopped", "panic"}
    /\ elapsed \in 0..MaxTime /\ hits \in 0..MaxHits
    /\ pc = "tick" => hits < MaxHits
    /\ pc = "stopped" => LoadOver

\* A hit is sent when it is due.
AheadInv == Paced => IF pc = "tick" THEN DueBy(hits + 1, elapsed) ELSE DueBy(hits, elapsed)

LEMMA PacerInit == Init /\ Regular(cfg) => PacerInv /\ AheadInv
  <1> SUFFICES ASSUME Init, Regular(cfg)  PROVE PacerInv /\ AheadInv
    OBVIOUS
  <1>1. CfgOK /\ pc = "pace" /\ elapsed = 0 /\ hits = 0
    BY DEF Init, CfgOK
  <1>2. 0 \in 0..MaxTime /\ 0 \in 0..MaxHits
    BY WordFacts
  <1>3. PacerInv
    BY <1>1, <1>2 DEF PacerInv
  <1>4. Second * 0 <= Schedule(0)
    <2>1. Schedule(0) = 0 /\ Second \in Nat
      BY <1>1, ScheduleStep, CfgFields
    <2> QED  BY <2>1
  <1> QED  BY <1>1, <1>3, <1>4 DEF AheadInv, DueBy

\* A wait that is not too long to follow.
LEMMA SleepRight ==
    ASSUME PacerInv, Sleep
    PROVE  /\ elapsed' = After(elapsed, Pace(elapsed, hits))
           /\ elapsed' \in 0..MaxTime /\ elapsed <= elapsed'
           /\ Paced /\ elapsed' > elapsed => Schedule(elapsed) <= Second * (hits + 1)
           /\ Paced /\ WholeSteps /\ DueBy(hits, elapsed)
              => DueBy(hits + 1, After(elapsed, Pace(elapsed, hits)))
  <1> DEFINE p == Pace(elapsed, hits)
  <1>1. /\ p.stop \in BOOLEAN /\ p.wait \in Int
        /\ Paced /\ p.wait > 0 => Schedule(elapsed) <= Second * (hits + 1)
        /\ Paced /\ WholeSteps /\ ~p.stop /\ DueBy(hits, elapsed)
           => DueBy(hits + 1, After(elapsed, p))
    BY PaceRight DEF PacerInv, Sleep
  <1>2. /\ elapsed' = IF p.wait > 0 THEN elapsed + p.wait ELSE elapsed
        /\ elapsed' <= MaxTime /\ elapsed \in 0..MaxTime
    BY DEF Sleep, PacerInv
  <1>3. ~p.stop
    BY DEF Sleep
  <1> HIDE DEF p
  <1>4. elapsed' = After(elapsed, p)
    BY <1>2 DEF After
  <1>5. elapsed' \in 0..MaxTime /\ elapsed <= elapsed' /\ (elapsed' > elapsed => p.wait > 0)
    BY <1>1, <1>2, WordFacts
  <1> QED  BY <1>1, <1>3, <1>4, <1>5 DEF p

LEMMA HitRight ==
    ASSUME PacerInv, Hit
    PROVE  elapsed' \in 0..MaxTime /\ elapsed <= elapsed' /\ hits' \in 0..MaxHits
  <1>1. PICK late \in 0..MaxLate : elapsed' = elapsed + late
    BY DEF Hit
  <1>2. /\ elapsed' <= MaxTime /\ elapsed \in 0..MaxTime /\ hits' = hits + 1
        /\ hits < MaxHits /\ hits \in 0..MaxHits
    BY DEF Hit, PacerInv
  <1>3. MaxLate \in Nat
    BY PacerAssumption DEF PacerAssumption
  <1> QED  BY <1>1, <1>2, <1>3, WordFacts

LEMMA LoadOverSame ==
    ASSUME UNCHANGED <<cfg, elapsed, hits>>
    PROVE  LoadOver' <=> LoadOver
  <1>1. cfg' = cfg /\ elapsed' = elapsed /\ hits' = hits
    OBVIOUS
  <1>2. Asked(elapsed)' = Asked(elapsed) /\ totalDuration' = totalDuration
    <2>1. PICK t : t = elapsed
      OBVIOUS
    <2>2. Asked(elapsed)' = Asked(t)
      BY <1>1, <2>1, AskedThen
    <2> QED  BY <1>1, <2>1, <2>2, CumSame
  <1> QED  BY <1>1, <1>2 DEF LoadOver

LEMMA PacerStep == PacerInv /\ [Next]_vars => PacerInv'
  <1> SUFFICES ASSUME PacerInv, [Next]_vars  PROVE PacerInv'
    OBVIOUS
  <1>1. cfg' = cfg
    BY DEF Next, Panic, Stop, Sleep, Hit, vars
  <1>2. (CfgOK /\ Regular(cfg))'
    BY <1>1 DEF PacerInv, CfgOK, Regular, LenOf
  <1>3. CASE Panic
    BY <1>2, <1>3 DEF Panic, PacerInv
  <1>4. CASE Stop
    <2>1. /\ ~Invalid /\ Pace(elapsed, hits).stop /\ pc' = "stopped"
          /\ UNCHANGED <<cfg, elapsed, hits>>
      BY <1>4 DEF Stop
    <2>2. \/ cfg.max > 0 /\ hits >= cfg.max
          \/ cfg.kind = "segments" /\ elapsed >= totalDuration
          \/ cfg.kind \in {"step", "line"} /\ Asked(elapsed) = 0
      BY <2>1, PaceRight DEF PacerInv
    <2>3. LoadOver
      BY <2>2 DEF LoadOver
    <2>4. LoadOver'
      BY <2>1, <2>3, LoadOverSame
    <2> QED  BY <1>2, <2>1, <2>4 DEF PacerInv
  <1>5. CASE Sleep
    <2>1. elapsed' \in 0..MaxTime
      BY <1>5, SleepRight
    <2> QED  BY <1>2, <1>5, <2>1 DEF Sleep, PacerInv
  <1>6. CASE Hit
    <2>1. elapsed' \in 0..MaxTime /\ hits' \in 0..MaxHits
      BY <1>6, HitRight
    <2> QED  BY <1>2, <1>6, <2>1 DEF Hit, PacerInv
  <1>7. CASE UNCHANGED vars
    <2>1. UNCHANGED <<cfg, elapsed, hits>> /\ pc' = pc
      BY <1>7 DEF vars
    <2>2. LoadOver' <=> LoadOver
      BY <2>1, LoadOverSame
    <2> QED  BY <1>2, <2>1, <2>2 DEF PacerInv
  <1> QED  BY <1>3, <1>4, <1>5, <1>6, <1>7 DEF Next

LEMMA AheadStep == PacerInv /\ WholeSteps /\ AheadInv /\ [Next]_vars => AheadInv'
  <1> SUFFICES ASSUME PacerInv, WholeSteps, AheadInv, [Next]_vars, Paced'  PROVE AheadInv'
    BY DEF AheadInv
  <1>1. cfg' = cfg
    BY DEF Next, Panic, Stop, Sleep, Hit, vars
  <1>2. Paced
    BY <1>1 DEF Paced
  <1>3. PICK n, t : n = hits' /\ t = elapsed'
    OBVIOUS
  <1>4. AheadInv' <=> IF pc' = "tick" THEN DueBy(n + 1, t) ELSE DueBy(n, t)
    <2>1. /\ DueBy(hits, elapsed)' <=> DueBy(n, t)
          /\ DueBy(hits + 1, elapsed)' <=> DueBy(n + 1, t)
      BY <1>1, <1>3, DueThen
    <2> QED  BY <2>1 DEF AheadInv
  <1>5. IF pc = "tick" THEN DueBy(hits + 1, elapsed) ELSE DueBy(hits, elapsed)
    BY <1>2 DEF AheadInv
  <1>6. CASE Panic \/ Stop
    <2>1. pc = "pace" /\ pc' # "tick" /\ n = hits /\ t = elapsed
      BY <1>3, <1>6 DEF Panic, Stop
    <2> QED  BY <1>4, <1>5, <2>1
  <1>7. CASE Sleep
    <2>1. pc = "pace" /\ pc' = "tick" /\ n = hits
      BY <1>3, <1>7 DEF Sleep
    <2>2. t = After(elapsed, Pace(elapsed, hits))
      BY <1>3, <1>7, SleepRight
    <2>3. DueBy(hits + 1, After(elapsed, Pace(elapsed, hits)))
      BY <1>2, <1>5, <1>7, <2>1, SleepRight
    <2> QED  BY <1>4, <2>1, <2>2, <2>3
  <1>8. CASE Hit
    <2>1. pc = "tick" /\ pc' = "pace" /\ n = hits + 1
      BY <1>3, <1>8 DEF Hit
    <2>2. DueBy(hits + 1, elapsed)
      BY <1>5, <2>1
    <2>3. elapsed \in Nat /\ t \in Nat /\ elapsed <= t /\ hits + 1 \in Nat
      BY <1>3, <1>8, HitRight, WordFacts DEF PacerInv
    <2>4. totalDuration \in Int
      <3>1. Last \in 0..Last
        BY SegmentFields DEF Last, PacerInv
      <3>2. CumTime[Last] \in Nat
        BY <3>1, CumRight DEF PacerInv
      <3> QED  BY <3>2 DEF totalDuration, Last
    <2>5. DueBy(hits + 1, t)
      BY <2>2, <2>3, <2>4, DueLater DEF PacerInv
    <2> QED  BY <1>4, <2>1, <2>5
  <1>9. CASE UNCHANGED vars
    <2>1. pc' = pc /\ n = hits /\ t = elapsed
      BY <1>3, <1>9 DEF vars
    <2> QED  BY <1>4, <1>5, <2>1
  <1> QED  BY <1>6, <1>7, <1>8, <1>9 DEF Next

\* However late the workers accept its hits, a pacer with a regular load stops the run
\* only at the end of that load: not while a rate is still to come, because a wait
\* overflows, or because the hits sent before a rate became constant are miscounted.
THEOREM StopsCorrect == Spec /\ Regular(cfg) => []StopsAtEnd
  <1>1. Init /\ Regular(cfg) => PacerInv
    BY PacerInit
  <1>2. PacerInv => StopsAtEnd
    BY DEF PacerInv, StopsAtEnd
  <1> QED  BY <1>1, <1>2, PacerStep, PTL DEF Spec

\* It makes the goroutine wait only when every hit that is due has been sent, so that
\* what late workers left unsent is caught up at once.
THEOREM WaitsCorrect == Spec /\ Regular(cfg) => WaitsWhenCaughtUp
  <1>1. Init /\ Regular(cfg) => PacerInv
    BY PacerInit
  <1>2. PacerInv /\ [Next]_vars =>
           [Paced /\ pc' = "tick" /\ elapsed' > elapsed
            => (hits + 1) * Second >= Schedule(elapsed)]_vars
    <2> SUFFICES ASSUME PacerInv, [Next]_vars, ~UNCHANGED vars,
                        Paced, pc' = "tick", elapsed' > elapsed
                 PROVE  (hits + 1) * Second >= Schedule(elapsed)
      OBVIOUS
    <2>1. Sleep
      BY DEF Next, Panic, Stop, Hit
    <2>2. Schedule(elapsed) <= Second * (hits + 1)
      BY <2>1, SleepRight
    <2>3. hits \in Nat /\ Second \in Nat /\ Schedule(elapsed) \in Int
      <3>1. hits \in Nat /\ elapsed \in Nat /\ CfgOK
        BY WordFacts DEF PacerInv
      <3> QED  BY <3>1, ScheduleStep, CfgFields
    <2>4. Second * (hits + 1) = (hits + 1) * Second /\ Second * (hits + 1) \in Int
      BY <2>3
    <2> QED  BY <2>2, <2>3, <2>4
  <1> QED  BY <1>1, <1>2, PacerStep, PTL DEF Spec, WaitsWhenCaughtUp

\* At most one hit is asked for in a tick, as far as the run is followed.
OneATick == \A t \in 0..MaxTime : Asked(t) <= Second

\* With steps of whole seconds, and at most a hit a tick, no hit is sent ahead of the
\* schedule by more than one, however late the hits before it were accepted.
THEOREM PaceCorrect == Spec /\ Regular(cfg) /\ WholeSteps /\ OneATick => []NeverAhead
  <1> DEFINE I == PacerInv /\ WholeSteps /\ OneATick /\ AheadInv
  <1>1. Init /\ Regular(cfg) /\ WholeSteps /\ OneATick => I
    BY PacerInit
  <1>2. I /\ [Next]_vars => I'
    <2> SUFFICES ASSUME I, [Next]_vars  PROVE I'
      OBVIOUS
    <2>1. cfg' = cfg
      BY DEF Next, Panic, Stop, Sleep, Hit, vars
    <2>2. WholeSteps'
      BY <2>1 DEF WholeSteps, StepLen, LenOf
    <2>3. OneATick'
      <3>1. \A t : Asked(t)' = Asked(t)
        BY <2>1, AskedSame
      <3> QED  BY <3>1 DEF OneATick
    <2> QED  BY <2>2, <2>3, PacerStep, AheadStep
  <1>3. I => NeverAhead
    <2> SUFFICES ASSUME I, Paced  PROVE (hits - 1) * Second <= Schedule(elapsed)
      BY DEF NeverAhead
    <2>1. hits \in Nat /\ elapsed \in Nat /\ elapsed \in 0..MaxTime /\ CfgOK
      BY WordFacts DEF PacerInv
    <2>2. /\ Schedule(elapsed) \in Int /\ Second \in Nat /\ Asked(elapsed) \in Nat
          /\ Asked(elapsed) <= Second
      BY <2>1, ScheduleStep, CfgFields, AskedType DEF OneATick
    <2>3. /\ Second * hits \in Int /\ Second * (hits + 1) = Second * hits + Second
          /\ Second * (hits - 1) = Second * hits - Second
          /\ (hits - 1) * Second = Second * hits - Second
          /\ (hits + 1) - 1 = hits
      BY <2>1, <2>2
    <2>4. DueBy(hits, elapsed) \/ DueBy(hits + 1, elapsed)
      BY DEF AheadInv
    <2>5. CASE DueBy(hits, elapsed)
      <3>1. \/ Second * hits <= Schedule(elapsed)
            \/ Second * hits < Schedule(elapsed) + Asked(elapsed)
            \/ Second * (hits - 1) <= Schedule(elapsed)
        BY <2>5 DEF DueBy
      <3> QED  BY <2>2, <2>3, <3>1
    <2>6. CASE DueBy(hits + 1, elapsed)
      <3>1. \/ Second * (hits + 1) <= Schedule(elapsed)
            \/ Second * (hits + 1) < Schedule(elapsed) + Asked(elapsed)
            \/ Second * hits <= Schedule(elapsed)
        BY <2>3, <2>6 DEF DueBy
      <3> QED  BY <2>2, <2>3, <3>1
    <2> QED  BY <2>4, <2>5, <2>6
  <1> QED  BY <1>1, <1>2, <1>3, PTL DEF Spec

=============================================================================
