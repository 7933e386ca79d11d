-------------------------------- MODULE Pacer --------------------------------
(***************************************************************************)
(* The pacers of load/pacer.go (Constant, Step, Linear, Segmented) and the *)
(* loop of the pacer goroutine that asks them how long to wait before the  *)
(* next hit (runner/requester.go).                                         *)
(*                                                                         *)
(* Time is counted in ticks, Second of them in a second; rates are whole   *)
(* hits per second, so that a number of hits times Second is an integer    *)
(* and the float64 computations of the code are exact here.  A worker may  *)
(* accept a hit late.                                                      *)
(***************************************************************************)
EXTENDS Integers, Sequences

CONSTANTS
    Configs,    \* the pacers to run
    Second,     \* ticks in a second (1e9 in the code)
    MaxLate,    \* bound: how late, in ticks, a worker accepts a hit
    MaxTime,    \* bound: the run is followed up to this tick
    MaxHits,    \* bound: and up to this many hits
    UintSize,   \* 2^w for the w bits of uint64
    InfiniteWait    \* time.Duration(+Inf): the least or the greatest, as the processor has it

ASSUME PacerAssumption ==
    /\ Configs \subseteq
          [kind: {"const", "step", "line", "segments"}, start: Nat, step: Int,
           stepDuration: Nat \ {0}, stop: Nat, duration: Nat, max: Nat,
           segments: Seq([duration: Nat \ {0}, rps: Nat])]
    /\ Second \in Nat \ {0} /\ UintSize \in Nat \ {0} /\ UintSize % 2 = 0
    /\ MaxLate \in Nat /\ MaxTime \in Nat /\ MaxHits \in Nat /\ InfiniteWait \in Int
    \* As many ticks, and so many hits a second apart, are far from overflowing.
    /\ 2 * MaxTime < UintSize /\ 2 * MaxHits * Second < UintSize
    /\ 2 * Second < UintSize

VARIABLES
    cfg,        \* the pacer's fields; segments is empty but for "segments"
    pc,         \* "pace", "tick" (at the select), "stopped" or "panic"
    elapsed,    \* time.Since(began)
    hits        \* counter.Get()

vars == <<cfg, pc, elapsed, hits>>

ToUint(x) == x % UintSize
ToInt(u) == IF 2 * u < UintSize THEN u ELSE u - UintSize
MaxInt == UintSize \div 2 - 1

\* Division of Go, towards zero.
Quot(a, b) == IF (a >= 0) = (b > 0) THEN a \div b ELSE -((-a) \div b)

Go(wait) == [wait |-> wait, stop |-> FALSE]
StopNow == [wait |-> 0, stop |-> TRUE]

-----------------------------------------------------------------------------
(* ConstantPacer.Pace, on uint64 hits *)

ConstPace(freq, max, e, h) ==
    LET interval == ToUint(Quot(Second, ToInt(freq)))
    IN  IF max > 0 /\ h >= max THEN StopNow
        ELSE IF freq = 0 THEN Go(0)
        ELSE IF h < ToUint(freq * (e \div Second)) THEN Go(0)
        ELSE IF MaxInt \div interval < h THEN StopNow
        ELSE Go((h + 1) * interval - e)

-----------------------------------------------------------------------------
(* StepPacer; LinearPacer is one with steps of a second.  Numbers of hits  *)
(* are multiplied by Second.                                               *)

LenOf(c) == IF c.kind = "line" THEN Second ELSE c.stepDuration
StepLen == LenOf(cfg)

\* Mutant of StepRate: the rate is always that of the next step.
StepRateAhead(n) == LET r == cfg.start + cfg.step * (n + 1) IN IF r < 0 THEN 0 ELSE r

\* The rate of the n-th step, never negative.
StepRate(n) == LET r == cfg.start + cfg.step * n IN IF r < 0 THEN 0 ELSE r

\* initialize: without a Stop rate, the one reached after LoadDuration, on
\* uint64.
stopFreq ==
    IF cfg.duration > 0 /\ cfg.stop = 0
    THEN ToUint(cfg.start + cfg.step * (cfg.duration \div StepLen))
    ELSE cfg.stop

\* initialize: when the rate becomes constant, 0 for never; without a duration,
\* at the first step that has passed the Stop rate.
constAt ==
    IF cfg.duration > 0 THEN cfg.duration
    ELSE IF cfg.stop = 0 THEN 0
    ELSE LET passed(n) == IF cfg.step > 0 THEN StepRate(n) > cfg.stop
                                          ELSE StepRate(n) < cfg.stop
         IN  StepLen * (CHOOSE n \in 0..cfg.stop + cfg.start :
                            passed(n) /\ \A m \in 0..n - 1 : ~passed(m))

Rate(t) == IF constAt > 0 /\ t >= constAt THEN stopFreq ELSE StepRate(t \div StepLen)

\* hits(t): whole steps at the rate they have at their beginning, and the
\* current one at its rate now.
HitsAt(t) ==
    LET steps == t \div StepLen
        before[n \in 0..steps] ==
            IF n = 0 THEN 0
            ELSE before[n - 1] + StepLen * (IF n = 1 THEN cfg.start ELSE Rate((n - 1) * StepLen))
    IN  IF steps = 0 THEN t * cfg.start
        ELSE before[steps] + (t - steps * StepLen) * Rate(t)

\* Mutant of baseHits: the hits of the current step are counted twice.
baseHitsTooMany == IF constAt > 0 THEN 2 * (HitsAt(constAt) \div Second) ELSE 0

baseHits == IF constAt > 0 THEN HitsAt(constAt) \div Second ELSE 0

\* Mutant of StepPace: the wait is a whole interval, however far behind.
StepPaceWhole(e, h) ==
    IF constAt > 0 /\ e >= constAt
         THEN IF stopFreq = 0 THEN StopNow
              ELSE ConstPace(stopFreq, cfg.max, e - constAt, ToUint(h - baseHits))
    ELSE IF Rate(e) = 0 THEN StopNow
    ELSE Go(Second \div Rate(e))

\* A rate of zero makes the interval infinite, and uint64 of it more than
\* MaxInt on every processor: the wait would overflow once there is a hit.
StepPace(e, h) ==
    IF h < HitsAt(e) \div Second THEN Go(0)
    ELSE IF constAt > 0 /\ e >= constAt
         THEN IF stopFreq = 0 THEN StopNow
              ELSE ConstPace(stopFreq, cfg.max, e - constAt, ToUint(h - baseHits))
    ELSE IF Rate(e) = 0 THEN IF h > 0 THEN StopNow ELSE Go(InfiniteWait)
    ELSE LET n == Second \div Rate(e)
         IN  IF n # 0 /\ MaxInt \div n < h THEN StopNow
             ELSE Go(((h + 1) * Second - HitsAt(e)) \div Rate(e))

-----------------------------------------------------------------------------
(* SegmentedPacer *)

Segments == DOMAIN cfg.segments

\* cumulativeTimes and cumulativeHits at the end of segment i.
CumTime[i \in 0..Len(cfg.segments)] ==
    IF i = 0 THEN 0 ELSE CumTime[i - 1] + cfg.segments[i].duration
CumHits[i \in 0..Len(cfg.segments)] ==
    IF i = 0 THEN 0
    ELSE CumHits[i - 1] + cfg.segments[i].duration * cfg.segments[i].rps

totalDuration == CumTime[Len(cfg.segments)]

\* Segments without hits are skipped; beyond all of them it is the end of the last.
TimeForHit(k) ==
    LET reaches(i) == cfg.segments[i].rps > 0 /\ k * Second <= CumHits[i]
    IN  IF \E i \in Segments : reaches(i)
        THEN LET i == CHOOSE j \in Segments :
                          reaches(j) /\ \A m \in 1..j - 1 : ~reaches(m)
             IN  CumTime[i - 1] + (k * Second - CumHits[i - 1]) \div cfg.segments[i].rps
        ELSE totalDuration

SegmentedPace(e, h) ==
    IF e >= totalDuration THEN StopNow
    ELSE IF TimeForHit(h + 1) > totalDuration THEN StopNow
    ELSE IF e >= TimeForHit(h + 1) THEN Go(0)
    ELSE Go(TimeForHit(h + 1) - e)

-----------------------------------------------------------------------------
(* The pacer goroutine *)

Pace(e, h) ==
    IF cfg.kind = "const" THEN ConstPace(cfg.start, cfg.max, e, h)
    ELSE IF cfg.max > 0 /\ h >= cfg.max THEN StopNow
    ELSE IF cfg.kind = "segments" THEN SegmentedPace(e, h)
    ELSE StepPace(e, h)

Init ==
    /\ cfg \in Configs
    /\ pc = "pace" /\ elapsed = 0 /\ hits = 0

\* initialize panics on a start rate of zero, or on no segments at all.
Invalid == \/ cfg.kind \in {"step", "line"} /\ (cfg.start = 0 \/ cfg.step = 0)
           \/ cfg.kind = "segments" /\ cfg.segments = <<>>

Panic ==
    /\ pc = "pace" /\ Invalid
    /\ pc' = "panic"
    /\ UNCHANGED <<cfg, elapsed, hits>>

Stop ==
    /\ pc = "pace" /\ ~Invalid /\ Pace(elapsed, hits).stop
    /\ pc' = "stopped"
    /\ UNCHANGED <<cfg, elapsed, hits>>

\* time.Sleep(wait)
Sleep ==
    /\ pc = "pace" /\ ~Invalid /\ ~Pace(elapsed, hits).stop /\ hits < MaxHits
    /\ pc' = "tick"
    /\ LET wait == Pace(elapsed, hits).wait
       IN  elapsed' = IF wait > 0 THEN elapsed + wait ELSE elapsed
    /\ elapsed' <= MaxTime
    /\ UNCHANGED <<cfg, hits>>

\* A worker takes the tick, maybe late.
Hit ==
    /\ pc = "tick"
    /\ pc' = "pace"
    /\ \E late \in 0..MaxLate : elapsed' = elapsed + late
    /\ elapsed' <= MaxTime
    /\ hits' = hits + 1
    /\ UNCHANGED cfg

Next == Panic \/ Stop \/ Sleep \/ Hit

Spec == Init /\ [][Next]_vars

-----------------------------------------------------------------------------
(* Properties *)

\* A load whose constant rates divide a second, so that the interval between hits is
\* a number of ticks; whose duration is made of whole steps, which do not lead below
\* none; and which, without a duration, goes from the start towards the stop rate.
Regular(c) ==
    LET whole(f) == f > 0 => Second % f = 0
        last == c.start + c.step * (c.duration \div LenOf(c))
    IN  /\ c.kind = "const" => whole(c.start)
        /\ c.kind \in {"step", "line"} =>
              /\ c.duration % LenOf(c) = 0
              /\ IF c.duration > 0 /\ c.stop = 0 THEN last >= 0 /\ whole(last)
                                                 ELSE whole(c.stop)
              /\ c.duration = 0 /\ c.stop > 0 =>
                    IF c.step > 0 THEN c.start < c.stop ELSE c.start > c.stop

\* The rate the configuration asks for in the tick that begins at t.
Asked(t) ==
    IF cfg.kind = "const" THEN cfg.start
    ELSE IF cfg.kind = "segments"
    THEN IF \E i \in Segments : CumTime[i - 1] <= t /\ t < CumTime[i]
         THEN cfg.segments[CHOOSE i \in Segments :
                               CumTime[i - 1] <= t /\ t < CumTime[i]].rps
         ELSE 0
    ELSE IF cfg.duration > 0 /\ t >= cfg.duration /\ cfg.stop > 0 THEN cfg.stop
    ELSE LET last == cfg.duration \div StepLen
             n == IF cfg.duration > 0 /\ t >= cfg.duration THEN last ELSE t \div StepLen
         IN  IF cfg.stop > 0 /\ cfg.duration = 0 /\
                   IF cfg.step > 0 THEN StepRate(n) > cfg.stop ELSE StepRate(n) < cfg.stop
             THEN cfg.stop ELSE StepRate(n)

\* What the configuration asks for up to tick t, times Second.
Schedule(t) ==
    LET sum[u \in 0..t] == IF u = 0 THEN 0 ELSE sum[u - 1] + Asked(u - 1)
    IN  sum[t]

Paced == cfg.kind # "const" \/ cfg.start > 0

\* No hit is sent ahead of the schedule by more than one, however late the hits
\* before it were accepted: what is caught up is what was missed.
NeverAhead == Paced => (hits - 1) * Second <= Schedule(elapsed)

\* When the pacer makes the goroutine wait, the hits that are due have been
\* sent: it waits only once it has caught up.
WaitsWhenCaughtUp ==
    [][Paced /\ pc' = "tick" /\ elapsed' > elapsed
       => (hits + 1) * Second >= Schedule(elapsed)]_vars

\* The segments have an end, and so has a load whose last rate is zero.
LoadOver ==
    \/ cfg.max > 0 /\ hits >= cfg.max
    \/ cfg.kind = "segments" /\ elapsed >= totalDuration
    \/ cfg.kind \in {"step", "line"} /\ Asked(elapsed) = 0

\* The pacer stops the run only at the end of its load.
StopsAtEnd == pc = "stopped" => LoadOver

=============================================================================
