------------------------------- MODULE RunConfig -------------------------------
(***************************************************************************)
(* From the settings of a run to its schedules: NewConfig and the options  *)
(* of runner/options.go, and the worker ticker and the pacer that          *)
(* runner/requester.go creates from the configuration.                     *)
(*                                                                         *)
(* Settings are a record [n, c, rps, nConns, x, z, skipFirst, binary,      *)
(* dynamic, load, conc]; load and conc are schedules, records [schedule,   *)
(* start, end, step, stepDuration, duration].  A configuration is the same *)
(* record after NewConfig.  Only what the schedules, the counts and the    *)
(* checks depend on is here; names, credentials and files are not.         *)
(* Durations are signed, and only zero is refused (options.go:226, 242).   *)
(***************************************************************************)
EXTENDS Integers

CONSTANT Second     \* the units of time in a second

ASSUME RunConfigAssumption == Second \in Nat \ {0}

ScheduleSettings == [schedule: {"", "const", "step", "line", "other"}, start: Nat,
                     end: Nat, step: Int, stepDuration: Int, duration: Int]
Settings == [n: Nat, c: Nat, rps: Nat, nConns: Nat, x: Int, z: Int, skipFirst: Nat,
             binary: BOOLEAN, dynamic: BOOLEAN,
             load: ScheduleSettings, conc: ScheduleSettings]

MaxInt32 == 2147483647

Schedules == {"const", "step", "line"}

\* The options that an empty or zero value leaves at the default.
WithSchedule(name, default) == IF name = "" THEN default ELSE name
WithConnections(k) == IF k > 0 THEN k ELSE 1

\* fromConfig: X ("max duration") takes the place of Z.
FromConfig(s) == [s EXCEPT !.z = IF s.x > 0 THEN s.x ELSE s.z]

\* The configuration once all options are applied to the defaults.
Configured(s) ==
    [FromConfig(s) EXCEPT !.nConns = WithConnections(@),
                          !.load.schedule = WithSchedule(@, "const"),
                          !.conc.schedule = WithSchedule(@, "none")]

\* "fix up durations": a run with a duration has no number of requests of its own.
WithDuration(c) == IF c.z > 0 THEN [c EXCEPT !.n = MaxInt32] ELSE c

\* The rate changes, by a step, and at times that differ.
ScheduleOK(s) ==
    s.schedule \in {"step", "line"} =>
        /\ s.start # s.end
        /\ s.step # 0
        /\ s.schedule = "step" => s.stepDuration # 0

\* The checks; a concurrency schedule of an unknown name is accepted.
Accepted(c) ==
    /\ c.nConns <= c.c
    /\ ~(c.binary /\ c.dynamic)
    /\ c.load.schedule \in Schedules
    /\ ScheduleOK(c.load) /\ ScheduleOK(c.conc)
    /\ c.skipFirst > 0 => c.skipFirst <= c.n

\* A line is a step schedule with steps of a second.
LineSteps(s) == IF s.schedule = "line" THEN [s EXCEPT !.stepDuration = Second] ELSE s

\* NewConfig, for the settings it accepts.
Accepts(s) == Accepted(WithDuration(Configured(s)))
NewConfig(s) ==
    LET c == WithDuration(Configured(s))
    IN  [c EXCEPT !.load = LineSteps(@), !.conc = LineSteps(@)]

\* A duration in steps of a length: it has elapsed at the first step that is not
\* before it.  A negative duration never elapses, nor one in steps that never come.
StepsOf(duration, len) ==
    IF duration > 0 /\ len > 0 THEN -((-duration) \div len) ELSE duration

\* createWorkerTicker, as a ticker of WorkerTicker, which counts MaxDuration in
\* steps.
WorkerTickerOf(c) ==
    IF c.conc.schedule \in {"step", "line"}
    THEN [kind |-> c.conc.schedule, start |-> c.conc.start, step |-> c.conc.step,
          stepDuration |-> c.conc.stepDuration, stop |-> c.conc.end,
          max |-> StepsOf(c.conc.duration, c.conc.stepDuration)]
    ELSE [kind |-> "const", start |-> c.c, step |-> 1, stepDuration |-> 0, stop |-> 0, max |-> 0]

\* createPacer, as a pacer of Pacer.
PacerOf(c) ==
    LET scheduled == c.load.schedule \in {"step", "line"}
    IN  [kind |-> c.load.schedule,
         start |-> IF scheduled THEN c.load.start ELSE c.rps,
         step |-> IF scheduled THEN c.load.step ELSE 0,
         stepDuration |-> IF scheduled THEN c.load.stepDuration ELSE Second,
         stop |-> IF scheduled THEN c.load.end ELSE 0,
         duration |-> IF scheduled THEN c.load.duration ELSE 0,
         max |-> c.n,
         segments |-> <<>>]
=============================================================================
