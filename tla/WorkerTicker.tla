----------------------------- MODULE WorkerTicker -----------------------------
(***************************************************************************)
(* The tickers of load/worker_ticker.go, which tell the control goroutine  *)
(* of the run engine how many workers to add or to retire: Const, Step and *)
(* Line (a Step ticker with steps of one second).                          *)
(*                                                                         *)
(* Time is counted in steps: the time.Ticker fires once per StepDuration,  *)
(* late when the receiver of the previous value was slow (it is the        *)
(* control goroutine, which may wait for a worker to finish its request).  *)
(* Of the length of a step only its sign matters: the others make no       *)
(* time.Ticker.                                                            *)
(* The receiver is part of the module: it keeps the number of workers that *)
(* are active, which a negative delta cannot take below zero.              *)
(***************************************************************************)
EXTENDS Integers

CONSTANTS
    Params,     \* the tickers to run: [kind, start, step, stepDuration, stop, max] records
    MaxLate,    \* bound: how many steps late a tick may be handled
    MaxTime,    \* bound: the last step of the run
    UintSize    \* 2^w for the w bits of uint, larger than any count here

Tickers == [kind: {"const", "step", "line"}, start: Nat, step: Int \ {0},
            stepDuration: Int, stop: Nat, max: Int]

ASSUME WorkerTickerAssumption ==
    /\ Params \subseteq Tickers
    /\ MaxLate \in Nat
    /\ MaxTime \in Nat
    /\ UintSize \in Nat \ {0}

VARIABLES
    par,        \* the fields of the ticker; max is MaxDuration in steps
    phase,      \* "start", "loop", "finished" or "panic"
    now,        \* steps since begin
    wc,         \* the count Run keeps
    workers,    \* active workers after the last value was applied
    doneSent,   \* a value with Done was sent
    closed      \* Finish has closed the channel

vars == <<par, phase, now, wc, workers, doneSent, closed>>

StepUp == par.step > 0

\* uint(x) and int(x)
ToUint(x) == x % UintSize
ToInt(u) == IF 2 * u < UintSize THEN u ELSE u - UintSize

\* What the control goroutine makes of a delta.
Applied(delta) == IF workers + delta < 0 THEN 0 ELSE workers + delta

\* C <- TickValue{delta, done}: a send on the closed channel panics.
Send(delta, done, next) ==
    \/ /\ closed
       /\ phase' = "panic"
       /\ UNCHANGED <<workers, doneSent>>
    \/ /\ ~closed
       /\ phase' = next
       /\ workers' = Applied(delta)
       /\ doneSent' = (doneSent \/ done)

Init ==
    /\ par \in Params
    /\ phase = "start" /\ now = 0
    /\ wc = 0 /\ workers = 0
    /\ doneSent = FALSE /\ closed = FALSE

\* time.NewTicker panics unless the step has a positive length.
CanTick == par.kind = "const" \/ par.stepDuration > 0

\* Run sends the initial number of workers; the Const ticker is then done.
Start ==
    /\ phase = "start"
    /\ \/ /\ ~CanTick
          /\ phase' = "panic"
          /\ UNCHANGED <<wc, workers, doneSent>>
       \/ /\ CanTick
          /\ wc' = par.start
          /\ IF par.kind = "const" THEN Send(par.start, TRUE, "finished")
                                   ELSE Send(par.start, FALSE, "loop")
    /\ UNCHANGED <<par, now, closed>>

\* MaxDuration has elapsed.
Elapsed(t) == par.max > 0 /\ t >= par.max

\* Mutant of Reached: the step down is forgotten.
ReachedUpOnly == par.max = 0 /\ par.stop > 0 /\ StepUp /\ wc >= par.stop

\* Without MaxDuration, the count has reached Stop.
Reached ==
    /\ par.max = 0
    /\ \/ par.stop > 0 /\ StepUp /\ wc >= par.stop
       \/ ~StepUp /\ wc <= par.stop

\* The final difference, computed on uint, when Stop was not passed over.
HasFinalDiff ==
    /\ par.stop > 0
    /\ IF StepUp THEN par.stop >= ToUint(wc) ELSE par.stop <= ToUint(wc)
\* Mutant of FinalDiff: the unsigned difference is not made signed.
FinalDiffUnsigned == IF HasFinalDiff THEN ToUint(par.stop - ToUint(wc)) ELSE 0

FinalDiff == IF HasFinalDiff THEN ToInt(ToUint(par.stop - ToUint(wc))) ELSE 0

\* Mutant of Tick: the loop goes on after the value with Done.
TickGoesOn ==
    /\ phase = "loop"
    /\ \E late \in 0..MaxLate :
        LET t == now + 1 + late IN
        /\ t <= MaxTime
        /\ now' = t
        /\ IF Elapsed(t) THEN Send(FinalDiff, TRUE, "loop") /\ wc' = wc
           ELSE IF Reached THEN Send(0, TRUE, "loop") /\ wc' = wc
           ELSE Send(par.step, FALSE, "loop") /\ wc' = wc + par.step
    /\ UNCHANGED <<par, closed>>

\* One iteration of `for range ticker.C`.
Tick ==
    /\ phase = "loop"
    /\ \E late \in 0..MaxLate :
        LET t == now + 1 + late IN
        /\ t <= MaxTime
        /\ now' = t
        /\ IF Elapsed(t) THEN Send(FinalDiff, TRUE, "finished") /\ wc' = wc
           ELSE IF Reached THEN Send(0, TRUE, "finished") /\ wc' = wc
           ELSE Send(par.step, FALSE, "loop") /\ wc' = wc + par.step
    /\ UNCHANGED <<par, closed>>

\* Finish closes the channel.  The Line ticker's wrapped ticker is nil until Run
\* has made it; the other disjunct is also that of a Line ticker which made it
\* and has sent nothing yet.
Finish ==
    /\ ~closed /\ phase # "panic"
    /\ \/ /\ par.kind = "line" /\ phase = "start"
          /\ phase' = "panic" /\ closed' = closed
       \/ /\ closed' = TRUE /\ phase' = phase
    /\ UNCHANGED <<par, now, wc, workers, doneSent>>

Next == Start \/ Tick \/ Finish

\* The ticker goroutine runs on; Finish need not be called.
Spec == Init /\ [][Next]_vars /\ WF_vars(Start \/ Tick)

-----------------------------------------------------------------------------
(* Properties *)

TypeOK ==
    /\ par \in Tickers
    /\ phase \in {"start", "loop", "finished", "panic"}
    /\ now \in 0..MaxTime
    /\ wc \in Int
    /\ workers \in Nat
    /\ doneSent \in BOOLEAN
    /\ closed \in BOOLEAN

\* "Once true no more values should be received over the ticker channel": a
\* value with Done is the last one sent, and a ticker that has sent it no
\* longer uses its channel, so a late Finish is harmless.
DoneIsLast ==
    [][doneSent => UNCHANGED workers /\ phase' # "panic"]_vars

\* The schedule divides the way from Start to Stop into whole steps.
Aligned ==
    /\ (par.stop - par.start) % (IF StepUp THEN par.step ELSE -par.step) = 0
    /\ IF StepUp THEN par.start <= par.stop ELSE par.start >= par.stop

\* No MaxDuration, and whole steps lead to Stop.
AlignedEndsAtStop ==
    phase = "finished" /\ par.kind # "const" /\ par.max = 0 /\ par.stop > 0 /\ Aligned
    => workers = par.stop

\* A MaxDuration, and the schedule had not passed Stop by then.
MaxDurationEndsAtStop ==
    phase = "finished" /\ par.kind # "const" /\ par.max > 0 /\ par.stop > 0 =>
        LET last == now - 1 IN
        (\A n \in 0..last : IF StepUp THEN par.start + n * par.step <= par.stop
                                      ELSE par.start + n * par.step >= par.stop)
        => workers = par.stop

\* "Final number of workers" (StepWorkerTicker.Stop): a ticker that whole steps
\* lead to Stop ends there, and one with a MaxDuration makes up the difference with
\* its last value, however late the ticks are and whatever ticks were missed.
EndsAtStop == AlignedEndsAtStop /\ MaxDurationEndsAtStop

\* A schedule that has an end ends: it has a MaxDuration, or steps down, or
\* steps up to a Stop.  One with a negative MaxDuration has none: the branch that
\* stops at Stop is for no MaxDuration at all (worker_ticker.go:102).
HasEnd == par.max > 0 \/ (par.max = 0 /\ (~StepUp \/ par.stop > 0))
ScheduleEnds == HasEnd ~> (phase \in {"finished", "panic"})
=============================================================================
