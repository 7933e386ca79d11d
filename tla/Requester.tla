------------------------------ MODULE Requester ------------------------------
(***************************************************************************)
(* The run engine of ghz (runner/requester.go, with runWorker and Stop of  *)
(* runner/worker.go, the channel side of runner/stats_handler.go and the   *)
(* stop goroutines of runner/run.go).                                      *)
(*                                                                         *)
(* One run is a set of goroutines: the caller of Run ("main"), the worker  *)
(* ticker, the worker control goroutine, the pacer goroutine, one          *)
(* goroutine per worker, the requests they make, the reporter that drains  *)
(* the results channel, and the goroutines that call Stop.  Each has its   *)
(* own program counter.  A hand-off on an unbuffered channel is one action *)
(* of both sides.  The mutexes wm and lock are read off the program        *)
(* counters: a section that changes one thing is one action guarded by     *)
(* the mutex being free, a longer one has a control point of its own.      *)
(*                                                                         *)
(* A request is a unary call: gRPC (external) delivers stats.End before    *)
(* InvokeRpc returns, so the worker is busy until the result is sent.      *)
(***************************************************************************)
EXTENDS Integers, Sequences, FiniteSets

CONSTANTS
    N,           \* config.n: the total number of requests
    C,           \* config.c: the capacity of errC
    NConns,      \* config.nConns
    Async,       \* config.async
    ZStop,       \* config.zstop: "close", "wait" or "ignore"
    ResultsCap,  \* capacity of the results channel
    Ticks,       \* the values the worker ticker sends: [delta, done] records
    Stoppers,    \* the stop reasons whose goroutine may call Stop
    MaxWorkers   \* bound on the number of workers ever created

ASSUME RequesterAssumption ==
    /\ N \in Nat \ {0}
    /\ C \in Nat \ {0}
    /\ NConns \in Nat \ {0}
    /\ Async \in BOOLEAN
    /\ ZStop \in {"close", "wait", "ignore"}
    /\ ResultsCap \in Nat \ {0}
    /\ Ticks \in Seq([delta: Int, done: BOOLEAN])
    /\ Stoppers \subseteq {"cancel", "timeout"}
    /\ MaxWorkers \in Nat \ {0}

VARIABLES
    main,        \* Run and runWorkers, in the calling goroutine
    conns,       \* number of open client connections
    nw,          \* runWorkers: the number of workers to wait for
    ctl,         \* the worker control goroutine
    rem,         \* what is left of the delta it is applying
    last,        \* tv.Done of the tick it is applying
    pos,         \* the next element of Ticks the ticker sends, 0 before it runs
    pacer,       \* the pacer goroutine
    counter,     \* the request counter
    created,     \* len(b.workers)
    wstate,      \* the state of each worker goroutine
    owner,       \* the worker that makes each request
    req,         \* the state of each request
    ignore,      \* statsHandler.ignore
    tok,         \* len(stopCh), a channel of capacity 1
    stopper,     \* the goroutine that calls Stop(reason), per reason
    stopReason,  \* b.stopReason
    endReason,   \* the reason Finish puts in the report
    panic        \* the fault that killed the process, "none" while it runs

mainVars == <<main, nw>>
ctlVars  == <<ctl, rem, last>>
pacerVars == <<pacer, counter>>
workerVars == <<created, wstate>>
reqVars == <<owner, req>>
stopVars == <<tok, stopper, stopReason, ignore>>
vars == <<mainVars, conns, ctlVars, pos, pacerVars, workerVars, reqVars,
          stopVars, endReason, panic>>

Workers  == 1..MaxWorkers
Requests == 1..N

-----------------------------------------------------------------------------
(* Derived state *)

\* close(b.results) and the deferred close(b.stopCh) of Run have happened.
ResultsClosed == main \in {"drain", "closing"} \/ (main = "returned" /\ pacer # "off")
StopChClosed  == main = "returned"

\* wt.Finish() has closed the worker ticker's channel.
TickerClosed == pacer \in {"waitCtl", "lock", "stopAll", "end"}
\* The deferred close(ticks) of the pacer goroutine has happened.
TicksClosed == pacer = "end"

\* wm is held across several steps only while workers are being stopped, and
\* lock only by openClientConns.
WmFree   == ctl # "stopping" /\ pacer # "stopAll"
LockFree == main # "opening"

InState(s) == {r \in Requests : req[r] = s}
Busy(w) == \E r \in Requests : owner[r] = w /\ req[r] \in {"running", "sending"}

\* Worker.active is TRUE exactly in the loop of runWorker: whoever stops a
\* worker holds wm until the worker has received from stopCh.
Active(w) == wstate[w] = "loop"
\* At the select of runWorker: a synchronous worker makes its request inline.
AtSelect(w) == Active(w) /\ (Async \/ ~Busy(w))
\* Mutant of FirstActive: the scan for an active worker starts at the end.
LastActive(w) == Active(w) /\ \A v \in Workers : Active(v) => v <= w

FirstActive(w) == Active(w) /\ \A v \in Workers : Active(v) => w <= v
Collected == {w \in Workers : wstate[w] = "collected"}
Queued    == {w \in Workers : wstate[w] = "queued"}

-----------------------------------------------------------------------------
Init ==
    /\ main = "begin" /\ conns = 0 /\ nw = 0
    /\ ctl = "off" /\ rem = 0 /\ last = FALSE /\ pos = 0
    /\ pacer = "off" /\ counter = 0
    /\ created = 0 /\ wstate = [w \in Workers |-> "none"]
    /\ owner = [r \in Requests |-> 0]
    /\ req = [r \in Requests |-> "none"]
    /\ ignore = FALSE /\ tok = 0
    /\ stopper = [s \in Stoppers |-> "idle"]
    /\ stopReason = "normal" /\ endReason = "none"
    /\ panic = "none"

-----------------------------------------------------------------------------
(* main: Run, runWorkers, Finish *)

Lock ==
    /\ main = "begin"
    /\ main' = "opening"
    /\ UNCHANGED <<nw, conns, ctlVars, pos, pacerVars, workerVars, reqVars,
                   stopVars, endReason, panic>>

\* One iteration of openClientConns: a pending stop token or a failed dial
\* ends Run, otherwise one more connection is open.
OpenConn ==
    /\ main = "opening" /\ conns < NConns
    /\ \/ tok = 1 /\ tok' = 0 /\ main' = "abort" /\ conns' = conns
       \/ tok = 0 /\ tok' = tok /\ main' = "abort" /\ conns' = conns
       \/ tok = 0 /\ tok' = tok /\ main' = main /\ conns' = conns + 1
    /\ UNCHANGED <<nw, ctlVars, pos, pacerVars, workerVars, reqVars,
                   stopper, stopReason, ignore, endReason, panic>>

OpenDone ==
    /\ main = "opening" /\ conns = NConns
    /\ main' = "starting"
    /\ UNCHANGED <<nw, conns, ctlVars, pos, pacerVars, workerVars, reqVars,
                   stopVars, endReason, panic>>

\* Mutant of Abort: the connections that were opened are forgotten.
AbortKeepingConns ==
    /\ main = "abort"
    /\ main' = "returned"
    /\ UNCHANGED <<nw, conns, ctlVars, pos, pacerVars, workerVars, reqVars,
                   stopVars, endReason, panic>>

\* Run gives up when openClientConns fails: it closes what was opened.
Abort ==
    /\ main = "abort"
    /\ main' = "returned" /\ conns' = 0
    /\ UNCHANGED <<nw, ctlVars, pos, pacerVars, workerVars, reqVars,
                   stopVars, endReason, panic>>

\* The reporter, the worker ticker, the control and the pacer goroutines start.
StartWorkers ==
    /\ main = "starting"
    /\ main' = "await" /\ ctl' = "recv" /\ pos' = 1 /\ pacer' = "pace"
    /\ UNCHANGED <<nw, conns, rem, last, counter, workerVars, reqVars,
                   stopVars, endReason, panic>>

\* done <- struct{}{} of the pacer, <-done of runWorkers.
Done ==
    /\ main = "await" /\ pacer = "done"
    /\ main' = "count" /\ pacer' = "finish"
    /\ UNCHANGED <<nw, conns, ctlVars, pos, counter, workerVars, reqVars,
                   stopVars, endReason, panic>>

\* Mutant of CountWorkers: one worker too many is waited for.
CountOneMore ==
    /\ main = "count" /\ WmFree
    /\ main' = "collect" /\ nw' = created + 1
    /\ UNCHANGED <<conns, ctlVars, pos, pacerVars, workerVars, reqVars,
                   stopVars, endReason, panic>>

CountWorkers ==
    /\ main = "count" /\ WmFree
    /\ main' = "collect" /\ nw' = created
    /\ UNCHANGED <<conns, ctlVars, pos, pacerVars, workerVars, reqVars,
                   stopVars, endReason, panic>>

\* <-errC, as many times as workers were counted.
Collect(w) ==
    /\ main = "collect" /\ Cardinality(Collected) < nw
    /\ wstate[w] = "queued"
    /\ wstate' = [wstate EXCEPT ![w] = "collected"]
    /\ UNCHANGED <<mainVars, conns, ctlVars, pos, pacerVars, created, reqVars,
                   stopVars, endReason, panic>>

\* Mutant of CloseResults: the workers' errors are not waited for.
CloseResultsEarly ==
    /\ main = "collect"
    /\ main' = "drain"
    /\ UNCHANGED <<nw, conns, ctlVars, pos, pacerVars, workerVars, reqVars,
                   stopVars, endReason, panic>>

\* Finish closes the results channel.
CloseResults ==
    /\ main = "collect" /\ Cardinality(Collected) = nw
    /\ main' = "drain"
    /\ UNCHANGED <<nw, conns, ctlVars, pos, pacerVars, workerVars, reqVars,
                   stopVars, endReason, panic>>

\* Mutant of Finalize: the reporter is not waited for.
FinalizeEarly ==
    /\ main = "drain" /\ LockFree
    /\ main' = "closing" /\ endReason' = stopReason
    /\ UNCHANGED <<nw, conns, ctlVars, pos, pacerVars, workerVars, reqVars,
                   stopVars, panic>>

\* The reporter has drained the closed channel; Finish reads the stop reason.
Finalize ==
    /\ main = "drain" /\ InState("queued") = {} /\ LockFree
    /\ main' = "closing" /\ endReason' = stopReason
    /\ UNCHANGED <<nw, conns, ctlVars, pos, pacerVars, workerVars, reqVars,
                   stopVars, panic>>

Return ==
    /\ main = "closing"
    /\ main' = "returned" /\ conns' = 0
    /\ UNCHANGED <<nw, ctlVars, pos, pacerVars, workerVars, reqVars,
                   stopVars, endReason, panic>>

-----------------------------------------------------------------------------
(* The worker ticker goroutine and the worker control goroutine *)

AfterTick(done) == IF done THEN "exit" ELSE "recv"

\* The ticker hands its next value to `for tv := range wct`.
TickerSend ==
    /\ pos \in 1..Len(Ticks) /\ ctl = "recv" /\ ~TickerClosed
    /\ pos' = pos + 1
    /\ rem' = Ticks[pos].delta /\ last' = Ticks[pos].done
    /\ ctl' = IF Ticks[pos].delta > 0 THEN "spawn"
              ELSE IF Ticks[pos].delta < 0 THEN "lock"
              ELSE AfterTick(Ticks[pos].done)
    /\ UNCHANGED <<mainVars, conns, pacerVars, workerVars, reqVars, stopVars,
                   endReason, panic>>

\* A ticker that still has a value to send when its channel is closed.
TickerPanic ==
    /\ pos \in 1..Len(Ticks) /\ TickerClosed
    /\ panic' = "ticker"
    /\ UNCHANGED <<mainVars, conns, ctlVars, pos, pacerVars, workerVars,
                   reqVars, stopVars, endReason>>

\* Mutant of Spawn: the loop runs once more.
SpawnOneMore ==
    /\ ctl = "spawn" /\ WmFree /\ created < MaxWorkers
    /\ created' = created + 1
    /\ wstate' = [wstate EXCEPT ![created + 1] = "loop"]
    /\ rem' = rem - 1
    /\ ctl' = IF rem > 0 THEN "spawn" ELSE AfterTick(last)
    /\ UNCHANGED <<mainVars, conns, last, pos, pacerVars, reqVars, stopVars,
                   endReason, panic>>

\* Append one worker under wm and start its goroutine.
Spawn ==
    /\ ctl = "spawn" /\ WmFree /\ created < MaxWorkers
    /\ created' = created + 1
    /\ wstate' = [wstate EXCEPT ![created + 1] = "loop"]
    /\ rem' = rem - 1
    /\ ctl' = IF rem > 1 THEN "spawn" ELSE AfterTick(last)
    /\ UNCHANGED <<mainVars, conns, last, pos, pacerVars, reqVars, stopVars,
                   endReason, panic>>

LockWorkers ==
    /\ ctl = "lock" /\ WmFree
    /\ ctl' = "stopping"
    /\ UNCHANGED <<mainVars, conns, rem, last, pos, pacerVars, workerVars,
                   reqVars, stopVars, endReason, panic>>

\* wrk.Stop() on the first active worker: it blocks until the worker is back
\* at its select.
StopWorker(w) ==
    /\ ctl = "stopping" /\ rem < 0 /\ FirstActive(w) /\ AtSelect(w)
    /\ wstate' = [wstate EXCEPT ![w] = "stopped"]
    /\ rem' = rem + 1
    /\ UNCHANGED <<mainVars, conns, ctl, last, pos, pacerVars, created, reqVars,
                   stopVars, endReason, panic>>

UnlockWorkers ==
    /\ ctl = "stopping"
    /\ rem = 0 \/ \A w \in Workers : ~Active(w)
    /\ ctl' = AfterTick(last)
    /\ UNCHANGED <<mainVars, conns, rem, last, pos, pacerVars, workerVars,
                   reqVars, stopVars, endReason, panic>>

\* The range over the ticker's channel ends when the channel is closed.
CtlClosed ==
    /\ ctl = "recv" /\ TickerClosed
    /\ ctl' = "exit"
    /\ UNCHANGED <<mainVars, conns, rem, last, pos, pacerVars, workerVars,
                   reqVars, stopVars, endReason, panic>>

-----------------------------------------------------------------------------
(* The pacer goroutine *)

\* Mutant of Pace: no limit on the hits.
PaceUnlimited ==
    /\ pacer = "pace"
    /\ pacer' = "select" /\ counter' = counter + 1
    /\ UNCHANGED <<mainVars, conns, ctlVars, pos, workerVars, reqVars, stopVars,
                   endReason, panic>>

\* Mutant of Pace: stops one hit early.
PaceOneShort ==
    /\ pacer = "pace"
    /\ \/ counter >= N - 1 /\ pacer' = "done" /\ counter' = counter
       \/ counter < N - 1 /\ pacer' = "select" /\ counter' = counter + 1
    /\ UNCHANGED <<mainVars, conns, ctlVars, pos, workerVars, reqVars, stopVars,
                   endReason, panic>>

\* p.Pace stops at Max hits; otherwise the goroutine reaches the select, whose
\* evaluation calls counter.Inc() whichever branch is taken.
Pace ==
    /\ pacer = "pace"
    /\ \/ counter >= N /\ pacer' = "done" /\ counter' = counter
       \/ counter < N /\ pacer' = "select" /\ counter' = counter + 1
    /\ UNCHANGED <<mainVars, conns, ctlVars, pos, workerVars, reqVars, stopVars,
                   endReason, panic>>

\* ticks <- TickValue{...}: a worker at its select receives the tick and makes
\* the request.
Tick(w) ==
    /\ pacer = "select" /\ AtSelect(w)
    /\ pacer' = "pace"
    /\ owner' = [owner EXCEPT ![counter] = w]
    /\ req' = [req EXCEPT ![counter] = "running"]
    /\ UNCHANGED <<mainVars, conns, ctlVars, pos, counter, workerVars, stopVars,
                   endReason, panic>>

\* Mutant of StopReceived: leaves the select, not the loop.
StopBreaksSelect ==
    /\ pacer = "select" /\ tok = 1
    /\ pacer' = "pace" /\ tok' = 0
    /\ UNCHANGED <<mainVars, conns, ctlVars, pos, counter, workerVars, reqVars,
                   stopper, stopReason, ignore, endReason, panic>>

\* Mutant of StopReceived: the token is looked for between two ticks only.
StopBetweenTicks ==
    /\ pacer = "pace" /\ tok = 1
    /\ pacer' = "done" /\ tok' = 0
    /\ UNCHANGED <<mainVars, conns, ctlVars, pos, counter, workerVars, reqVars,
                   stopper, stopReason, ignore, endReason, panic>>

\* case <-b.stopCh.
StopReceived ==
    /\ pacer = "select" /\ tok = 1
    /\ pacer' = "done" /\ tok' = 0
    /\ UNCHANGED <<mainVars, conns, ctlVars, pos, counter, workerVars, reqVars,
                   stopper, stopReason, ignore, endReason, panic>>

\* The deferred wt.Finish(), <-workerTickerDone and wm.Lock().
FinishTicker ==
    /\ pacer = "finish"
    /\ pacer' = "waitCtl"
    /\ UNCHANGED <<mainVars, conns, ctlVars, pos, counter, workerVars, reqVars,
                   stopVars, endReason, panic>>

TickerDone ==
    /\ pacer = "waitCtl" /\ ctl = "exit"
    /\ pacer' = "lock"
    /\ UNCHANGED <<mainVars, conns, ctlVars, pos, counter, workerVars, reqVars,
                   stopVars, endReason, panic>>

LockAll ==
    /\ pacer = "lock" /\ WmFree
    /\ pacer' = "stopAll"
    /\ UNCHANGED <<mainVars, conns, ctlVars, pos, counter, workerVars, reqVars,
                   stopVars, endReason, panic>>

StopNext(w) ==
    /\ pacer = "stopAll" /\ FirstActive(w) /\ AtSelect(w)
    /\ wstate' = [wstate EXCEPT ![w] = "stopped"]
    /\ UNCHANGED <<mainVars, conns, ctlVars, pos, pacerVars, created, reqVars,
                   stopVars, endReason, panic>>

\* Mutant of CloseTicks: the deferred calls run in the other order.
CloseTicksFirst ==
    /\ pacer = "stopAll"
    /\ pacer' = "end"
    /\ UNCHANGED <<mainVars, conns, ctlVars, pos, counter, workerVars, reqVars,
                   stopVars, endReason, panic>>

\* wm is released and, last of the deferred calls, ticks is closed.
CloseTicks ==
    /\ pacer = "stopAll" /\ \A w \in Workers : ~Active(w)
    /\ pacer' = "end"
    /\ UNCHANGED <<mainVars, conns, ctlVars, pos, counter, workerVars, reqVars,
                   stopVars, endReason, panic>>

-----------------------------------------------------------------------------
(* Workers, requests and the reporter *)

\* runWorker returns, after g.Wait() when asynchronous, and its error is sent
\* on errC.
WorkerExit(w) ==
    /\ wstate[w] = "stopped" /\ ~Busy(w)
    /\ Cardinality(Queued) < C
    /\ wstate' = [wstate EXCEPT ![w] = "queued"]
    /\ UNCHANGED <<mainVars, conns, ctlVars, pos, pacerVars, created, reqVars,
                   stopVars, endReason, panic>>

\* The call fails before gRPC starts it (metadata or data provider error, or a
\* closed connection): there is no stats.End.
CallRefused(r) ==
    /\ req[r] = "running"
    /\ req' = [req EXCEPT ![r] = "failed"]
    /\ UNCHANGED <<mainVars, conns, ctlVars, pos, pacerVars, workerVars, owner,
                   stopVars, endReason, panic>>

\* HandleRPC on stats.End reads ignore first.
CallEnd(r) ==
    /\ req[r] = "running"
    /\ req' = [req EXCEPT ![r] = IF ignore THEN "ignored" ELSE "sending"]
    /\ UNCHANGED <<mainVars, conns, ctlVars, pos, pacerVars, workerVars, owner,
                   stopVars, endReason, panic>>

\* c.results <- &callResult{...}: blocks while the channel is full, panics
\* once it is closed.
SendResult(r) ==
    /\ req[r] = "sending"
    /\ \/ /\ ResultsClosed /\ panic' = "results" /\ req' = req
       \/ /\ ~ResultsClosed /\ Cardinality(InState("queued")) < ResultsCap
          /\ req' = [req EXCEPT ![r] = "queued"] /\ panic' = panic
    /\ UNCHANGED <<mainVars, conns, ctlVars, pos, pacerVars, workerVars, owner,
                   stopVars, endReason>>

\* The reporter receives a result and counts it.
Report(r) ==
    /\ req[r] = "queued"
    /\ req' = [req EXCEPT ![r] = "reported"]
    /\ UNCHANGED <<mainVars, conns, ctlVars, pos, pacerVars, workerVars, owner,
                   stopVars, endReason, panic>>

-----------------------------------------------------------------------------
(* Stop(reason), called by the interrupt and the duration goroutines of Run *)

\* b.stopCh <- true: panics when Run has returned, blocks when a token is
\* already there.
SignalStop(s) ==
    /\ stopper[s] = "idle"
    /\ \/ StopChClosed /\ panic' = "stopCh" /\ UNCHANGED <<tok, stopper>>
       \/ /\ ~StopChClosed /\ tok = 0
          /\ tok' = 1 /\ stopper' = [stopper EXCEPT ![s] = "reason"]
          /\ panic' = panic
    /\ UNCHANGED <<mainVars, conns, ctlVars, pos, pacerVars, workerVars, reqVars,
                   stopReason, ignore, endReason>>

AfterReason == IF ZStop = "wait" THEN "done" ELSE ZStop

SetReason(s) ==
    /\ stopper[s] = "reason" /\ LockFree
    /\ stopReason' = s
    /\ stopper' = [stopper EXCEPT ![s] = AfterReason]
    /\ UNCHANGED <<mainVars, conns, ctlVars, pos, pacerVars, workerVars, reqVars,
                   tok, ignore, endReason, panic>>

IgnoreResults(s) ==
    /\ stopper[s] = "ignore"
    /\ ignore' = TRUE
    /\ stopper' = [stopper EXCEPT ![s] = "close"]
    /\ UNCHANGED <<mainVars, conns, ctlVars, pos, pacerVars, workerVars, reqVars,
                   tok, stopReason, endReason, panic>>

StopClose(s) ==
    /\ stopper[s] = "close" /\ LockFree
    /\ conns' = 0
    /\ stopper' = [stopper EXCEPT ![s] = "done"]
    /\ UNCHANGED <<mainVars, ctlVars, pos, pacerVars, workerVars, reqVars,
                   tok, stopReason, ignore, endReason, panic>>

-----------------------------------------------------------------------------
MainNext == \/ Lock \/ OpenConn \/ OpenDone \/ Abort \/ StartWorkers \/ Done
            \/ CountWorkers \/ CloseResults \/ Finalize \/ Return
            \/ \E w \in Workers : Collect(w)
TickerNext == TickerSend \/ TickerPanic
CtlNext == \/ Spawn \/ LockWorkers \/ UnlockWorkers \/ CtlClosed
           \/ \E w \in Workers : StopWorker(w)
PacerNext == \/ Pace \/ StopReceived \/ FinishTicker \/ TickerDone \/ LockAll
             \/ CloseTicks
             \/ \E w \in Workers : Tick(w) \/ StopNext(w)
RequestNext(r) == CallRefused(r) \/ CallEnd(r) \/ SendResult(r) \/ Report(r)
StopNextStep(s) == SignalStop(s) \/ SetReason(s) \/ IgnoreResults(s) \/ StopClose(s)

Step == \/ MainNext \/ TickerNext \/ CtlNext \/ PacerNext
        \/ \E w \in Workers : WorkerExit(w)
        \/ \E r \in Requests : RequestNext(r)
        \/ \E s \in Stoppers : StopNextStep(s)

\* The process may stop once Run has returned, or by a panic.
Terminated == (main = "returned" \/ panic # "none") /\ UNCHANGED vars

Next == (panic = "none" /\ Step) \/ Terminated

Spec == Init /\ [][Next]_vars

\* Every goroutine keeps running.  A request ends because it carries a timeout
\* (config.timeout); nobody is obliged to call Stop.
Fairness ==
    /\ WF_vars(panic = "none" /\ MainNext)
    /\ WF_vars(panic = "none" /\ TickerNext)
    /\ WF_vars(panic = "none" /\ CtlNext)
    /\ WF_vars(panic = "none" /\ PacerNext)
    /\ \A w \in Workers : WF_vars(panic = "none" /\ WorkerExit(w))
    /\ \A r \in Requests : WF_vars(panic = "none" /\ RequestNext(r))
    /\ \A s \in Stoppers :
          WF_vars(panic = "none" /\ (SetReason(s) \/ IgnoreResults(s) \/ StopClose(s)))

FairSpec == Spec /\ Fairness

-----------------------------------------------------------------------------
(* Properties *)

\* Every variable has its type.
TypeOK ==
    /\ main \in {"begin", "opening", "abort", "starting", "await", "count",
                 "collect", "drain", "closing", "returned"}
    /\ conns \in 0..NConns
    /\ nw \in 0..MaxWorkers
    /\ ctl \in {"off", "recv", "spawn", "lock", "stopping", "exit"}
    /\ rem \in Int
    /\ last \in BOOLEAN
    /\ pos \in Nat
    /\ pacer \in {"off", "pace", "select", "done", "finish", "waitCtl", "lock",
                  "stopAll", "end"}
    /\ counter \in 0..N
    /\ created \in 0..MaxWorkers
    /\ wstate \in [Workers -> {"none", "loop", "stopped", "queued", "collected"}]
    /\ owner \in [Requests -> 0..MaxWorkers]
    /\ req \in [Requests -> {"none", "running", "sending", "queued", "reported",
                             "ignored", "failed"}]
    /\ ignore \in BOOLEAN
    /\ tok \in 0..1
    /\ stopper \in [Stoppers -> {"idle", "reason", "ignore", "close", "done"}]
    /\ stopReason \in {"normal"} \cup Stoppers
    /\ endReason \in {"none", "normal"} \cup Stoppers
    /\ panic \in {"none", "ticker", "results", "stopCh"}

\* "It blocks until all work is done" (Run): when the results channel is
\* closed no worker is in a request, so no result is sent on a closed channel.
\* runWorkers counts the workers while the control goroutine may still append
\* some, so this rests on the order in which workers are stopped.
AllWorkDone == ResultsClosed => \A r \in Requests : req[r] \notin {"running", "sending"}

\* The ticks channel is closed only when no worker is left in its loop: a
\* worker that received from the closed channel would make a request with the
\* zero TickValue.  This is the order of the pacer goroutine's deferred calls.
NoSpuriousRequest == TicksClosed => \A w \in Workers : ~Active(w)

\* Workers are retired first in, first out, whether the ticker lowers the
\* concurrency or the pacer ends the run.
StoppedInOrder ==
    \A v, w \in Workers : v < w /\ Active(v) /\ w <= created => Active(w)

\* The number of workers after the first i ticks of the schedule: what their
\* deltas add up to, never less than zero.
Expected[i \in 0..Len(Ticks)] ==
    IF i = 0 THEN 0
    ELSE LET sum == Expected[i - 1] + Ticks[i].delta
         IN  IF sum < 0 THEN 0 ELSE sum

ActiveWorkers == {w \in Workers : Active(w)}

\* The concurrency schedule is followed: once the control goroutine has applied
\* a tick, the number of active workers is what the deltas so far add up to.
ScheduleFollowed ==
    ctl \in {"recv", "exit"} /\ pacer \notin {"stopAll", "end"} =>
        Cardinality(ActiveWorkers) = Expected[pos - 1]

\* When the report is made every request that was issued has been counted, was
\* ignored by request of Stop, or failed before the call: no result is lost in
\* the channel, and none is reported that was not issued.
ReportComplete ==
    main \in {"closing", "returned"} =>
        \A r \in Requests :
            req[r] \in {"none", "reported", "ignored", "failed"}

\* A run that nobody stops issues exactly the configured number of requests.
IssuesAllRequests ==
    /\ main \in {"drain", "closing"}
    /\ \A s \in Stoppers : stopper[s] = "idle"
    => \A r \in Requests : req[r] # "none"

\* Whatever ended the run (normal end, failed dial, stop while connecting, Stop
\* closing the connections at the same time), Run leaves no connection open.
NoConnectionLeft == main = "returned" => conns = 0

\* reason.go: "ReasonTimeout indicates run ended due to Z parameter timeout".
\* The stop branch of the pacer's select leaves counter one ahead of the
\* requests, so a report made then should not carry the normal reason.
EndReasonTold ==
    /\ main \in {"closing", "returned"}
    /\ counter > Cardinality({r \in Requests : req[r] # "none"})
    => endReason # "normal"

\* The schedule has retired every worker and nobody has called Stop: the pacer
\* waits for a worker to take its tick.
Drained ==
    /\ pacer = "select" /\ \A w \in Workers : ~Active(w)
    /\ \A s \in Stoppers : stopper[s] = "idle"

\* A run returns (or the process dies on one of the channel faults), unless its
\* schedule leaves it without workers: no goroutine waits for another for ever.
RunReturns == <>(main = "returned" \/ panic # "none") \/ <>[]Drained

\* Once Stop has put its token in the channel the run ends, even when the
\* schedule has retired every worker and the pacer is blocked on its tick.
StopEndsRun ==
    \A s \in Stoppers :
        stopper[s] = "reason" ~> (main = "returned" \/ panic # "none")

-----------------------------------------------------------------------------
(* The run engine implements the promise of LoadRun *)

Promise == INSTANCE LoadRun WITH
    Total <- N,
    phase <- IF main \in {"closing", "returned"} THEN "reported"
             ELSE IF pacer \in {"off", "pace", "select"} THEN "issuing"
             ELSE "draining",
    issued <- {r \in Requests : req[r] # "none"},
    finished <- {r \in Requests : req[r] \in {"reported", "ignored", "failed"}}

\* Requests are issued in order, each finishes once, and the report is made
\* when the last outstanding one has finished.
ImplementsLoadRun == Promise!RunSpec
=============================================================================
