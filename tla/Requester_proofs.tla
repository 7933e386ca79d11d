--------------------------- MODULE Requester_proofs ---------------------------
(***************************************************************************)
(* Proofs about the run engine, for every number of requests, workers and  *)
(* connections, every schedule of the worker ticker and every Stop caller. *)
(***************************************************************************)
EXTENDS Requester, FiniteSetTheorems, SequenceTheorems, WellFoundedInduction,
        TLAPS

-----------------------------------------------------------------------------
(* Type correctness *)

\* counter has been incremented when the pacer is at its select: the request
\* it hands over is one of 1..N.
CounterOK == pacer = "select" => counter >= 1

\* A value of the ticker is a delta and a flag.
LEMMA TickType ==
    ASSUME NEW i \in 1..Len(Ticks)
    PROVE  Ticks[i].delta \in Int /\ Ticks[i].done \in BOOLEAN
  <1> DEFINE TickValue == [delta: Int, done: BOOLEAN]
  <1>1. Ticks \in Seq(TickValue)
    BY RequesterAssumption DEF RequesterAssumption
  <1>2. Ticks[i] \in TickValue
    <2> HIDE DEF TickValue
    <2> QED  BY <1>1, ElementOfSeq
  <1> QED  BY <1>2

\* Every variable keeps its type, whatever the schedule and the callers of Stop
\* do: in particular the counter never exceeds N and at most one token is in
\* stopCh.
LEMMA TypeStep ==
    ASSUME TypeOK, CounterOK, [Next]_vars
    PROVE  TypeOK' /\ CounterOK'
  <1> USE RequesterAssumption DEF RequesterAssumption, TypeOK, CounterOK,
          mainVars, ctlVars, pacerVars, workerVars, reqVars, stopVars, vars
  <1>1. CASE MainNext
    <2>1. CASE Lock \/ OpenConn \/ OpenDone \/ Abort \/ StartWorkers
      BY <2>1 DEF Lock, OpenConn, OpenDone, Abort, StartWorkers
    <2>2. CASE Done \/ CountWorkers \/ CloseResults
      BY <2>2 DEF Done, CountWorkers, CloseResults
    <2>3. CASE Finalize \/ Return
      BY <2>3 DEF Finalize, Return
    <2>4. CASE \E w \in Workers : Collect(w)
      BY <2>4 DEF Collect
    <2> QED  BY <1>1, <2>1, <2>2, <2>3, <2>4 DEF MainNext
  <1>2. CASE TickerNext
    <2>1. CASE TickerSend
      <3>1. Ticks[pos].delta \in Int /\ Ticks[pos].done \in BOOLEAN
        BY <2>1, TickType DEF TickerSend
      <3> QED  BY <2>1, <3>1 DEF TickerSend, AfterTick
    <2>2. CASE TickerPanic
      BY <2>2 DEF TickerPanic
    <2> QED  BY <1>2, <2>1, <2>2 DEF TickerNext
  <1>3. CASE CtlNext
    <2>1. CASE Spawn
      BY <2>1 DEF Spawn, Workers, AfterTick
    <2>2. CASE LockWorkers \/ UnlockWorkers \/ CtlClosed
      BY <2>2 DEF LockWorkers, UnlockWorkers, CtlClosed, AfterTick
    <2>3. CASE \E w \in Workers : StopWorker(w)
      BY <2>3 DEF StopWorker
    <2> QED  BY <1>3, <2>1, <2>2, <2>3 DEF CtlNext
  <1>4. CASE PacerNext
    <2>1. CASE Pace
      BY <2>1 DEF Pace
    <2>2. CASE StopReceived \/ FinishTicker \/ TickerDone \/ LockAll \/ CloseTicks
      BY <2>2 DEF StopReceived, FinishTicker, TickerDone, LockAll, CloseTicks
    <2>3. ASSUME NEW w \in Workers, Tick(w)
          PROVE  TypeOK' /\ CounterOK'
      BY <2>3 DEF Tick, Requests, Workers
    <2>4. CASE \E w \in Workers : StopNext(w)
      BY <2>4 DEF StopNext
    <2> QED  BY <1>4, <2>1, <2>2, <2>3, <2>4 DEF PacerNext
  <1>5. CASE \E w \in Workers : WorkerExit(w)
    BY <1>5 DEF WorkerExit
  <1>6. ASSUME NEW r \in Requests, RequestNext(r)
        PROVE  TypeOK' /\ CounterOK'
    <2>1. CASE CallRefused(r)  BY <2>1 DEF CallRefused
    <2>2. CASE CallEnd(r)      BY <2>2 DEF CallEnd
    <2>3. CASE SendResult(r)   BY <2>3 DEF SendResult
    <2>4. CASE Report(r)       BY <2>4 DEF Report
    <2> QED  BY <1>6, <2>1, <2>2, <2>3, <2>4 DEF RequestNext
  <1>7. ASSUME NEW s \in Stoppers, StopNextStep(s)
        PROVE  TypeOK' /\ CounterOK'
    <2>1. CASE SignalStop(s)     BY <2>1 DEF SignalStop, StopChClosed
    <2>2. CASE SetReason(s)
      <3>1. AfterReason \in {"ignore", "close", "done"}
        BY DEF AfterReason
      <3>2. stopper' = [stopper EXCEPT ![s] = AfterReason]
        BY <2>2 DEF SetReason
      <3>3. stopper' \in [Stoppers -> {"idle", "reason", "ignore", "close", "done"}]
        BY <3>1, <3>2
      <3> QED  BY <2>2, <3>3 DEF SetReason
    <2>3. CASE IgnoreResults(s)  BY <2>3 DEF IgnoreResults
    <2>4. CASE StopClose(s)      BY <2>4 DEF StopClose
    <2> QED  BY <1>7, <2>1, <2>2, <2>3, <2>4 DEF StopNextStep
  <1>8. CASE UNCHANGED vars
    BY <1>8
  <1> QED
    BY <1>1, <1>2, <1>3, <1>4, <1>5, <1>6, <1>7, <1>8
    DEF Next, Step, Terminated

LEMMA TypeInit == Init => TypeOK /\ CounterOK
  <1> SUFFICES ASSUME Init PROVE TypeOK /\ CounterOK
    OBVIOUS
  <1>1. /\ conns \in 0..NConns /\ nw \in 0..MaxWorkers /\ created \in 0..MaxWorkers
        /\ counter \in 0..N /\ rem \in Int /\ pos \in Nat /\ tok \in 0..1
    BY RequesterAssumption DEF RequesterAssumption, Init
  <1>2. /\ last \in BOOLEAN /\ ignore \in BOOLEAN
    BY DEF Init
  <1>3. /\ wstate \in [Workers -> {"none", "loop", "stopped", "queued", "collected"}]
        /\ stopper \in [Stoppers -> {"idle", "reason", "ignore", "close", "done"}]
    BY DEF Init
  <1>4. /\ owner \in [Requests -> 0..MaxWorkers]
        /\ req \in [Requests -> {"none", "running", "sending", "queued", "reported",
                                 "ignored", "failed"}]
    BY RequesterAssumption DEF RequesterAssumption, Init
  <1>5. /\ main = "begin" /\ ctl = "off" /\ pacer = "off" /\ panic = "none"
        /\ stopReason = "normal" /\ endReason = "none"
    BY DEF Init
  <1> QED  BY <1>1, <1>2, <1>3, <1>4, <1>5 DEF TypeOK, CounterOK

\* The state of every goroutine stays within its program counters and bounds.
THEOREM TypeCorrect == Spec => [](TypeOK /\ CounterOK)
  BY TypeInit, TypeStep, PTL DEF Spec

-----------------------------------------------------------------------------
(* Order invariants: which goroutine can be where *)

\* main and the pacer agree on how far the run has come.
PhaseOK ==
    /\ main \in {"begin", "opening", "abort", "starting"} => pacer = "off"
    /\ main \in {"count", "collect", "drain", "closing"} =>
           pacer \in {"finish", "waitCtl", "lock", "stopAll", "end"}
    /\ main = "returned" =>
           pacer \in {"off", "finish", "waitCtl", "lock", "stopAll", "end"}

\* Nothing happens before the run starts, and the control goroutine has left
\* its loop when the pacer goes on to stop every worker.
QuietOK ==
    /\ pacer = "off" => /\ ctl = "off" /\ pos = 0
                        /\ \A r \in Requests : req[r] = "none"
    /\ pacer \in {"lock", "stopAll", "end"} => ctl = "exit"

\* Worker w exists exactly when the workers slice reaches it.
CreatedOK == \A w \in Workers : wstate[w] = "none" <=> w > created

\* The order part of the inductive invariant: every step keeps it.
OrderInv == PhaseOK /\ QuietOK /\ CreatedOK /\ StoppedInOrder /\ NoSpuriousRequest

LEMMA OrderStep ==
    ASSUME TypeOK, CounterOK, OrderInv, [Next]_vars
    PROVE  OrderInv'
  <1> USE RequesterAssumption DEF RequesterAssumption, TypeOK, CounterOK,
          mainVars, ctlVars, pacerVars, workerVars, reqVars, stopVars, vars,
          OrderInv, PhaseOK, QuietOK, CreatedOK, StoppedInOrder,
          NoSpuriousRequest, TicksClosed, Active
  <1>1. CASE MainNext
    <2>1. CASE Lock \/ OpenConn \/ OpenDone \/ Abort
      BY <2>1 DEF Lock, OpenConn, OpenDone, Abort
    <2>2. CASE StartWorkers \/ Done \/ CountWorkers \/ CloseResults
      BY <2>2 DEF StartWorkers, Done, CountWorkers, CloseResults
    <2>3. CASE Finalize \/ Return
      BY <2>3 DEF Finalize, Return
    <2>4. ASSUME NEW w \in Workers, Collect(w)
          PROVE  OrderInv'
      BY <2>4 DEF Collect, Workers
    <2> QED  BY <1>1, <2>1, <2>2, <2>3, <2>4 DEF MainNext
  <1>2. CASE TickerNext
    BY <1>2 DEF TickerNext, TickerSend, TickerPanic, AfterTick, TickerClosed
  <1>3. CASE CtlNext
    <2>1. CASE Spawn
      <3>1. /\ ctl # "exit" /\ pacer \notin {"off", "lock", "stopAll", "end"}
            /\ created' = created + 1 /\ created + 1 \in Workers
            /\ wstate' = [wstate EXCEPT ![created + 1] = "loop"]
            /\ UNCHANGED <<main, pacer, pos, req>>
        BY <2>1 DEF Spawn, Workers
      <3>2. CreatedOK'
        BY <3>1 DEF Workers
      <3>3. StoppedInOrder'
        BY <3>1 DEF Workers
      <3> QED  BY <3>1, <3>2, <3>3
    <2>2. CASE LockWorkers \/ UnlockWorkers \/ CtlClosed
      BY <2>2 DEF LockWorkers, UnlockWorkers, CtlClosed, AfterTick, TickerClosed
    <2>3. ASSUME NEW w \in Workers, StopWorker(w)
          PROVE  OrderInv'
      BY <2>3 DEF StopWorker, FirstActive, Workers
    <2> QED  BY <1>3, <2>1, <2>2, <2>3 DEF CtlNext
  <1>4. CASE PacerNext
    <2>1. CASE Pace \/ StopReceived \/ FinishTicker \/ TickerDone \/ LockAll
      BY <2>1 DEF Pace, StopReceived, FinishTicker, TickerDone, LockAll
    <2>2. CASE CloseTicks
      BY <2>2 DEF CloseTicks
    <2>3. ASSUME NEW w \in Workers, Tick(w)
          PROVE  OrderInv'
      BY <2>3 DEF Tick
    <2>4. ASSUME NEW w \in Workers, StopNext(w)
          PROVE  OrderInv'
      BY <2>4 DEF StopNext, FirstActive, Workers
    <2> QED  BY <1>4, <2>1, <2>2, <2>3, <2>4 DEF PacerNext
  <1>5. ASSUME NEW w \in Workers, WorkerExit(w)
        PROVE  OrderInv'
    BY <1>5 DEF WorkerExit, Workers
  <1>6. ASSUME NEW r \in Requests, RequestNext(r)
        PROVE  OrderInv'
    BY <1>6 DEF RequestNext, CallRefused, CallEnd, SendResult, Report
  <1>7. ASSUME NEW s \in Stoppers, StopNextStep(s)
        PROVE  OrderInv'
    BY <1>7 DEF StopNextStep, SignalStop, SetReason, IgnoreResults, StopClose
  <1>8. CASE UNCHANGED vars
    BY <1>8
  <1> QED
    BY <1>1, <1>2, <1>3, <1>4, <1>5, <1>6, <1>7, <1>8
    DEF Next, Step, Terminated

LEMMA OrderInit == Init => OrderInv
  BY RequesterAssumption
  DEF RequesterAssumption, Init, OrderInv, PhaseOK, QuietOK, CreatedOK,
      StoppedInOrder, NoSpuriousRequest, TicksClosed, Active, Workers

\* The order invariant holds in every reachable state, asynchronous runs
\* included.
LEMMA OrderCorrect == Spec => []OrderInv
  <1>1. TypeOK /\ CounterOK /\ OrderInv /\ [Next]_vars => OrderInv'
    BY OrderStep
  <1> QED  BY OrderInit, TypeCorrect, <1>1, PTL DEF Spec

\* No worker is in its loop when the ticks channel is closed, so none makes a
\* request with the zero TickValue; workers are retired first in, first out.
THEOREM RetireCorrect == Spec => [](NoSpuriousRequest /\ StoppedInOrder)
  <1>1. OrderInv => NoSpuriousRequest /\ StoppedInOrder
    BY DEF OrderInv
  <1> QED  BY OrderCorrect, <1>1, PTL

-----------------------------------------------------------------------------
(* A synchronous run reports when all work is done *)

\* A synchronous worker that is in a request has not been stopped, and once
\* runWorkers has counted the workers it is one of those that were counted.
SyncInv ==
    /\ \A r \in Requests : req[r] \in {"running", "sending"} =>
           owner[r] \in Workers /\ Active(owner[r])
    /\ \A r \in Requests :
           /\ req[r] \in {"running", "sending"}
           /\ main \in {"collect", "drain", "closing", "returned"}
           => owner[r] <= nw
    /\ ResultsClosed => Cardinality(Collected) = nw

LEMMA SyncStep ==
    ASSUME ~Async, TypeOK, CounterOK, OrderInv, SyncInv, [Next]_vars
    PROVE  SyncInv'
  <1> USE RequesterAssumption DEF RequesterAssumption, TypeOK,
          mainVars, ctlVars, pacerVars, workerVars, reqVars, stopVars, vars,
          OrderInv, PhaseOK, SyncInv, ResultsClosed, Active
  <1>0. UNCHANGED wstate => Collected' = Collected
    BY DEF Collected
  <1>1. CASE MainNext
    <2>1. CASE Lock \/ OpenConn \/ OpenDone \/ StartWorkers \/ Done
      BY <1>0, <2>1 DEF Lock, OpenConn, OpenDone, StartWorkers, Done
    <2>2. CASE Abort
      BY <1>0, <2>2 DEF Abort, QuietOK
    <2>3. CASE CountWorkers
      BY <1>0, <2>3 DEF CountWorkers, CreatedOK, Workers
    <2>4. CASE CloseResults \/ Finalize \/ Return
      BY <1>0, <2>4 DEF CloseResults, Finalize, Return
    <2>5. ASSUME NEW w \in Workers, Collect(w)
          PROVE  SyncInv'
      BY <2>5 DEF Collect
    <2> QED  BY <1>1, <2>1, <2>2, <2>3, <2>4, <2>5 DEF MainNext
  <1>2. CASE TickerNext
    BY <1>0, <1>2 DEF TickerNext, TickerSend, TickerPanic
  <1>3. CASE CtlNext
    <2>1. CASE Spawn
      <3>1. created + 1 \in Workers /\ wstate[created + 1] = "none"
        BY <2>1 DEF Spawn, Workers, CreatedOK
      <3>2. Collected' = Collected
        BY <2>1, <3>1 DEF Spawn, Collected
      <3> QED  BY <2>1, <3>1, <3>2 DEF Spawn
    <2>2. CASE LockWorkers \/ UnlockWorkers \/ CtlClosed
      BY <1>0, <2>2 DEF LockWorkers, UnlockWorkers, CtlClosed
    <2>3. ASSUME NEW w \in Workers, StopWorker(w)
          PROVE  SyncInv'
      <3>1. Collected' = Collected
        BY <2>3 DEF StopWorker, AtSelect, Collected
      <3> QED  BY <2>3, <3>1 DEF StopWorker, AtSelect, Busy
    <2> QED  BY <1>3, <2>1, <2>2, <2>3 DEF CtlNext
  <1>4. CASE PacerNext
    <2>1. CASE Pace \/ StopReceived \/ FinishTicker \/ TickerDone \/ LockAll \/ CloseTicks
      BY <1>0, <2>1 DEF Pace, StopReceived, FinishTicker, TickerDone, LockAll, CloseTicks
    <2>2. ASSUME NEW w \in Workers, Tick(w)
          PROVE  SyncInv'
      BY <1>0, <2>2 DEF Tick, AtSelect
    <2>3. ASSUME NEW w \in Workers, StopNext(w)
          PROVE  SyncInv'
      <3>1. Collected' = Collected
        BY <2>3 DEF StopNext, AtSelect, Collected
      <3> QED  BY <2>3, <3>1 DEF StopNext, AtSelect, Busy
    <2> QED  BY <1>4, <2>1, <2>2, <2>3 DEF PacerNext
  <1>5. ASSUME NEW w \in Workers, WorkerExit(w)
        PROVE  SyncInv'
    <2>1. Collected' = Collected
      BY <1>5 DEF WorkerExit, Collected
    <2> QED  BY <1>5, <2>1 DEF WorkerExit
  <1>6. ASSUME NEW r \in Requests, RequestNext(r)
        PROVE  SyncInv'
    BY <1>0, <1>6 DEF RequestNext, CallRefused, CallEnd, SendResult, Report
  <1>7. ASSUME NEW s \in Stoppers, StopNextStep(s)
        PROVE  SyncInv'
    BY <1>0, <1>7 DEF StopNextStep, SignalStop, SetReason, IgnoreResults, StopClose
  <1>8. CASE UNCHANGED vars
    BY <1>0, <1>8
  <1> QED
    BY <1>1, <1>2, <1>3, <1>4, <1>5, <1>6, <1>7, <1>8
    DEF Next, Step, Terminated

LEMMA SyncInit == Init => SyncInv
  BY DEF Init, SyncInv, ResultsClosed

\* If a counted worker were still in a request, all the collected workers would
\* have a smaller index, hence be fewer than the number counted.
LEMMA SyncDone ==
    ASSUME TypeOK, OrderInv, SyncInv
    PROVE  AllWorkDone
  <1> SUFFICES ASSUME ResultsClosed,
                      NEW r \in Requests, req[r] \in {"running", "sending"}
               PROVE  FALSE
    BY DEF AllWorkDone
  <1> DEFINE w == owner[r]
  <1>1. w \in Workers /\ Active(w)
    BY DEF SyncInv
  <1>2. w <= nw
    <2>1. main \in {"collect", "drain", "closing", "returned"}
      BY DEF ResultsClosed
    <2> QED  BY <2>1 DEF SyncInv
  <1>3. Collected \subseteq 1..(w - 1)
    <2> SUFFICES ASSUME NEW v \in Workers, wstate[v] = "collected", ~(v < w)
                 PROVE  FALSE
      BY <1>1 DEF Collected, Workers
    <2>1. v # w
      BY <1>1 DEF Active
    <2>2. w < v /\ v <= created
      BY <1>1, <2>1, RequesterAssumption
      DEF OrderInv, CreatedOK, Workers, RequesterAssumption, TypeOK
    <2>3. Active(v)
      BY <1>1, <2>2 DEF OrderInv, StoppedInOrder
    <2> QED  BY <2>3 DEF Active
  <1>4. IsFiniteSet(1..(w - 1)) /\ Cardinality(1..(w - 1)) = w - 1
    <2>1. w \in Int /\ w >= 1
      BY <1>1 DEF Workers
    <2> QED  BY <2>1, FS_Interval
  <1>5. Cardinality(Collected) <= w - 1
    BY <1>3, <1>4, FS_Subset
  <1>6. Cardinality(Collected) = nw
    BY DEF SyncInv
  <1> QED
    BY <1>1, <1>2, <1>5, <1>6 DEF TypeOK, Workers

\* "It blocks until all work is done": in a run with synchronous workers no
\* request is in progress when the results channel is closed, for every number
\* of workers, every schedule and every call of Stop.
THEOREM SyncAllWorkDone == ~Async /\ Spec => []AllWorkDone
  <1>1. ~Async /\ TypeOK /\ CounterOK /\ OrderInv /\ SyncInv /\ [Next]_vars => SyncInv'
    BY SyncStep
  <1>2. TypeOK /\ OrderInv /\ SyncInv => AllWorkDone
    BY SyncDone
  <1>3. CASE Async
    BY <1>3
  <1>4. CASE ~Async
    <2>1. TypeOK /\ CounterOK /\ OrderInv /\ SyncInv /\ [Next]_vars => SyncInv'
      BY <1>1, <1>4
    <2>2. Spec => []SyncInv
      BY SyncInit, TypeCorrect, OrderCorrect, <2>1, PTL DEF Spec
    <2> QED  BY <2>2, TypeCorrect, OrderCorrect, <1>2, PTL
  <1> QED  BY <1>3, <1>4

-----------------------------------------------------------------------------
(* The run engine implements LoadRun *)

\* Requests are issued in order: the pacer's counter tells which ones were.
IssueInv ==
    /\ pacer \in {"off", "pace"} =>
           \A r \in Requests : req[r] # "none" <=> r <= counter
    /\ pacer = "select" =>
           \A r \in Requests : req[r] # "none" <=> r < counter

\* What the refinement needs of a state beyond the order invariant.
ReportInv == IssueInv /\ ReportComplete

LEMMA ReportStep ==
    ASSUME TypeOK, CounterOK, OrderInv, AllWorkDone, ReportInv, [Next]_vars
    PROVE  ReportInv'
  <1> USE RequesterAssumption DEF RequesterAssumption, TypeOK, CounterOK,
          mainVars, ctlVars, pacerVars, workerVars, reqVars, stopVars, vars,
          OrderInv, PhaseOK, ReportInv, IssueInv, ReportComplete
  <1>1. CASE MainNext
    <2>1. CASE Lock \/ OpenConn \/ OpenDone
      BY <2>1 DEF Lock, OpenConn, OpenDone
    <2>2. CASE Abort \/ StartWorkers
      BY <2>2 DEF Abort, StartWorkers, QuietOK
    <2>3. CASE Done \/ CountWorkers \/ CloseResults \/ Return
      BY <2>3 DEF Done, CountWorkers, CloseResults, Return
    <2>4. CASE Finalize
      BY <2>4 DEF Finalize, AllWorkDone, ResultsClosed, InState
    <2>5. CASE \E w \in Workers : Collect(w)
      BY <2>5 DEF Collect
    <2> QED  BY <1>1, <2>1, <2>2, <2>3, <2>4, <2>5 DEF MainNext
  <1>2. CASE TickerNext
    BY <1>2 DEF TickerNext, TickerSend, TickerPanic
  <1>3. CASE CtlNext
    BY <1>3 DEF CtlNext, Spawn, LockWorkers, UnlockWorkers, CtlClosed, StopWorker
  <1>4. CASE PacerNext
    <2>1. CASE Pace
      BY <2>1 DEF Pace, Requests
    <2>2. CASE StopReceived \/ FinishTicker \/ TickerDone \/ LockAll \/ CloseTicks
      BY <2>2 DEF StopReceived, FinishTicker, TickerDone, LockAll, CloseTicks
    <2>3. ASSUME NEW w \in Workers, Tick(w)
          PROVE  ReportInv'
      BY <2>3 DEF Tick, Requests
    <2>4. CASE \E w \in Workers : StopNext(w)
      BY <2>4 DEF StopNext
    <2> QED  BY <1>4, <2>1, <2>2, <2>3, <2>4 DEF PacerNext
  <1>5. CASE \E w \in Workers : WorkerExit(w)
    BY <1>5 DEF WorkerExit
  <1>6. ASSUME NEW r \in Requests, RequestNext(r)
        PROVE  ReportInv'
    <2>1. /\ req[r] \in {"running", "sending", "queued"}
          /\ req' = [req EXCEPT ![r] = req'[r]] /\ req'[r] # "none"
          /\ UNCHANGED <<main, pacer, counter>>
      BY <1>6 DEF RequestNext, CallRefused, CallEnd, SendResult, Report
    <2>2. IssueInv'
      BY <2>1
    <2>3. ReportComplete'
      BY <2>1
    <2> QED  BY <2>2, <2>3
  <1>7. ASSUME NEW s \in Stoppers, StopNextStep(s)
        PROVE  ReportInv'
    BY <1>7 DEF StopNextStep, SignalStop, SetReason, IgnoreResults, StopClose
  <1>8. CASE UNCHANGED vars
    BY <1>8
  <1> QED
    BY <1>1, <1>2, <1>3, <1>4, <1>5, <1>6, <1>7, <1>8
    DEF Next, Step, Terminated

LEMMA ReportInit == Init => ReportInv
  BY RequesterAssumption
  DEF RequesterAssumption, Init, ReportInv, IssueInv, ReportComplete, Requests

\* When a synchronous run makes its report every request that was issued has
\* been counted, was ignored by request of Stop, or failed before the call.
THEOREM SyncReportComplete == ~Async /\ Spec => [](ReportInv /\ ReportComplete)
  <1>1. TypeOK /\ CounterOK /\ OrderInv /\ AllWorkDone /\ ReportInv /\ [Next]_vars
        => ReportInv'
    BY ReportStep
  <1>2. ReportInv => ReportComplete
    BY DEF ReportInv
  <1> QED
    BY <1>1, <1>2, ReportInit, TypeCorrect, OrderCorrect, SyncAllWorkDone, PTL
    DEF Spec

\* The step simulation: each step of the run engine is a step of LoadRun or
\* leaves its variables unchanged.
LEMMA RunStep ==
    ASSUME TypeOK, CounterOK, OrderInv, AllWorkDone, ReportInv, [Next]_vars
    PROVE  [Promise!RunNext]_(Promise!runVars)
  <1> USE DEF mainVars, ctlVars, pacerVars, workerVars, reqVars, stopVars, vars,
          Promise!runVars
  <1>1. CASE MainNext
    <2>1. CASE Lock \/ OpenConn \/ OpenDone \/ StartWorkers
      BY <2>1 DEF Lock, OpenConn, OpenDone, StartWorkers, OrderInv, PhaseOK
    <2>2. CASE Abort
      <3>1. Promise!Abandon
        BY <2>2 DEF Abort, Promise!Abandon, OrderInv, PhaseOK, QuietOK
      <3> QED  BY <3>1 DEF Promise!RunNext
    <2>3. CASE Done \/ CountWorkers \/ CloseResults \/ Return
      BY <2>3 DEF Done, CountWorkers, CloseResults, Return
    <2>4. CASE Finalize
      <3>1. \A r \in Requests : req[r] \in {"none", "reported", "ignored", "failed"}
        BY <2>4 DEF Finalize, AllWorkDone, ResultsClosed, InState, TypeOK
      <3>2. Promise!MakeReport
        BY <2>4, <3>1 DEF Finalize, Promise!MakeReport, OrderInv, PhaseOK
      <3> QED  BY <3>2 DEF Promise!RunNext
    <2>5. CASE \E w \in Workers : Collect(w)
      BY <2>5 DEF Collect
    <2> QED  BY <1>1, <2>1, <2>2, <2>3, <2>4, <2>5 DEF MainNext
  <1>2. CASE TickerNext
    BY <1>2 DEF TickerNext, TickerSend, TickerPanic
  <1>3. CASE CtlNext
    BY <1>3 DEF CtlNext, Spawn, LockWorkers, UnlockWorkers, CtlClosed, StopWorker
  <1>4. CASE PacerNext
    <2>1. CASE Pace \/ StopReceived
      <3>1. main \notin {"closing", "returned"}
        BY <2>1 DEF Pace, StopReceived, OrderInv, PhaseOK
      <3>2. Promise!EndOfRun \/ UNCHANGED Promise!runVars
        BY <2>1, <3>1 DEF Pace, StopReceived, Promise!EndOfRun
      <3> QED  BY <3>2 DEF Promise!RunNext
    <2>2. CASE FinishTicker \/ TickerDone \/ LockAll \/ CloseTicks
      BY <2>2 DEF FinishTicker, TickerDone, LockAll, CloseTicks
    <2>3. ASSUME NEW w \in Workers, Tick(w)
          PROVE  Promise!RunNext
      <3>1. counter \in Requests /\ main \notin {"closing", "returned"}
        BY <2>3 DEF Tick, TypeOK, CounterOK, OrderInv, PhaseOK, Requests
      <3>2. /\ req' = [req EXCEPT ![counter] = "running"]
            /\ \A r \in Requests : req[r] # "none" <=> r < counter
            /\ pacer = "select" /\ pacer' = "pace" /\ main' = main
        BY <2>3 DEF Tick, ReportInv, IssueInv
      <3>3. PICK r \in Requests : r = counter
        BY <3>1
      <3>4. Promise!Issue(r)
        BY <3>1, <3>2, <3>3, RequesterAssumption
        DEF Promise!Issue, TypeOK, Requests, RequesterAssumption
      <3> QED  BY <3>4 DEF Promise!RunNext, Requests
    <2>4. CASE \E w \in Workers : StopNext(w)
      BY <2>4 DEF StopNext
    <2> QED  BY <1>4, <2>1, <2>2, <2>3, <2>4 DEF PacerNext
  <1>5. CASE \E w \in Workers : WorkerExit(w)
    BY <1>5 DEF WorkerExit
  <1>6. ASSUME NEW r \in Requests, RequestNext(r)
        PROVE  [Promise!RunNext]_(Promise!runVars)
    <2>1. CASE req'[r] \in {"reported", "ignored", "failed"}
      <3>1. /\ req[r] \in {"running", "queued"}
            /\ req' = [req EXCEPT ![r] = req'[r]]
            /\ UNCHANGED <<main, pacer>>
        BY <1>6, <2>1
        DEF RequestNext, CallRefused, CallEnd, SendResult, Report, TypeOK
      <3>2. main \notin {"closing", "returned"}
        BY <3>1 DEF ReportInv, ReportComplete
      <3>3. Promise!Complete(r)
        BY <2>1, <3>1, <3>2 DEF Promise!Complete, TypeOK
      <3> QED  BY <3>3 DEF Promise!RunNext, Requests
    <2>2. CASE req'[r] \notin {"reported", "ignored", "failed"}
      BY <1>6, <2>2
      DEF RequestNext, CallRefused, CallEnd, SendResult, Report, TypeOK
    <2> QED  BY <2>1, <2>2
  <1>7. ASSUME NEW s \in Stoppers, StopNextStep(s)
        PROVE  UNCHANGED Promise!runVars
    BY <1>7 DEF StopNextStep, SignalStop, SetReason, IgnoreResults, StopClose
  <1>8. CASE UNCHANGED vars
    BY <1>8
  <1> QED
    BY <1>1, <1>2, <1>3, <1>4, <1>5, <1>6, <1>7, <1>8
    DEF Next, Step, Terminated

\* A run with synchronous workers implements the promise of LoadRun: requests
\* are issued in order, none after the end of the run was decided, and the
\* report is made when the last of them has finished.
THEOREM SyncImplementsLoadRun == ~Async /\ Spec => ImplementsLoadRun
  <1>1. Init => Promise!RunInit
    BY DEF Init, Promise!RunInit, Requests
  <1>2. TypeOK /\ CounterOK /\ OrderInv /\ AllWorkDone /\ ReportInv /\ [Next]_vars
        => [Promise!RunNext]_(Promise!runVars)
    BY RunStep
  <1> QED
    BY <1>1, <1>2, TypeCorrect, OrderCorrect, SyncAllWorkDone, SyncReportComplete, PTL
    DEF Spec, ImplementsLoadRun, Promise!RunSpec

-----------------------------------------------------------------------------
(* What a run leaves behind, asynchronous runs included *)

\* Nobody has called Stop.
Unstopped == \A s \in Stoppers : stopper[s] = "idle"

\* While nobody has called Stop there is no token; the pacer then leaves its loop
\* only when all requests have been issued.
EndInv ==
    /\ IssueInv
    /\ NoConnectionLeft
    /\ Unstopped => tok = 0
    /\ Unstopped /\ pacer \notin {"off", "pace", "select"} =>
           \A r \in Requests : req[r] # "none"

LEMMA EndStep ==
    ASSUME TypeOK, CounterOK, OrderInv, EndInv, [Next]_vars
    PROVE  EndInv'
  <1> USE RequesterAssumption DEF RequesterAssumption, TypeOK, CounterOK,
          mainVars, ctlVars, pacerVars, workerVars, reqVars, stopVars, vars,
          OrderInv, PhaseOK, EndInv, IssueInv, NoConnectionLeft, Unstopped
  <1>1. CASE MainNext
    <2>1. CASE Lock \/ OpenConn \/ OpenDone
      BY <2>1 DEF Lock, OpenConn, OpenDone
    <2>2. CASE Abort \/ StartWorkers \/ Return
      BY <2>2 DEF Abort, StartWorkers, Return, QuietOK
    <2>3. CASE Done \/ CountWorkers \/ CloseResults \/ Finalize
      BY <2>3 DEF Done, CountWorkers, CloseResults, Finalize
    <2>4. CASE \E w \in Workers : Collect(w)
      BY <2>4 DEF Collect
    <2> QED  BY <1>1, <2>1, <2>2, <2>3, <2>4 DEF MainNext
  <1>2. CASE TickerNext
    BY <1>2 DEF TickerNext, TickerSend, TickerPanic
  <1>3. CASE CtlNext
    BY <1>3 DEF CtlNext, Spawn, LockWorkers, UnlockWorkers, CtlClosed, StopWorker
  <1>4. CASE PacerNext
    <2>1. CASE Pace
      BY <2>1 DEF Pace, Requests
    <2>2. CASE StopReceived \/ FinishTicker \/ TickerDone \/ LockAll \/ CloseTicks
      BY <2>2 DEF StopReceived, FinishTicker, TickerDone, LockAll, CloseTicks
    <2>3. ASSUME NEW w \in Workers, Tick(w)
          PROVE  EndInv'
      BY <2>3 DEF Tick, Requests
    <2>4. CASE \E w \in Workers : StopNext(w)
      BY <2>4 DEF StopNext
    <2> QED  BY <1>4, <2>1, <2>2, <2>3, <2>4 DEF PacerNext
  <1>5. CASE \E w \in Workers : WorkerExit(w)
    BY <1>5 DEF WorkerExit
  <1>6. ASSUME NEW r \in Requests, RequestNext(r)
        PROVE  EndInv'
    <2>1. /\ req[r] \in {"running", "sending", "queued"}
          /\ req' = [req EXCEPT ![r] = req'[r]] /\ req'[r] # "none"
          /\ UNCHANGED <<main, conns, pacer, counter, tok, stopper>>
      BY <1>6 DEF RequestNext, CallRefused, CallEnd, SendResult, Report
    <2>2. \A q \in Requests : req'[q] # "none" <=> req[q] # "none"
      BY <2>1
    <2> QED  BY <2>1, <2>2
  <1>7. ASSUME NEW s \in Stoppers, StopNextStep(s)
        PROVE  EndInv'
    <2>1. CASE SignalStop(s)
      BY <2>1 DEF SignalStop, StopChClosed
    <2>2. CASE SetReason(s)
      <3>1. AfterReason # "idle"
        BY DEF AfterReason
      <3>2. stopper' = [stopper EXCEPT ![s] = AfterReason]
            /\ UNCHANGED <<main, conns, pacer, counter, req, tok>>
        BY <2>2 DEF SetReason
      <3>3. ~Unstopped'
        BY <3>1, <3>2
      <3> QED  BY <3>2, <3>3
    <2>3. CASE IgnoreResults(s) \/ StopClose(s)
      BY <2>3 DEF IgnoreResults, StopClose
    <2> QED  BY <1>7, <2>1, <2>2, <2>3 DEF StopNextStep
  <1>8. CASE UNCHANGED vars
    BY <1>8
  <1> QED
    BY <1>1, <1>2, <1>3, <1>4, <1>5, <1>6, <1>7, <1>8
    DEF Next, Step, Terminated

LEMMA EndInit == Init => EndInv
  BY RequesterAssumption
  DEF RequesterAssumption, Init, EndInv, IssueInv, NoConnectionLeft, Requests

\* However it ended, a run leaves no connection open, and if nobody stopped it, it
\* has issued every request by the time the results channel is closed.
THEOREM EndCorrect == Spec => [](NoConnectionLeft /\ IssuesAllRequests)
  <1>1. TypeOK /\ CounterOK /\ OrderInv /\ EndInv /\ [Next]_vars => EndInv'
    BY EndStep
  <1>2. OrderInv /\ EndInv => NoConnectionLeft /\ IssuesAllRequests
    BY DEF OrderInv, PhaseOK, EndInv, Unstopped, IssuesAllRequests
  <1> QED  BY EndInit, TypeCorrect, OrderCorrect, <1>1, <1>2, PTL DEF Spec

-----------------------------------------------------------------------------
(* Induction *)

LessThan == {ss \in Nat \X Nat : ss[1] < ss[2]}

\* A set of numbers that is not empty has a least one.
LEMMA LeastNumber ==
    ASSUME NEW T \in SUBSET Nat, T # {}
    PROVE  \E x \in T : \A y \in T : x <= y
  <1>1. IsWellFoundedOn(LessThan, Nat)
    BY NatLessThanWellFounded DEF OpToRel, LessThan
  <1>2. PICK x \in T : \A y \in T : <<y, x>> \notin LessThan
    BY <1>1, WFMin
  <1>3. ASSUME NEW y \in T  PROVE x <= y
    <2>1. <<y, x>> \notin LessThan
      BY <1>2
    <2>2. x \in Nat /\ y \in Nat
      OBVIOUS
    <2>3. ~ (y < x)
      BY <2>1, <2>2 DEF LessThan
    <2> QED  BY <2>2, <2>3
  <1> QED  BY <1>3

\* A set of numbers that has 0 and every next one has them all.
LEMMA InductionOnSet ==
    ASSUME NEW S, 0 \in S, \A n \in Nat : n \in S => n + 1 \in S
    PROVE  Nat \subseteq S
  <1> DEFINE T == {n \in Nat : n \notin S}
  <1>1. SUFFICES ASSUME T # {}  PROVE FALSE
    OBVIOUS
  <1>2. PICK x \in T : \A y \in T : x <= y
    <2>1. T \in SUBSET Nat
      OBVIOUS
    <2> HIDE DEF T
    <2> QED  BY <1>1, <2>1, LeastNumber
  <1>3. x \in Nat /\ x # 0 /\ x \notin S
    OBVIOUS
  <1>4. x - 1 \in Nat /\ x - 1 \in S
    BY <1>2, <1>3
  <1> QED  BY <1>3, <1>4

-----------------------------------------------------------------------------
(* The schedule is followed, asynchronous runs included *)

\* The recursive definition of Expected has a solution.
LEMMA ExpectedDef ==
    Expected = [i \in 0..Len(Ticks) |->
                   IF i = 0 THEN 0
                   ELSE LET sum == Expected[i - 1] + Ticks[i].delta
                        IN  IF sum < 0 THEN 0 ELSE sum]
  <1> DEFINE Then(f, i) == LET sum == f[i - 1] + Ticks[i].delta
                           IN  IF sum < 0 THEN 0 ELSE sum
             Solves(f, k) == f = [i \in 0..k |-> IF i = 0 THEN 0 ELSE Then(f, i)]
             S == {k \in Nat : \E f : Solves(f, k)}
  <1>1. 0 \in S
    <2>1. Solves([i \in 0..0 |-> 0], 0)
      OBVIOUS
    <2> QED  BY <2>1
  <1>2. ASSUME NEW k \in Nat, k \in S  PROVE k + 1 \in S
    <2>1. PICK f : Solves(f, k)
      BY <1>2
    <2> DEFINE g == [i \in 0..k + 1 |-> IF i = k + 1 THEN Then(f, k + 1) ELSE f[i]]
    <2>2. Solves(g, k + 1)
      BY <2>1
    <2> HIDE DEF g, Solves
    <2> QED  BY <2>2
  <1>3. Len(Ticks) \in S
    <2> HIDE DEF S
    <2>1. Nat \subseteq S
      BY <1>1, <1>2, InductionOnSet
    <2> QED  BY <2>1, RequesterAssumption, LenProperties DEF RequesterAssumption
  <1> QED  BY <1>3 DEF Expected

\* After each tick the number expected is what the tick makes of the one before.
LEMMA ExpectedStep ==
    /\ Expected[0] = 0
    /\ \A i \in 1..Len(Ticks) :
          LET sum == Expected[i - 1] + Ticks[i].delta
          IN  Expected[i] = IF sum < 0 THEN 0 ELSE sum
    /\ \A i \in 0..Len(Ticks) : Expected[i] \in Nat
  <1>1. Len(Ticks) \in Nat
    BY RequesterAssumption, LenProperties DEF RequesterAssumption
  <1>2. /\ Expected[0] = 0
        /\ \A i \in 1..Len(Ticks) :
              LET sum == Expected[i - 1] + Ticks[i].delta
              IN  Expected[i] = IF sum < 0 THEN 0 ELSE sum
    BY <1>1, ExpectedDef
  <1>3. \A i \in 0..Len(Ticks) : Expected[i] \in Nat
    <2> DEFINE S == {i \in Nat : i <= Len(Ticks) => Expected[i] \in Nat}
    <2>1. 0 \in S
      BY <1>2
    <2>2. ASSUME NEW i \in Nat, i \in S  PROVE i + 1 \in S
      <3>1. CASE i + 1 <= Len(Ticks)
        <4>1. Expected[i] \in Nat /\ Ticks[i + 1].delta \in Int
          BY <1>1, <2>2, <3>1, TickType
        <4>2. LET sum == Expected[i] + Ticks[i + 1].delta
              IN  Expected[i + 1] = IF sum < 0 THEN 0 ELSE sum
          <5>1. i + 1 \in 1..Len(Ticks) /\ (i + 1) - 1 = i
            BY <1>1, <3>1
          <5> QED  BY <1>2, <5>1
        <4> QED  BY <4>1, <4>2
      <3> QED  BY <3>1
    <2>3. Nat \subseteq S
      <3> HIDE DEF S
      <3> QED  BY <2>1, <2>2, InductionOnSet
    <2> QED  BY <1>1, <2>3
  <1> QED  BY <1>2, <1>3

\* Where the control goroutine is in the schedule, and what is left of the tick
\* it is applying: while it adds workers, those still to come make up what is
\* expected; while it stops some, those still to go.
FollowInv ==
    /\ IsFiniteSet(ActiveWorkers)
    /\ ctl = "off" => pacer = "off" /\ ActiveWorkers = {} /\ pos = 0
    /\ ctl # "off" => pos \in 1..Len(Ticks) + 1
    /\ ctl \in {"recv", "exit"} /\ pacer \notin {"stopAll", "end"} =>
          Cardinality(ActiveWorkers) = Expected[pos - 1]
    /\ ctl = "spawn" =>
          /\ rem >= 1
          /\ Cardinality(ActiveWorkers) + rem = Expected[pos - 1]
    /\ ctl \in {"lock", "stopping"} =>
          /\ rem <= 0
          /\ LET sum == Cardinality(ActiveWorkers) + rem
             IN  Expected[pos - 1] = IF sum < 0 THEN 0 ELSE sum

\* A worker that starts is one more, one that is stopped one fewer.
LEMMA ActiveChange ==
    ASSUME TypeOK, IsFiniteSet(ActiveWorkers), NEW w \in Workers
    PROVE  /\ Cardinality(ActiveWorkers) \in Nat
           /\ /\ ~Active(w)
              /\ wstate' = [wstate EXCEPT ![w] = "loop"]
              => /\ IsFiniteSet(ActiveWorkers')
                 /\ Cardinality(ActiveWorkers)' = Cardinality(ActiveWorkers) + 1
           /\ /\ Active(w)
              /\ wstate' = [wstate EXCEPT ![w] = "stopped"]
              => /\ IsFiniteSet(ActiveWorkers')
                 /\ Cardinality(ActiveWorkers)' = Cardinality(ActiveWorkers) - 1
                 /\ Cardinality(ActiveWorkers) >= 1
  <1>1. Cardinality(ActiveWorkers) \in Nat
    BY FS_CardinalityType
  <1>2. ASSUME ~Active(w), wstate' = [wstate EXCEPT ![w] = "loop"]
        PROVE  /\ IsFiniteSet(ActiveWorkers')
               /\ Cardinality(ActiveWorkers)' = Cardinality(ActiveWorkers) + 1
    <2>1. ActiveWorkers' = ActiveWorkers \cup {w} /\ w \notin ActiveWorkers
      BY <1>2 DEF ActiveWorkers, Active, TypeOK
    <2> QED  BY <2>1, FS_AddElement
  <1>3. ASSUME Active(w), wstate' = [wstate EXCEPT ![w] = "stopped"]
        PROVE  /\ IsFiniteSet(ActiveWorkers')
               /\ Cardinality(ActiveWorkers)' = Cardinality(ActiveWorkers) - 1
               /\ Cardinality(ActiveWorkers) >= 1
    <2>1. ActiveWorkers' = ActiveWorkers \ {w} /\ w \in ActiveWorkers
      BY <1>3 DEF ActiveWorkers, Active, TypeOK
    <2>2. Cardinality(ActiveWorkers)' = Cardinality(ActiveWorkers) - 1
          /\ IsFiniteSet(ActiveWorkers')
      BY <2>1, FS_RemoveElement
    <2>3. Cardinality(ActiveWorkers') \in Nat
      BY <2>2, FS_CardinalityType
    <2> QED  BY <1>1, <2>2, <2>3
  <1> QED  BY <1>1, <1>2, <1>3

LEMMA FollowStep ==
    ASSUME TypeOK, CounterOK, OrderInv, FollowInv, [Next]_vars
    PROVE  FollowInv'
  <1> USE DEF mainVars, ctlVars, pacerVars, workerVars, reqVars, stopVars, vars
  <1>0. ASSUME UNCHANGED <<wstate, ctl, rem, pos>>,
               pacer' = "off" <=> pacer = "off",
               pacer \in {"stopAll", "end"} => pacer' \in {"stopAll", "end"}
        PROVE  FollowInv'
    <2>1. ActiveWorkers' = ActiveWorkers
      BY <1>0 DEF ActiveWorkers, Active
    <2> QED  BY <1>0, <2>1 DEF FollowInv
  <1>1. CASE MainNext
    <2>1. CASE StartWorkers
      <3>1. ctl = "off" /\ pacer = "off"
        BY <2>1 DEF StartWorkers, OrderInv, PhaseOK, QuietOK
      <3>2. ActiveWorkers' = ActiveWorkers
        BY <2>1 DEF StartWorkers, ActiveWorkers, Active
      <3>3. ActiveWorkers' = {} /\ Len(Ticks) \in Nat
        BY <3>1, <3>2, RequesterAssumption, LenProperties DEF FollowInv, RequesterAssumption
      <3>4. ctl' = "recv" /\ pos' = 1 /\ pacer' = "pace"
        BY <2>1 DEF StartWorkers
      <3>5. IsFiniteSet(ActiveWorkers') /\ Cardinality(ActiveWorkers') = Expected[0]
        BY <3>3, FS_EmptySet, ExpectedStep
      <3> QED  BY <3>3, <3>4, <3>5 DEF FollowInv
    <2>2. CASE Lock \/ OpenConn \/ OpenDone \/ Abort
      BY <1>0, <2>2 DEF Lock, OpenConn, OpenDone, Abort
    <2>3. CASE Done \/ CountWorkers \/ CloseResults \/ Finalize \/ Return
      BY <1>0, <2>3 DEF Done, CountWorkers, CloseResults, Finalize, Return
    <2>4. ASSUME NEW w \in Workers, Collect(w)
          PROVE  FollowInv'
      <3>1. ActiveWorkers' = ActiveWorkers
        BY <2>4 DEF Collect, ActiveWorkers, Active, TypeOK
      <3> QED  BY <2>4, <3>1 DEF Collect, FollowInv
    <2> QED  BY <1>1, <2>1, <2>2, <2>3, <2>4 DEF MainNext
  <1>2. CASE TickerNext
    <2>1. CASE TickerSend
      <3>1. /\ ActiveWorkers' = ActiveWorkers /\ pacer' = pacer
            /\ Cardinality(ActiveWorkers) = Expected[pos - 1]
            /\ pos \in 1..Len(Ticks) /\ pos' = pos + 1
        BY <2>1 DEF TickerSend, FollowInv, ActiveWorkers, Active, TickerClosed
      <3> DEFINE delta == Ticks[pos].delta
                 sum == Cardinality(ActiveWorkers) + delta
      <3>2. /\ Len(Ticks) \in Nat
            /\ delta \in Int /\ Cardinality(ActiveWorkers) \in Nat
            /\ Expected[pos] = IF sum < 0 THEN 0 ELSE sum
            /\ pos' - 1 = pos
        BY <3>1, TickType, ExpectedStep, FS_CardinalityType, RequesterAssumption, LenProperties
        DEF FollowInv, RequesterAssumption
      <3>3. /\ rem' = delta
            /\ ctl' = IF delta > 0 THEN "spawn"
                      ELSE IF delta < 0 THEN "lock" ELSE AfterTick(Ticks[pos].done)
            /\ AfterTick(Ticks[pos].done) \in {"recv", "exit"}
        BY <2>1 DEF TickerSend, AfterTick
      <3>4. CASE delta > 0
        <4>1. ctl' = "spawn" /\ Cardinality(ActiveWorkers) + delta = Expected[pos]
          BY <3>2, <3>3, <3>4
        <4> HIDE DEF delta
        <4> QED  BY <3>1, <3>2, <3>3, <3>4, <4>1 DEF FollowInv
      <3>5. CASE delta < 0
        <4>1. ctl' = "lock"
          BY <3>2, <3>3, <3>5
        <4> HIDE DEF delta
        <4> QED  BY <3>1, <3>2, <3>3, <3>5, <4>1 DEF FollowInv
      <3>6. CASE delta = 0
        <4>1. ctl' \in {"recv", "exit"} /\ Cardinality(ActiveWorkers) = Expected[pos]
          BY <3>2, <3>3, <3>6
        <4> HIDE DEF delta
        <4> QED  BY <3>1, <3>2, <4>1 DEF FollowInv
      <3> QED  BY <3>2, <3>4, <3>5, <3>6
    <2>2. CASE TickerPanic
      BY <1>0, <2>2 DEF TickerPanic
    <2> QED  BY <1>2, <2>1, <2>2 DEF TickerNext
  <1>3. CASE CtlNext
    <2>0. pos \in Nat /\ rem \in Int /\ Cardinality(ActiveWorkers) \in Nat
      BY FS_CardinalityType DEF TypeOK, FollowInv
    <2>1. CASE Spawn
      <3>1. created + 1 \in Workers /\ ~Active(created + 1)
        BY <2>1, RequesterAssumption
        DEF Spawn, Workers, TypeOK, OrderInv, CreatedOK, Active, RequesterAssumption
      <3>2. /\ IsFiniteSet(ActiveWorkers')
            /\ Cardinality(ActiveWorkers)' = Cardinality(ActiveWorkers) + 1
        BY <2>1, <3>1, ActiveChange DEF Spawn, FollowInv
      <3>3. /\ rem' = rem - 1 /\ pos' = pos /\ pacer' = pacer
            /\ ctl' = IF rem > 1 THEN "spawn" ELSE AfterTick(last)
            /\ AfterTick(last) \in {"recv", "exit"}
        BY <2>1 DEF Spawn, AfterTick
      <3>4. /\ rem >= 1 /\ Cardinality(ActiveWorkers) + rem = Expected[pos - 1]
            /\ pos \in 1..Len(Ticks) + 1
        BY <2>1 DEF Spawn, FollowInv
      <3>5. Cardinality(ActiveWorkers)' + rem' = Expected[pos - 1]
            /\ (rem' >= 1 \/ rem' = 0)
        BY <2>0, <3>2, <3>3, <3>4
      <3>6. /\ ctl' = "spawn" => rem' >= 1
            /\ ctl' # "spawn" => /\ ctl' \in {"recv", "exit"}
                                 /\ Cardinality(ActiveWorkers)' = Expected[pos - 1]
        BY <2>0, <3>2, <3>3, <3>4, <3>5
      <3>7. ctl' \in {"spawn", "recv", "exit"}
        BY <3>3
      <3> QED  BY <3>2, <3>3, <3>4, <3>5, <3>6, <3>7 DEF FollowInv
    <2>2. CASE LockWorkers
      <3>1. ActiveWorkers' = ActiveWorkers
        BY <2>2 DEF LockWorkers, ActiveWorkers, Active
      <3> QED  BY <2>2, <3>1 DEF LockWorkers, FollowInv
    <2>3. CASE UnlockWorkers
      <3>1. /\ ActiveWorkers' = ActiveWorkers /\ pos' = pos
            /\ ctl' \in {"recv", "exit"} /\ ctl = "stopping"
        BY <2>3 DEF UnlockWorkers, AfterTick, ActiveWorkers, Active
      <3>2. rem = 0 \/ Cardinality(ActiveWorkers) = 0
        <4>1. rem = 0 \/ ActiveWorkers = {}
          BY <2>3 DEF UnlockWorkers, ActiveWorkers
        <4> QED  BY <4>1, FS_EmptySet
      <3>3. Cardinality(ActiveWorkers) = Expected[pos - 1] /\ pos \in 1..Len(Ticks) + 1
        BY <2>0, <3>1, <3>2 DEF FollowInv
      <3> QED  BY <3>1, <3>3 DEF FollowInv
    <2>4. CASE CtlClosed
      <3>1. ActiveWorkers' = ActiveWorkers
        BY <2>4 DEF CtlClosed, ActiveWorkers, Active
      <3> QED  BY <2>4, <3>1 DEF CtlClosed, FollowInv
    <2>5. ASSUME NEW w \in Workers, StopWorker(w)
          PROVE  FollowInv'
      <3>1. /\ IsFiniteSet(ActiveWorkers')
            /\ Cardinality(ActiveWorkers)' = Cardinality(ActiveWorkers) - 1
            /\ rem' = rem + 1 /\ rem < 0 /\ ctl = "stopping" /\ UNCHANGED <<ctl, pos, pacer>>
        BY <2>5, ActiveChange DEF StopWorker, FirstActive, FollowInv
      <3>2. Cardinality(ActiveWorkers)' + rem' = Cardinality(ActiveWorkers) + rem
        BY <2>0, <3>1
      <3>3. rem' <= 0
        BY <2>0, <3>1
      <3> QED  BY <3>1, <3>2, <3>3 DEF FollowInv
    <2> QED  BY <1>3, <2>1, <2>2, <2>3, <2>4, <2>5 DEF CtlNext
  <1>4. CASE PacerNext
    <2>1. CASE Pace \/ StopReceived \/ FinishTicker \/ TickerDone \/ LockAll \/ CloseTicks
      BY <1>0, <2>1 DEF Pace, StopReceived, FinishTicker, TickerDone, LockAll, CloseTicks
    <2>2. ASSUME NEW w \in Workers, Tick(w)
          PROVE  FollowInv'
      BY <1>0, <2>2 DEF Tick
    <2>3. ASSUME NEW w \in Workers, StopNext(w)
          PROVE  FollowInv'
      <3>1. IsFiniteSet(ActiveWorkers')
        BY <2>3, ActiveChange DEF StopNext, FirstActive, FollowInv
      <3>2. ctl = "exit" /\ pacer = "stopAll" /\ UNCHANGED <<ctl, pos, pacer>>
        BY <2>3 DEF StopNext, OrderInv, QuietOK
      <3> QED  BY <3>1, <3>2 DEF FollowInv
    <2> QED  BY <1>4, <2>1, <2>2, <2>3 DEF PacerNext
  <1>5. ASSUME NEW w \in Workers, WorkerExit(w)
        PROVE  FollowInv'
    <2>1. ActiveWorkers' = ActiveWorkers
      BY <1>5 DEF WorkerExit, ActiveWorkers, Active, TypeOK
    <2> QED  BY <1>5, <2>1 DEF WorkerExit, FollowInv
  <1>6. ASSUME NEW r \in Requests, RequestNext(r)
        PROVE  FollowInv'
    BY <1>0, <1>6 DEF RequestNext, CallRefused, CallEnd, SendResult, Report
  <1>7. ASSUME NEW s \in Stoppers, StopNextStep(s)
        PROVE  FollowInv'
    BY <1>0, <1>7 DEF StopNextStep, SignalStop, SetReason, IgnoreResults, StopClose
  <1>8. CASE UNCHANGED vars
    BY <1>0, <1>8
  <1> QED
    BY <1>1, <1>2, <1>3, <1>4, <1>5, <1>6, <1>7, <1>8
    DEF Next, Step, Terminated

LEMMA FollowInit == Init => FollowInv
  <1> SUFFICES ASSUME Init  PROVE FollowInv
    OBVIOUS
  <1>1. ActiveWorkers = {}
    BY DEF Init, ActiveWorkers, Active
  <1> QED  BY <1>1, FS_EmptySet DEF Init, FollowInv

\* The concurrency schedule is followed, for every schedule, any number of workers
\* and whoever stops the run: once a tick has been applied as many workers are
\* active as its deltas add up to, the ones that ask for fewer than none included.
THEOREM ScheduleCorrect == Spec => []ScheduleFollowed
  <1>1. TypeOK /\ CounterOK /\ OrderInv /\ FollowInv /\ [Next]_vars => FollowInv'
    BY FollowStep
  <1>2. FollowInv => ScheduleFollowed
    BY DEF FollowInv, ScheduleFollowed
  <1> QED  BY FollowInit, TypeCorrect, OrderCorrect, <1>1, <1>2, PTL DEF Spec

=============================================================================
