# A verification of ghz in TLA+

ghz is a load tester for gRPC services.  `runner.Run` opens connections, starts
workers according to a concurrency schedule, hands them requests according to a
rate schedule, collects the results through gRPC's stats handlers and turns them
into a report.  This directory holds TLA+ models of those parts, the instances
TLC checks and the proofs the TLA+ proof system checks.

Contents: [the system](#the-system), [modules](#modules-and-the-code-they-model),
[runs](#runs), [bounds](#bounds), [fairness](#fairness), [proofs](#proofs),
[divergences](#where-the-code-does-not-do-what-it-says),
[not modelled](#what-is-not-modelled), [plan](#plan).

## The system

| component | source | state | operations | talks to |
|---|---|---|---|---|
| run engine | `runner/requester.go`, `worker.go`, `counter.go`, `run.go` | `workers`, `conns`, `stopCh`, `stopReason`, the request counter, locals of `runWorkers` | `Run`, `runWorkers`, `Finish`, `Stop`, `openClientConns`, `closeClientConns`, `runWorker`, `Worker.Stop` | worker ticker (channel), pacer (calls), workers (`ticks`, `stopCh`, `errC`), stats handlers (`results`), reporter (`done`) |
| worker tickers | `load/worker_ticker.go` | a count, a time, the channel `C` | `Run`, `Finish` | run engine (receives the deltas, closes the channel) |
| pacers | `load/pacer.go` | fields computed once; the engine's counter and clock are arguments | `Pace`, `Rate` | pacer goroutine of the engine |
| reporter | `runner/reporter.go`, `stats_handler.go` | counters, the reservoir of details, sampled details | `Run`, `Finalize` | stats handlers, capturing goroutines, `Finish` |
| latency figures | `runner/reporter.go` | none | `Latencies`, `Histogram` | `Finalize` |
| streaming calls | `runner/worker.go` | the channel `cancel`, `doneCh`, loop variables of each goroutine | `makeClientStreamingRequest`, `makeServerStreamingRequest`, `makeBidiRequest` | gRPC stream, message provider, interceptor, timer goroutine |
| data provider | `runner/data.go` | the cache of messages under an RWMutex | `getDataForCall`, `getMessages` | every call of every worker |
| message providers | `runner/data.go` | two counters per streaming call | `GetStreamMessage` | streaming calls |
| metadata provider | `runner/data.go`, `calldata.go`, `worker.go` | one preseeded map, shared by all calls | `newMetadataProvider`, `getMetadataForCall`, the `Set` of `makeRequest` | every call of every worker, gRPC |
| configuration | `runner/options.go`, `config.go` | the `RunConfig` | the options, `fromConfig`, `LoadConfig`, `NewConfig`, `createWorkerTicker`, `createPacer` | everything |
| client connections | `runner/requester.go` | `conns` under a lock, a watcher goroutine per connection | `openClientConns`, `closeClientConns`, `connectionOnState` | run engine, `Stop`, gRPC |
| method descriptors | `protodesc/protodesc.go` | none | `GetMethodDescFromProto`, `...FromProtoSet`, `...FromReflect` | `NewRequester` |
| printers | `printer/` | none | `Print`, `WriteParquetFile`, ... | the finished report |
| test server | `internal/helloworld/greeter_server.go`, `internal/common.go` | counters under three mutexes | the handlers, `ResetCounters`, `GetCount`, ... | the tests, over gRPC |

What makes it hard, and what it must get right:

* **Run engine.**  Up to six kinds of goroutine meet on unbuffered channels, two
  mutexes and three deferred calls.  Workers are appended by one goroutine,
  retired by two and counted by a third.  `Stop` may come at any moment, from
  two goroutines, while connections are opened, while the run goes on, and while
  it ends.  It must lose no result, send none on a closed channel, follow its
  schedule, leave no connection open, give the right reason, and return.
* **Worker tickers.**  A signed step, unsigned arithmetic, late ticks, and a
  channel that somebody else closes: they must end with the number of workers
  that was asked for, and send nothing after `Done`.
* **Pacers.**  Hits are accepted late by busy workers: what was missed must be
  caught up, and no more than that.
* **Reporter.**  Results arrive from all workers; samples are sent by goroutines
  nobody waits for, on a channel `Finish` closes under them.  Counters, error
  distribution and reservoir must agree on the same results.
* **Streaming calls.**  A timer, the count, an error, the provider and an
  interceptor may each end a call, through one channel of capacity one.  The
  call must end, must not send beyond its count or its duration, and must tell
  the server.
* **Data, metadata and message providers.**  Concurrent calls fill a shared cache
  that hits return by reference, and may write to one shared metadata map; each
  call must go out with the data and the metadata of its own number, and a stream
  must announce its last message once and on time.
* **Configuration.**  Options and configuration files come in any number and
  order; what `NewConfig` accepts must be consistent, and options about different
  things must not depend on their order.
* **Closing connections.**  `Run` and `Stop` close the same connections; watchers
  wait for a change of state that may already have happened.  Each connection is
  closed once, and `Run` returns.
* **Printers.**  Ten formats compute their own figures from one report: they must
  agree, whatever was printed before, and a histogram must be printable.
* **Test server.**  The counters outlive a test, its handlers may outlive the call:
  what a test reads must be that of its own run.

Nothing is persisted, so there is no crash recovery; a crash here is a panic, and
the models carry it as a state.  `PROJECT.json` lists the
hazards line by line.

## Modules and the code they model

An action models a step of one goroutine, up to the next operation that another
goroutine can observe.  A hand-off on an unbuffered channel is one action of
both sides.  Operators keep the source's names where there is one.  Modules that
begin with `MC` only give the constants small values.  Definitions introduced by
"Mutant of" are faulty variants of a definition, kept beside it; no
specification uses them.

**`LoadRun`** is the abstract specification: requests are issued in order, each
one is completed, the report is made when none is outstanding, and nothing is
issued once the end of the run was decided; a run without connections is
abandoned before its first request.

**`Requester`** is the run engine.  One program counter per goroutine: `main`
(`Run`, `runWorkers`, `Finish`), `ctl` (the worker control goroutine), `pacer`
(with its deferred calls as control points), `wstate[w]` (`runWorker`), `req[r]`
(a request from the tick to the reporter), `stopper[s]` (a goroutine that calls
`Stop(s)`), and `pos` (how many values the ticker has sent; the values are the
constant `Ticks`, so every schedule is covered, not just those of the built-in
tickers).  Channel states are read off the program counters (`ResultsClosed`,
`TicksClosed`, ...), as are the mutexes `wm` and `lock`.  The three sends on a
channel that may be closed lead to `panic`.  The pacer is the constant pacer
without a rate (it stops at `N`); rates are the subject of `Pacer`.  A request is
a unary call whose `stats.End` is delivered before `InvokeRpc` returns.
`counter.Inc()` is evaluated on reaching the select, as in Go.

**`WorkerTicker`** is one of the three tickers and, as far as the deltas go, its
receiver.  Time is in steps; a tick may be handled late.  `ToUint`, `ToInt` are
the conversions of the code, `UintSize` being 2^w.

**`Pacer`** is the four pacers and the loop of the pacer goroutine that sleeps
and hands out hits.  `ConstPace`, `StepPace`, `SegmentedPace` are the `Pace`
methods, `Rate`, `HitsAt` (hits), `stopFreq`, `constAt`, `baseHits`, `TimeForHit`
what they are computed from.  Time is in ticks, rates are whole, numbers of hits
are scaled by `Second`, so float64 arithmetic is exact.  What the properties compare
them with is `Asked`, the rate the configuration asks for in a tick, and `Schedule`, its
sum.

**`Reporter`** has both channels, the loop of `Reporter.Run`, its goroutine for
samples, the capturing goroutines of `makeUnaryRequest`, and `Finish`.  The
reservoir's random index is a choice.

**`Histogram`** has the percentiles, the choice of the tail, and the loop that
fills the buckets, one action per branch.  **`Printer`** extends it with what each
format shows of the finished report: a document is the record of its figures, rows
and labels, and `OutputsAgree` compares any two documents of one report.

**`StreamTimer`** is what the streaming calls share (the timer goroutine, `cancel`
and the end of a call); **`ClientStream`**, **`ServerStream`** and **`BidiStream`** are
the three functions; **`StreamCalls`** composes them: `makeRequest` picks one by the
kind of the method.  The configuration of the call is the variable `call`, so
that one run covers them all.

**`RunConfig`** has no state: it is the fix-ups and the checks of `NewConfig`, and
the ticker and the pacer that `createWorkerTicker` and `createPacer` make of the
result.  **`Options`** has the defaults, the options (`Stored` for those that store their
value, `ApplyOption` for the others) and what a configuration stands for
(`Expand`).  **`RunSetup`** composes them with `WorkerTicker`: `NewConfig` applies the options
one by one, fixes up and checks the outcome, and the ticker created from it runs.
`Places` are where options stand in its arguments, those of a configuration included.
`MCPacer` obtains its step and line pacers from settings through `RunConfig` as well;
constant and segmented pacers are given directly, the latter being a custom pacer
(`WithPacer`).

**`DataProvider`** is the shared cache with concurrent calls, **`CallMetadata`** the
metadata of concurrent calls with the shared map, and **`MessageProvider`** the static and the
dynamic provider of one streaming call.  **`Requests`** composes the three as
`makeRequest` does: metadata first, then the data, then the choice of a message
provider and the refusal of a request with nothing to send, then the call; one call
is followed through its message provider while the others go on.  A write to a Go map that
overlaps another access is undefined: the model chooses between the intended effect and the end of
the process (`crashed`).

**`MethodDesc`** has no state: the lookup of a method by each of the three sources,
with the resolution of imports (`Resolution`) and the choice a Go map leaves
(`FromProtoSet` is a set of outcomes); files are known by their names (`FileList`).  **`ClientConns`** is `closeClientConns` by two
callers, with its watchers.  **`Greeter`** is the test server: its handlers and
the counters they record calls in.  **`TestRun`** composes them: the tests of
`runner/run_test.go` reset the counters, create a requester (a lookup, by reflection
over a connection of its own), open connections, make calls, close the connections
while `Stop` may do the same, and read the counters.

The modules that end in **`_proofs`** hold the theorems about the module they are
named after.

## Runs

| run | what it shows |
|---|---|
| `requester_sync` | With synchronous workers, when the results channel is closed no request is in flight (`AllWorkDone`); workers are retired in order (`StoppedInOrder`); the number of active workers is what the deltas add up to (`ScheduleFollowed`); the report accounts for each issued request (`ReportComplete`); a run nobody stops issues all of them (`IssuesAllRequests`); no connection stays open (`NoConnectionLeft`); the whole implements `LoadRun` (`ImplementsLoadRun`); and it returns, unless the schedule leaves no worker to take a request (`RunReturns`). |
| `requester_async` | With asynchronous workers no worker is left in its loop when `ticks` is closed (`NoSpuriousRequest`): it would make requests out of zero values.  `Stop` ends a run even when its schedule retired every worker and the pacer is blocked (`StopEndsRun`). |
| `requester_async_work` | Violation, see below. |
| `requester_reason` | Violation, see below. |
| `run_setup` | What `NewConfig` accepts has workers for its connections, a known stop action, no number of requests beside a duration, and a ticker that panics in known ways only, steps of negative length among them (`AcceptedIsConsistent`); options about different things commute (`OrderOfSubjectsIsFree`); the last data given is what is used, unless it is binary and a data function was given too (`LastDataIsUsed`).  The ticker made of it ends at Stop, however late the ticks (`EndsAtStop`), uses the channel for nothing after `Done` (`DoneIsLast`), and ends if its schedule has an end (`ScheduleEnds`). |
| `pacer` | No hit is ahead of the schedule by more than one (`NeverAhead`), the pacer waits only when it has caught up (`WaitsWhenCaughtUp`), and stops only at the end of the load (`StopsAtEnd`). |
| `reporter` | Counters, error distribution and details are of the same results, those after the skipped ones, and the reservoir is a duplicate-free sample of the right size (`SampleOfCounted`); the report has all that entered the channels (`ReportSeesAll`); it is made in the end and no capturing goroutine stays blocked (`EventuallyReported`). |
| `report` | Percentiles are nearest-rank ones, but for the p99.9 of whole thousands of latencies (`PercentileIsNearestRank`), each bucket holds the latencies between its marks (`BucketsCountTheirOwn`), the histogram can be printed (`LinesAlign`), and any two documents printed of a report agree (`OutputsAgree`). |
| `stream_calls` | All kinds of streaming calls return (`CallReturns`); they stay within count and duration (`SendsWithinLimits`); they close their direction of the stream, and `cancel` only when just the timer can still use it (`SendersCloseStream`); a server streaming call waits for messages with a live context only while it wants them (`DrainsOnlyCancelled`). |
| `bidi_both` | Violation, see below. |
| `requests` | Each call gets the messages (`CallGetsItsData`) and the metadata (`CallGetsItsMetadata`) its request number stands for, whoever filled the cache or wrote to the shared map; a stream's messages come in order, and `ErrLastMessage` with the last and only with it (`StreamTakesInTurn`); the process ends in known ways only (`CrashesAreKnown`). |
| `test_server` | What a test reads is exact unless a call was given up (`CountsExact`), and only because of that can a handler index out of range (`PanicOnlyIfLate`); the sources of a method agree as far as they search the same files and are asked without a leading dot (`LookupsAgree`); each connection is closed once (`ClosedOnce`) and `Run` returns (`CloseReturns`). |

Each property of a passing run is listed with a mutant of the code that breaks it.

## Bounds

* `requester_sync`: 2 requests, at most 3 workers, 2 connections, the schedule 2,
  -2, 1, one `Stop` at any moment, `zstop=ignore`, a results channel of capacity
  1.  Workers are created, all retired, and one is created again while
  requests run, wait for the reporter, or are still to be issued.
* `requester_async`: 2 requests, 2 workers, a schedule that goes up and then
  retires everybody, with no worker left to take a request.
* `run_setup`: every list of at most two options of a menu that has an option of
  each kind, with refused, extreme and repeated values; nine configurations in each of the three
  forms, alone, before and after an option; and the options of every schedule with starts and
  stops 0..4, steps -3..2, step durations -1, 0 and 2, maximum durations -1, 0, 3 and 8.
  Two options are what an order needs.  Ticks are up to one step late; every relation between
  step and distance occurs; `UintSize` is far above every count.
* `pacer`: settings of both schedules with and without a number of requests and a
  duration of the run; a second of 12 ticks, rates up to 6 that divide it where an interval
  is computed by integer division, delays up to 5 ticks, five seconds.  The step and
  line pacers are those with a `Regular` load; which are left out is said below.
* `reporter`: 4 results of which 2 fail and 2 are sampled, 1 skipped, 2 details
  kept, buffers of 2 and 1: the reservoir fills and replaces, samples block.
* `report`: every sorted sequence of up to 4 of the values 0, 4, 11, 1000;
  99, 100 and 120 latencies around the 100 at which the tail is cut off, and 1000 different ones,
  of which the ordinal of p99.9 is rounded above a whole number; reports of no,
  one and two details under every combination of the options a format depends on; two documents, enough
  for one to change what the next one shows.
* `stream_calls`: up to 3 messages each way, counts 0 and 2, every combination of
  duration, timeout, interval and interceptor but those named in
  `MCStreamCalls`.
* `requests`: 3 calls with request numbers 1, 1, 3 on 3 items, counts 0..7:
  two calls race for one item, the third asks for another, the array is
  passed twice.  Metadata is varied for one shape of data, and everything else for
  plain metadata: the two providers share nothing.
* `test_server`: two tests of two calls each, the first with timeouts and a `Stop`; a test
  of two calls of one type at once; 2 connections; and one lookup in every pair of files with
  up to two imports, missing, cyclic or repeated ones included, the service in either, both or none,
  for calls with and without a leading dot and with each kind of separator.

## Fairness

Weak fairness per goroutine: Go's scheduler runs every goroutine that can run,
and no goroutine here needs a particular branch of a select to be taken again
and again.  Beyond that:

* requests end (`Requester`, `Reporter`): they carry `config.timeout`; with a
  timeout of zero this is an assumption about the server;
* nobody is obliged to call `Stop`, but a `Stop` that has sent its token goes on;
* streams (`StreamCalls!StreamEnds`): gRPC makes `RecvMsg` fail once the context is
  cancelled or the timeout passed, and a server ends a stream that is half
  closed.  A silent server owes nothing otherwise; this is why `MCStreamCalls`
  gives server streaming calls a timeout;
* the ticker goroutine goes on once it is created (`RunSetup`); `Finish` need not
  be called;
* whoever closes connections goes on, as do the watchers and the timers of their
  contexts (`ClientConns!ConnFairness`); connections need not come up, nor servers
  answer.

Properties of termination allow a panic: the process has ended.  Deadlock is
checked wherever the specification has an explicit final step (`Terminated`).
`CHECK_DEADLOCK FALSE` stands for `Pacer`, `RunSetup`, `Printer` and `Requests`, which
stop when they are done, and in the violation run of the streaming calls, where the
lost goroutine is the point.

## Proofs

Every invariant and every safety action property of the passing runs is a theorem, for
all values of the constants that the assumptions of the modules allow (and, where a
theorem says so, under one more hypothesis).  The library's induction theorems take an
operator as a parameter, which the provers cannot instantiate; induction over numbers is
done with a set instead: the least element of a set of numbers (`LeastNumber`, by
`WFMin`) gives `InductionOnSet`, and recursive functions are shown to satisfy their
equations with it before anything else is said of them.

`Requester_proofs` proves, for all values of the constants that satisfy
`RequesterAssumption` (any schedule, any number of workers, requests,
connections, any set of `Stop` callers):

* `TypeCorrect`: `TypeOK`, with the strengthening `CounterOK`: at the select the
  counter has already been incremented, so the request it hands over exists.
* `ScheduleCorrect`: `ScheduleFollowed`.  The property speaks of the moments between two
  ticks.  `FollowInv` says what holds inside one: the active workers and those still
  to start, or still to stop, make up what is expected after the tick.  It needs that a
  worker which starts was not active and one which is stopped was (`ActiveChange`), which
  follows from the order of creation and of stopping.
* `RetireCorrect`: `NoSpuriousRequest` and `StoppedInOrder`, both synchronous and
  asynchronous.  Neither is inductive.  `OrderInv` adds `PhaseOK` (which control
  points of the caller of `Run` and of the pacer go together), `QuietOK` (nothing has
  started before the engine has, and the control goroutine has ended before the
  pacer's deferred calls stop the workers), and `CreatedOK` (worker `w` exists exactly when `created` has reached it).
* `SyncAllWorkDone`: with synchronous workers `AllWorkDone`.  `SyncInv` says that a
  worker which makes a request has not left its loop, that once the workers were
  counted it is one of those that were, and that a result has been collected from
  each of them when the results channel is closed.  The count is read before the
  pacer takes `wm`, so this rests on `StoppedInOrder`.  The same statement fails for asynchronous workers
  (`requester_async_work`), hence the assumption `~Async`.
* `SyncReportComplete`: `ReportComplete`, from `IssueInv` (requests are issued in
  order and only by the pacer) and `SyncAllWorkDone`.
* `SyncImplementsLoadRun`: initial states map to initial states and each step to a
  step of `LoadRun` or a stutter.
* `EndCorrect`: `NoConnectionLeft` and `IssuesAllRequests`, asynchronous runs
  included.  `EndInv` adds that without a call of `Stop` there is no token, so that
  the pacer leaves its loop only when every request has been issued.

`Reporter_proofs`, for any results, any number skipped or kept, any channel
capacities (`ReporterAssumption`):

* `SampleCorrect`: `SampleOfCounted`.  `CountInv` adds that nothing is counted before
  the skipped results are through.
* `ReportCorrect`: `ReportSeesAll`.  `LoopsInv` says how far both loops are when
  `Finish` goes on, `KeptInv` that what left a channel is in what was received,
  `SentOnce` that nothing is sent twice.  The count of the report is then a
  cardinality of a sequence without duplicates, hence the lemmas on channels.

`Printer_proofs`, for any reports (`HistogramAssumption`, `PrinterAssumption`: the failed
details of a report are among the errors the reporter counted, and are all of them when
every result was kept, which is what `SampleCorrect` says of a report):

* `PercentilesCorrect`: `PercentileIsNearestRank`, from the arithmetic of the index, of which
  `OrdinalsExact` says when rounding can change it, and the order of the latencies.
* `BucketsCorrect`: `BucketsCountTheirOwn`.  `WalkInv` says that at any point of the loop each
  bucket has been given exactly its own among the latencies counted so far, and that the
  next latency is beyond the buckets before the current one.
* `LinesCorrect`: `LinesAlign`, for any counts and marks.
* `OutputsCorrect`: `OutputsAgree`.  `SumInv` says that the counts add up to the latencies
  walked through, `PrintInv` that printing changes nothing in the report and each document
  shows what the report has; two documents then agree because each agrees with the report.

`StreamCalls_proofs`, for any configuration of a call and any number of messages
(`StreamAssumption`): `LimitsCorrect` (`SendsWithinLimits`), `DrainCorrect`
(`DrainsOnlyCancelled`) and `SendersCorrect` (`SendersCloseStream`), all from one
invariant `StreamInv`.  Its core is where the timer's token is: in `cancel` until the
one goroutine that may take it does, so at most one message follows the end of the
duration; in a bidirectional call the send goroutine is the only one to take it
while it is in its loop.

`Pacer_proofs`, for any rates, steps, durations and segments, and hits accepted at any
time (`PacerAssumption`: what is followed of the run is far from overflowing `uint64`), of
loads that are `Regular` (see [below](#where-the-code-does-not-do-what-it-says)):

* `StopsCorrect`: `StopsAtEnd`, and `WaitsCorrect`: `WaitsWhenCaughtUp`, from `PacerInv`.  Most
  of the work is arithmetic: that `hits`, which the code computes in closed form, is the sum
  of the rates asked for up to then (`Schedule`), for steps, lines and segments,
  before and after the rate has become constant.
* `PaceCorrect`: `NeverAhead`.  `AheadInv` says that every hit sent, and the one about to be
  sent, is `DueBy` the current tick: it is within what the schedule asks for by the
  end of that tick, or it is the one hit more that a pacer of segments sends at the end.
  That is inductive when steps are of whole seconds (`WholeSteps`), since then every step
  asks for a whole number of hits, and a wait computed at the rate of one does not reach past
  it.  Without it the theorem is false: of a load that falls by one every sixth of a second from
  4 a second, the third hit is sent after the load has ended, with fewer than two asked for.  The bound of one follows when at most a hit is asked for in a tick
  (`OneATick`; a tick of the code is a nanosecond).

`RunSetup_proofs`, for any options and configurations whose values have the types of the
code (`RunSetupAssumption`):

* `AcceptedTicker`: the ticker made of any settings `NewConfig` accepts, negative durations
  included, is one that `WorkerTickerAssumption` allows; a schedule has a way to go, and
  steps whose length is not zero, and positive for a line.
* `ConfigCorrect`: `AcceptedIsConsistent`, and that the ticker is one of those.  `SetupInv` adds that
  the configuration has its types (`ConfigOK`) after any number of options, and what its ticker's
  steps are (`TickerSteps`), from which follows when its goroutine can panic (`PanicOK`).  It does
  not follow that a run can start: see [below](#where-the-code-does-not-do-what-it-says).
* `OrderCorrect`: `OrderOfSubjectsIsFree`.  An option writes only the fields of its subject and
  looks at no others (`ApplyLocal`), options about different things have no field in common
  (`FieldsApart`), so two of them commute (`ApplySwap`), and so they do in the middle of a list
  (`AllSwap`).
* `DataCorrect`: `LastDataIsUsed`.  `DataInv` says that the data, the encoding and the data
  function of the configuration so far are those of the last options among those applied that
  give each (`DataOfLast`), those of a configuration counted one by one (`UpTo`).
* `EndsCorrect`: `EndsAtStop`, when start and stop are below half the range of `uint`
  (`CountsFit`): beyond it `int(wc)` is negative.  `LoopOK` says that the count is a number of whole
  steps away from the start, fewer than have passed, and that the workers follow it.
* `DoneCorrect`: `DoneIsLast`, since the value with `Done` leaves the ticker goroutine at its
  end (`DoneInv`).

`Requests_proofs`, for any number of items and calls, any request numbers and any setups
(`DataProviderAssumption`, `RequestsAssumption`):

* `DataCorrect`: `CallGetsItsData` of the data provider.  `CallGetsItsData` speaks of calls
  that are done; `DataInv` adds what they rely on
  before: `CacheOK`, that an entry of an array's cache is either missing or the
  item of its index and any other cache is the whole of the data, and `CallOK`,
  that a call which was promised an entry still finds it (entries are never taken
  away: `FillKeepsCache`) and one that was not has decoded its own.
* `RequestsUseProvider`: `RequestsSpec` implements the specification of `DataProvider`, so
  `DataCorrect` holds of concurrent requests with their metadata and streams
  (`RequestsDataCorrect`).
* `MetadataCorrect`: `CallGetsItsMetadata`, from `MetaInv`: the preseeded map is there exactly
  when calls share one, and has the encoding by the time any of them is ready to send.
* `CrashesCorrect`: `CrashesAreKnown`, from it and from `DataInv` (a call without data is
  refused unless it has a message provider).
* `StreamTurnCorrect`: `StreamTakesInTurn`, from `TurnInv`: the index of the static provider is
  the number of messages given modulo the number of items, one step late at the end of
  a round.

`TestRun_proofs`, for any number of connections, tests and calls
(`TestRunAssumption`: no call belongs to two tests, and no two files of a lookup have the
same name, as the code keeps them by name):

* `CloseCorrect`: `ClosedOnce`.  `CloseInv` says that one caller holds the lock, that the
  connections before its own are shut down and those after it are not, and that nobody
  who gets the lock later finds connections; `StageInv` that nobody closes
  between two runs.
* `PanicCorrect`: `PanicOnlyIfLate`.  `IndexInv` says that a handler's index is that of a
  row unless its call was given up in an earlier test; it rests on a test
  returning only when its calls have ended or were given up (`ClientInv`,
  `PhaseInv`).
* `CountsCorrect`: `CountsExact`, from all of these and `CountInv`: every handler of the test has
  a row of its own that holds the messages it has been through (`RowsInv`, `ProgressInv`), the
  index of a server streaming call is in the send counter once for each of its
  replies (`SendsInv`), and the connections counted lie between those that are
  up or were used and those that were tried (`ConnsInv`).
* `LookupsCorrect`: `LookupsAgree`, cyclic imports included.  A file that is resolved is
  resolved within some least depth, and its imports within a smaller one; the number of
  files within that depth puts them in an order.  Conversely, along an order each file is
  resolved within the depth of its place.

Only model-checked is liveness, which is out of the prover's reach: `RunReturns`,
`StopEndsRun`, `ScheduleEnds`, `EventuallyReported`, `CallReturns`, `CloseReturns`.  The
hypotheses that narrow a theorem are those named above: `~Async` for `AllWorkDone`,
`ReportComplete` and `ImplementsLoadRun`; `Regular`, `WholeSteps` and `OneATick` for the pacers;
`CountsFit` for `EndsAtStop`.

## Where the code does not do what it says

Three runs show a statement of the repository violated.

* `requester_async_work`: "It blocks until all work is done" (`requester.go:173`).
  With `async` a worker that was created after `nw` was read can take the place of
  one that still waits for its requests.
* `requester_reason`: `Stop` sends its token before it stores its reason
  (`requester.go:218`), so a run ended by the duration may be reported as normal.
* `bidi_both`: with a stream duration and an interceptor that ends the call, the
  receive goroutine can block for ever on `cancel` (`worker.go:618`).

Conditions the other properties need, and what lies beyond them:

* `AlignedEndsAtStop` needs whole steps: a step that does not divide the way to
  Stop passes it, without `MaxDuration` nothing corrects the count
  (`worker_ticker.go:98`).
* Not all that `AcceptedIsConsistent` holds of can run.  `NewConfig` accepts a load that starts at
  0, of which the pacer panics (`pacer.go:104`), and steps of negative length, since it refuses
  only zero (`options.go:226`, `242`): `time.NewTicker` panics of those of a worker ticker
  (`worker_ticker.go:72`), and this is one of the ways the property names.  A schedule with a
  negative `MaxDuration` is accepted and never ends (`worker_ticker.go:82`, `98`), hence `HasEnd`.
* `LastDataIsUsed` names the data function where one is left behind: binary data that is given
  after a function does not replace it (`options.go:501`, `542`), and the function is asked
  (`data.go:219`).
* A configuration whose message size cannot be parsed is dropped without an error by `WithConfig`
  and `WithConfigFromReader` (`options.go:1304`).  The model does so too; no property is about it.
* `PercentileIsNearestRank` excepts the p99.9 of whole thousands of latencies.  Whether an
  ordinal is whole is asked of a product of float64 values (`reporter.go:424`, `430`); for
  99.9 and 1000 it is 999.0000000000001, so that the index is not lowered and the maximum is
  reported in the place of the 999th latency.  `Rank` has the rounding (`RoundedAbove`); of the
  other percentiles no ordinal is rounded above a whole number, and one that is rounded below has
  the same index.
* `BucketsCountTheirOwn` states what the code does with latencies beyond the last
  mark: they are counted in the bucket before the last, although the last one
  is labelled `>=` (`reporter.go:481`).
* `Regular`, which the step and line pacers of the run and the loads of the theorems are:
  rates that stay constant divide a second, and three kinds of load are left out.  Steps
  that go below zero before `LoadDuration` make the stop rate wrap around (`pacer.go:120`).
  Durations that end within a step make `baseHits` larger than the hits expected
  (`pacer.go:147`, `173`).  A load without a duration that starts beyond its stop rate never
  becomes constant, since `constAt` is then 0 (`pacer.go:129`, `146`).
* `NeverAhead` holds of steps of whole seconds: the wait for a hit is computed at the rate of the
  moment (`pacer.go:176`), and with falling steps that are shorter it reaches past them.
* Segments that end with a pause send one hit too many, since `timeForHit` never exceeds
  `totalDuration` (`pacer.go:456`, `477`); `NeverAhead` has room for it.
* `CrashesAreKnown` lists how `makeRequest` can end the process: compression with
  metadata that all calls share (`worker.go:136`, two calls at once), compression
  with a metadata provider that returns nil, and a message provider for a call
  that is not client streaming and has no data (`worker.go:182`, then 208 or 210).
* `CallGetsItsMetadata` has the value of request 0 for templates whose actions are
  all inside a branch (`calldata.go:163`), and `StreamTakesInTurn` the first item alone for
  every message after the first pass of a dynamic stream (`data.go:457`).
* `OutputsAgree` says of the Prometheus buckets only that they add up:
  `CumulativeCount` is each bucket's own count (`prometheus.go:84`).  It speaks of documents that were
  printed: options that are no strings make the Prometheus format fail (`prometheus.go:235`).
* `LookupsAgree` goes one way: a proto file is searched without its imports
  (`protodesc.go:36`), a descriptor set with all its files.  Calls with a leading dot are
  documented as valid (`protodesc.go:158`) and are so for these two, which strip it
  (`protodesc.go:169`); reflection is asked with it (`protodesc.go:84`) and finds none of them.
  Of two files of a set that declare the service, the order of a map decides
  (`protodesc.go:148`).  A cycle of imports in a descriptor set
  overflows the stack (`protodesc.go:132`).
* `CountsExact` leaves out the sends of server streaming calls in a test that also has
  bidirectional ones, which count theirs with them (`greeter_server.go:165`).
* The timer goroutine of a streaming call may hold its token when `cancel` is
  closed; the send then panics (`worker.go:361`).  The models have this step, and
  no property rules it out.

## What is not modelled

* Rounding of float64 in `Pacer`, and in `Histogram` but for the ordinals of percentiles; overflow of
  durations.  An infinite interval, of a rate of zero, is converted to the constant
  `InfiniteWait`: what Go makes of it depends on the processor.
* Pacers with steps of negative length, which `NewConfig` accepts.
* A unary call of which `stats.End` comes after the call has returned: gRPC is
  external.
* `lastNDetails` of the reporter, which is written and never read; the branch
  `i >= cap(dp.cachedMessages)` of `getMessages`, which is never taken, as the
  cache of an array is made with the length of the array.
* Errors of decoding and templates: they end a call before anything is shared.
* Timers follow Go 1.23 and later, where `Stop` leaves no stale value behind.
* Client streaming calls with binary data, which take the path of `"stream"`.
* The contents of files, certificates and templates, and their parsing; the
  template functions.
* `newClientConn`, which turns the configuration into dial options of gRPC.
* The layout of documents: the charts and scripts of the HTML page, colours, number
  formats.
* Overflow of the counters of `int` and `uint64` width: the inputs that reach it take longer
  than any run.
* The names of stop reasons, logging, and generated code.  The sleep, wrapped and
  gtime test servers, which keep no state.
* The command line and the web application: the repository at this commit has none.

## Plan

1. Done: `LoadRun`, `Requester`; `WorkerTicker`, `RunConfig`, `Options`, `RunSetup`;
   `Reporter`, `Histogram`, `Printer`; the streaming calls; `Pacer`;
   `DataProvider`, `CallMetadata`, `MessageProvider`, `Requests`; `ClientConns`,
   `MethodDesc`, `Greeter`, `TestRun`; and the proofs of every
   invariant, in eight modules.
2. What would come next: asynchronous and streaming requests in `Requester`, with the
   call of `StreamCalls` in the place of the unary one, and `Reporter` in the place of its
   one-step reporter; an abstract specification of a call (it returns, and is
   counted once) that the streaming calls and the unary one implement.
3. Proofs: `AllWorkDone` and `ReportComplete` of asynchronous workers under the
   schedules for which they hold; how far ahead a hit can be when steps are not whole
   seconds; refinements of the specification of item 2.
