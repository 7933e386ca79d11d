------------------------------- MODULE Reporter -------------------------------
(***************************************************************************)
(* How the results of a run become a report: the results channel written   *)
(* by the stats handlers (runner/stats_handler.go), the sampled results    *)
(* written by goroutines nobody waits for (runner/worker.go,               *)
(* makeUnaryRequest), the two loops of Reporter.Run (runner/reporter.go),  *)
(* and Finish (runner/requester.go), which closes both channels.           *)
(*                                                                         *)
(* A result is identified by its request; Failing holds the requests that  *)
(* end with an error.  The run engine (module Requester) calls Finish when *)
(* every result has been sent.                                             *)
(***************************************************************************)
EXTENDS Integers, Sequences, FiniteSets

CONSTANTS
    Results,        \* the requests that produce a result
    Failing,        \* those that fail
    Sampled,        \* those whose payloads are captured
    SkipFirst,      \* config.skipFirst
    MaxResults,     \* config.maxResults, at most this many details are kept
    ResultsCap,     \* capacity of the results channel
    SampledCap      \* capacity of the sampledResults channel, maybe 0

ASSUME ReporterAssumption ==
    /\ IsFiniteSet(Results)
    /\ Failing \subseteq Results
    /\ Sampled \subseteq Results
    /\ SkipFirst \in Nat
    /\ MaxResults \in Nat \ {0}
    /\ ResultsCap \in Nat \ {0}
    /\ SampledCap \in Nat

VARIABLES
    results,        \* the results channel
    sampledResults, \* the sampledResults channel
    call,           \* per request: "running", "sent"
    capture,        \* per request: "none", "sending", "sent" or "lost"
    finish,         \* "open", "closing", "waiting" or "finalized"
    loop,           \* Reporter.Run: "range", "join" or "done"
    sampler,        \* its goroutine: "range", "signal" or "end"
    received,       \* the results taken from the channel, in order
    skipCount,
    totalCount,
    errorCount,     \* the sum of errorDist
    details,        \* r.details
    sampledDetails, \* r.sampledDetails
    report          \* what Finalize returns

vars == <<results, sampledResults, call, capture, finish, loop, sampler,
          received, skipCount, totalCount, errorCount, details,
          sampledDetails, report>>

sending   == <<call, capture>>
counting  == <<received, skipCount, totalCount, errorCount, details>>

ResultsClosed == finish # "open"
SampledClosed == finish \in {"waiting", "finalized"}

\* The report of Finalize is empty but for its count when there are no details.
NoReport == [count |-> -1, errors |-> -1, details |-> <<>>, samples |-> <<>>]

Init ==
    /\ results = <<>> /\ sampledResults = <<>>
    /\ call = [r \in Results |-> "running"]
    /\ capture = [r \in Results |-> "none"]
    /\ finish = "open" /\ loop = "range" /\ sampler = "range"
    /\ received = <<>>
    /\ skipCount = 0 /\ totalCount = 0 /\ errorCount = 0
    /\ details = <<>> /\ sampledDetails = <<>>
    /\ report = NoReport

-----------------------------------------------------------------------------
(* The calls *)

\* HandleRPC sends the result of a call; the call then returns and, when its
\* payloads are captured, starts a goroutine to send them.
SendResult(r) ==
    /\ call[r] = "running" /\ ~ResultsClosed
    /\ Len(results) < ResultsCap
    /\ results' = Append(results, r)
    /\ call' = [call EXCEPT ![r] = "sent"]
    /\ capture' = [capture EXCEPT ![r] = IF r \in Sampled THEN "sending" ELSE "none"]
    /\ UNCHANGED <<sampledResults, finish, loop, sampler, counting,
                   sampledDetails, report>>

\* Mutant of SendSample: no send is given up, on a closed channel either.
SendSampleForEver(r) ==
    /\ capture[r] = "sending"
    /\ ~SampledClosed /\ sampledResults = <<>> /\ sampler = "range"
    /\ capture' = [capture EXCEPT ![r] = "sent"]
    /\ sampledDetails' = Append(sampledDetails, r)
    /\ UNCHANGED <<results, sampledResults, call, finish, loop, sampler,
                   counting, report>>

\* The capturing goroutine marshals and sends the payloads.  On a closed channel
\* the send panics and the panic is recovered: the sample is lost.  On an open one
\* it waits for room, or for the reader to take the sample (the capacity is 0
\* when fewer than ten details are kept).
SendSample(r) ==
    /\ capture[r] = "sending"
    /\ \/ /\ SampledClosed
          /\ capture' = [capture EXCEPT ![r] = "lost"]
          /\ UNCHANGED <<sampledResults, sampledDetails>>
       \/ /\ ~SampledClosed /\ Len(sampledResults) < SampledCap
          /\ capture' = [capture EXCEPT ![r] = "sent"]
          /\ sampledResults' = Append(sampledResults, r)
          /\ UNCHANGED sampledDetails
       \/ /\ ~SampledClosed /\ sampledResults = <<>> /\ sampler = "range"
          /\ capture' = [capture EXCEPT ![r] = "sent"]
          /\ sampledDetails' = Append(sampledDetails, r)
          /\ UNCHANGED sampledResults
    /\ UNCHANGED <<results, call, finish, loop, sampler, counting, report>>

-----------------------------------------------------------------------------
(* Reporter.Run *)

\* Mutant of Receive: the reservoir grows by one beyond MaxResults.
ReceiveOneMoreDetail ==
    /\ loop = "range" /\ results # <<>>
    /\ results' = Tail(results)
    /\ received' = Append(received, Head(results))
    /\ \/ /\ skipCount < SkipFirst
          /\ skipCount' = skipCount + 1
          /\ UNCHANGED <<totalCount, errorCount, details>>
       \/ /\ skipCount >= SkipFirst
          /\ skipCount' = skipCount
          /\ totalCount' = totalCount + 1
          /\ errorCount' = errorCount + (IF Head(results) \in Failing THEN 1 ELSE 0)
          /\ details' = IF Len(details) <= MaxResults
                        THEN Append(details, Head(results)) ELSE details
    /\ UNCHANGED <<sampledResults, sending, finish, loop, sampler,
                   sampledDetails, report>>

\* The body of `for res := range r.results`.  Once MaxResults details are kept,
\* Intn(totalCount) picks the one that is replaced, if any.
Receive ==
    /\ loop = "range" /\ results # <<>>
    /\ results' = Tail(results)
    /\ received' = Append(received, Head(results))
    /\ \/ /\ skipCount < SkipFirst
          /\ skipCount' = skipCount + 1
          /\ UNCHANGED <<totalCount, errorCount, details>>
       \/ /\ skipCount >= SkipFirst
          /\ skipCount' = skipCount
          /\ totalCount' = totalCount + 1
          /\ errorCount' = errorCount + (IF Head(results) \in Failing THEN 1 ELSE 0)
          /\ \/ /\ Len(details) < MaxResults
                /\ details' = Append(details, Head(results))
             \/ /\ Len(details) >= MaxResults
                /\ \E j \in 0..totalCount :
                      details' = IF j < MaxResults
                                 THEN [details EXCEPT ![j + 1] = Head(results)]
                                 ELSE details
    /\ UNCHANGED <<sampledResults, sending, finish, loop, sampler,
                   sampledDetails, report>>

\* Mutant of ReceiveEnd: leaves the loop when the channel is closed, full or not.
ReceiveEndFull ==
    /\ loop = "range" /\ ResultsClosed
    /\ loop' = "join"
    /\ UNCHANGED <<results, sampledResults, sending, finish, sampler, counting,
                   sampledDetails, report>>

\* The range ends when the channel is closed and empty.
ReceiveEnd ==
    /\ loop = "range" /\ results = <<>> /\ ResultsClosed
    /\ loop' = "join"
    /\ UNCHANGED <<results, sampledResults, sending, finish, sampler, counting,
                   sampledDetails, report>>

\* The goroutine that reads the sampled results.
ReceiveSample ==
    /\ sampler = "range" /\ sampledResults # <<>>
    /\ sampledResults' = Tail(sampledResults)
    /\ sampledDetails' = Append(sampledDetails, Head(sampledResults))
    /\ UNCHANGED <<results, sending, finish, loop, sampler, counting, report>>

ReceiveSampleEnd ==
    /\ sampler = "range" /\ sampledResults = <<>> /\ SampledClosed
    /\ sampler' = "signal"
    /\ UNCHANGED <<results, sampledResults, sending, finish, loop, counting,
                   sampledDetails, report>>

\* sampledDone <- true meets <-sampledDone; then r.done <- true, which has room.
Join ==
    /\ loop = "join" /\ sampler = "signal"
    /\ loop' = "done" /\ sampler' = "end"
    /\ UNCHANGED <<results, sampledResults, sending, finish, counting,
                   sampledDetails, report>>

-----------------------------------------------------------------------------
(* Finish *)

CloseResults ==
    /\ finish = "open" /\ \A r \in Results : call[r] = "sent"
    /\ finish' = "closing"
    /\ UNCHANGED <<results, sampledResults, sending, loop, sampler, counting,
                   sampledDetails, report>>

CloseSampled ==
    /\ finish = "closing"
    /\ finish' = "waiting"
    /\ UNCHANGED <<results, sampledResults, sending, loop, sampler, counting,
                   sampledDetails, report>>

\* <-b.reporter.done, then Finalize: the details are reported if there are any.
Finalize ==
    /\ finish = "waiting" /\ loop = "done"
    /\ finish' = "finalized"
    /\ report' = [count |-> totalCount, errors |-> errorCount,
                  details |-> details,
                  samples |-> IF details # <<>> THEN sampledDetails ELSE <<>>]
    /\ UNCHANGED <<results, sampledResults, sending, loop, sampler, counting,
                   sampledDetails>>

-----------------------------------------------------------------------------
Terminated ==
    /\ finish = "finalized" /\ \A r \in Results : capture[r] # "sending"
    /\ UNCHANGED vars

Next == \/ \E r \in Results : SendResult(r) \/ SendSample(r)
        \/ Receive \/ ReceiveEnd \/ ReceiveSample \/ ReceiveSampleEnd \/ Join
        \/ CloseResults \/ CloseSampled \/ Finalize \/ Terminated

Spec == Init /\ [][Next]_vars

\* Every goroutine keeps running; calls end (they carry a timeout).
Fairness ==
    /\ \A r \in Results : WF_vars(SendResult(r)) /\ WF_vars(SendSample(r))
    /\ WF_vars(Receive \/ ReceiveEnd)
    /\ WF_vars(ReceiveSample \/ ReceiveSampleEnd)
    /\ WF_vars(Join)
    /\ WF_vars(CloseResults \/ CloseSampled \/ Finalize)

FairSpec == Spec /\ Fairness

-----------------------------------------------------------------------------
(* Properties *)

TypeOK ==
    /\ results \in Seq(Results) /\ sampledResults \in Seq(Results)
    /\ call \in [Results -> {"running", "sent"}]
    /\ capture \in [Results -> {"none", "sending", "sent", "lost"}]
    /\ finish \in {"open", "closing", "waiting", "finalized"}
    /\ loop \in {"range", "join", "done"}
    /\ sampler \in {"range", "signal", "end"}
    /\ received \in Seq(Results)
    /\ skipCount \in 0..SkipFirst
    /\ totalCount \in Nat /\ errorCount \in Nat
    /\ details \in Seq(Results) /\ sampledDetails \in Seq(Results)

\* The results that count are those after the first SkipFirst.
Counted == {received[i] : i \in SkipFirst + 1 .. Len(received)}

\* The counters agree with what was received: the skipped results are exactly
\* the first ones, and the error count is that of the results counted.
CountsAgree ==
    /\ skipCount + totalCount = Len(received)
    /\ totalCount = Cardinality(Counted)
    /\ errorCount = Cardinality(Counted \cap Failing)

\* The reservoir holds distinct results, all of them counted, and is full as
\* soon as MaxResults results were counted.
DetailsAreSample ==
    /\ \A i, j \in DOMAIN details : i # j => details[i] # details[j]
    /\ \A i \in DOMAIN details : details[i] \in Counted
    /\ Len(details) = IF totalCount < MaxResults THEN totalCount ELSE MaxResults

\* The report is made of the right results: the counters and the details agree on
\* which they are, whatever order they came in and whatever was replaced.
SampleOfCounted == CountsAgree /\ DetailsAreSample

\* The report covers every result and every sample that entered its channel,
\* although samples are still being sent while Finish closes the channels.
ReportSeesAll ==
    finish = "finalized" =>
        /\ Len(received) = Cardinality(Results)
        /\ report.count = totalCount
        /\ report.details # <<>> =>
               {report.samples[i] : i \in DOMAIN report.samples}
                   = {r \in Results : capture[r] = "sent"}

\* No goroutine that captures payloads is left blocked for ever.
SamplersEnd == \A r \in Results : capture[r] = "sending" ~> capture[r] # "sending"

\* The report is eventually made, whatever the capacities of the channels, and
\* without leaving a goroutine behind.
EventuallyReported == <>(finish = "finalized") /\ SamplersEnd
=============================================================================
