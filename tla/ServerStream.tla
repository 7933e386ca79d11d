----------------------------- MODULE ServerStream -----------------------------
(***************************************************************************)
(* makeServerStreamingRequest of runner/worker.go: one goroutine receives  *)
(* messages until the stream ends; the count, an interceptor or the cancel *)
(* channel cancel the call's context, which makes gRPC end the stream.     *)
(*                                                                         *)
(* External: the server, which may send, end the stream or be silent, and  *)
(* RecvMsg of gRPC, which returns an error once the context is cancelled   *)
(* or its timeout (config.timeout) has passed, though messages that had    *)
(* arrived before may be returned first.                                   *)
(***************************************************************************)
EXTENDS StreamTimer

VARIABLES
    ctx,                \* "live" or "cancelled": callCancel()
    interceptCanceled,
    counter,
    received            \* messages RecvMsg returned

callVars == <<ctx, interceptCanceled, counter, received>>

Init ==
    /\ TimerInit
    /\ ctx = "live" /\ interceptCanceled = FALSE
    /\ counter = 0 /\ received = 0

Start == Invoke("check") /\ UNCHANGED callVars

\* "we should check before receiving a message too"
Check ==
    /\ pc = "check"
    /\ \/ /\ call.duration /\ TakeCancel
          /\ ctx' = "cancelled" /\ pc' = "closeDone"
       \/ /\ ~call.duration \/ cancel = 0
          /\ pc' = "recv" /\ UNCHANGED <<timerVars, ctx>>
    /\ UNCHANGED <<call, interceptCanceled, counter, received>>

\* RecvMsg returns a message.  The first ErrEndStream of an interceptor cancels
\* the context; a second one, or another error of it, leaves the loop.
RecvMsg ==
    /\ pc = "recv" /\ received < MaxMsgs
    /\ received' = received + 1
    /\ \/ pc' = "count" /\ UNCHANGED <<ctx, interceptCanceled>>
       \/ /\ call.intercept /\ ~interceptCanceled
          /\ pc' = "count" /\ ctx' = "cancelled" /\ interceptCanceled' = TRUE
       \/ /\ call.intercept
          /\ pc' = "closeDone" /\ UNCHANGED <<ctx, interceptCanceled>>
    /\ UNCHANGED <<call, timerVars, counter>>

\* RecvMsg returns io.EOF or another error.
RecvEnd ==
    /\ pc = "recv"
    /\ pc' = "closeDone"
    /\ UNCHANGED <<call, timerVars, callVars>>

CountRecv ==
    /\ pc = "count"
    /\ counter' = counter + 1
    /\ ctx' = IF call.count > 0 /\ counter + 1 >= call.count THEN "cancelled" ELSE ctx
    /\ pc' = "cancel"
    /\ UNCHANGED <<call, timerVars, interceptCanceled, received>>

\* Mutant of CheckAfter: the token is taken, the context is not cancelled.
CheckAfterUncancelled ==
    /\ pc = "cancel" /\ pc' = "check"
    /\ \/ call.duration /\ TakeCancel
       \/ (~call.duration \/ cancel = 0) /\ UNCHANGED timerVars
    /\ UNCHANGED <<call, callVars>>

\* The second look at cancel, after the message.
CheckAfter ==
    /\ pc = "cancel" /\ pc' = "check"
    /\ \/ call.duration /\ TakeCancel /\ ctx' = "cancelled"
       \/ (~call.duration \/ cancel = 0) /\ UNCHANGED <<timerVars, ctx>>
    /\ UNCHANGED <<call, interceptCanceled, counter, received>>

\* The channels are closed, and the deferred callCancel() runs on the way out.
Finish ==
    /\ CloseChannels
    /\ ctx' = IF pc' = "returned" THEN "cancelled" ELSE ctx
    /\ UNCHANGED <<interceptCanceled, counter, received>>

Worker == Start \/ Check \/ CountRecv \/ CheckAfter \/ Finish

Next == Worker \/ RecvMsg \/ RecvEnd \/ (Timer /\ UNCHANGED callVars)

TypeOK ==
    /\ TimerTypeOK
    /\ pc \in {"begin", "check", "recv", "count", "cancel", "closeDone",
               "closeCancel", "returned"}
    /\ ctx \in {"live", "cancelled"}
    /\ interceptCanceled \in BOOLEAN
    /\ counter \in 0..MaxMsgs /\ received \in 0..MaxMsgs
=============================================================================
