----------------------------- MODULE ClientStream -----------------------------
(***************************************************************************)
(* makeClientStreamingRequest of runner/worker.go: one goroutine takes     *)
(* messages from the message provider and sends them until the provider,   *)
(* the count, an error or the cancel channel says stop.                    *)
(*                                                                         *)
(* External: SendMsg and CloseAndReceive of gRPC, which return because the *)
(* call has a timeout, and the message provider.                           *)
(***************************************************************************)
EXTENDS StreamTimer

VARIABLES
    done,       \* the interval was interrupted by cancel
    isLast,     \* the provider returned ErrLastMessage
    counter,
    sent,       \* messages handed to SendMsg
    late,       \* those of them sent after the timer's token reached cancel
    closed      \* CloseAndReceive was called

loopVars == <<done, isLast, counter, sent, late>>
callVars == <<loopVars, closed>>

Init ==
    /\ TimerInit
    /\ done = FALSE /\ isLast = FALSE /\ counter = 0
    /\ sent = 0 /\ late = 0 /\ closed = FALSE

Start == Invoke("check") /\ UNCHANGED callVars

\* for !done && len(cancel) == 0
Check ==
    /\ pc = "check"
    /\ pc' = IF ~done /\ cancel = 0 THEN "provide" ELSE "drain"
    /\ UNCHANGED <<call, timerVars, callVars>>

\* messageProvider(ctd): a message, the last one, or ErrEndStream or an error.
Provide ==
    /\ pc = "provide"
    /\ \/ sent < MaxMsgs /\ pc' = "send" /\ isLast' \in BOOLEAN
       \/ pc' = "drain" /\ isLast' = FALSE
    /\ UNCHANGED <<call, timerVars, done, counter, sent, late, closed>>

\* performSend returned: without error and not at the end of the stream, the
\* loop goes on unless this was the last message or the call is cancelled.
Send ==
    /\ pc = "send"
    /\ sent' = sent + 1
    /\ late' = IF timer = "end" THEN late + 1 ELSE late
    /\ \E ok \in BOOLEAN :
          pc' = IF ~ok \/ isLast \/ cancel > 0 THEN "drain" ELSE "sent"
    /\ UNCHANGED <<call, timerVars, done, isLast, counter, closed>>

CountSent ==
    /\ pc = "sent"
    /\ counter' = counter + 1
    /\ pc' = IF call.count > 0 /\ counter + 1 >= call.count THEN "drain"
             ELSE IF call.interval THEN "wait" ELSE "check"
    /\ UNCHANGED <<call, timerVars, done, isLast, sent, late, closed>>

\* Mutant of Wait: the interrupted interval does not end the loop.
WaitNotDone ==
    /\ pc = "wait" /\ pc' = "check"
    /\ UNCHANGED timerVars \/ TakeCancel
    /\ UNCHANGED <<call, callVars>>

\* The interval elapses, or cancel interrupts it.
Wait ==
    /\ pc = "wait" /\ pc' = "check"
    /\ \/ done' = done /\ UNCHANGED timerVars
       \/ done' = TRUE /\ TakeCancel
    /\ UNCHANGED <<call, isLast, counter, sent, late, closed>>

Drain == DrainCancel("close") /\ UNCHANGED callVars

\* closeStream()
CloseStream ==
    /\ pc = "close" /\ pc' = "closeDone" /\ closed' = TRUE
    /\ UNCHANGED <<call, timerVars, loopVars>>

Finish == CloseChannels /\ UNCHANGED callVars

Worker ==
    \/ Start \/ Check \/ Provide \/ Send \/ CountSent \/ Wait
    \/ Drain \/ CloseStream \/ Finish

Next == Worker \/ (Timer /\ UNCHANGED callVars)

TypeOK ==
    /\ TimerTypeOK
    /\ pc \in {"begin", "check", "provide", "send", "sent", "wait", "drain",
               "close", "closeDone", "closeCancel", "returned"}
    /\ done \in BOOLEAN /\ isLast \in BOOLEAN
    /\ counter \in 0..MaxMsgs /\ sent \in 0..MaxMsgs /\ late \in 0..MaxMsgs
    /\ closed \in BOOLEAN
=============================================================================
