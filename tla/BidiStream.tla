------------------------------ MODULE BidiStream ------------------------------
(***************************************************************************)
(* makeBidiRequest of runner/worker.go: a goroutine receives, another      *)
(* sends, the timer goroutine of StreamTimer ends the call, and the worker *)
(* waits for both.  A receive interceptor ends the call through the same   *)
(* cancel channel of capacity 1 as the timer.                              *)
(*                                                                         *)
(* External: the server and gRPC.  A stream ends when the server ends it,  *)
(* or its timeout passes; then RecvMsg and SendMsg return errors.          *)
(***************************************************************************)
EXTENDS StreamTimer

VARIABLES
    recv,               \* "off", "recv", "check", "push" or "done"
    interceptCanceled,
    received,
    send,               \* "off", "check", "provide", "send", "sent", "wait", "done"
    isLast,
    counter,
    late,               \* messages sent after the timer's token reached cancel
    closed,             \* CloseSend was called
    failed              \* SendMsg returned an error: the stream has ended

recvVars == <<recv, interceptCanceled, received>>
sendVars == <<send, isLast, counter, late, closed, failed>>
callVars == <<recvVars, sendVars>>

Init ==
    /\ TimerInit
    /\ recv = "off" /\ interceptCanceled = FALSE /\ received = 0
    /\ send = "off" /\ isLast = FALSE /\ counter = 0 /\ late = 0
    /\ closed = FALSE /\ failed = FALSE

\* The goroutines start; the worker waits for both.
Start ==
    /\ Invoke("join")
    /\ IF pc' = "join" THEN recv' = "recv" /\ send' = "check"
                       ELSE UNCHANGED <<recv, send>>
    /\ UNCHANGED <<interceptCanceled, received, isLast, counter, late, closed, failed>>

-----------------------------------------------------------------------------
(* The receive goroutine *)

\* RecvMsg returns a message; the interceptor lets it pass or, the first time it
\* counts, returns ErrEndStream.
RecvMsg ==
    /\ recv = "recv" /\ received < MaxMsgs
    /\ received' = received + 1
    /\ \/ recv' = "recv" /\ UNCHANGED interceptCanceled
       \/ /\ call.intercept /\ ~interceptCanceled
          /\ recv' = "check" /\ interceptCanceled' = TRUE
    /\ UNCHANGED <<call, pc, timerVars, sendVars>>

\* RecvMsg returns an error: close(recvDone).
RecvEnd ==
    /\ recv = "recv"
    /\ recv' = "done"
    /\ UNCHANGED <<call, pc, timerVars, interceptCanceled, received, sendVars>>

\* if len(cancel) == 0
RecvCheck ==
    /\ recv = "check"
    /\ recv' = IF cancel = 0 THEN "push" ELSE "recv"
    /\ UNCHANGED <<call, pc, timerVars, interceptCanceled, received, sendVars>>

\* Mutant of RecvPush: the goroutine stays at the channel.
RecvPushStays ==
    /\ recv = "push" /\ cancel = 0
    /\ cancel' = 1
    /\ UNCHANGED <<call, pc, timer, doneCh, cancelCh, panic, recvVars, sendVars>>

\* cancel <- struct{}{}: blocks if the timer was faster.
RecvPush ==
    /\ recv = "push" /\ cancel = 0
    /\ recv' = "recv" /\ cancel' = 1
    /\ UNCHANGED <<call, pc, timer, doneCh, cancelCh, panic, interceptCanceled,
                   received, sendVars>>

-----------------------------------------------------------------------------
(* The send goroutine *)

\* Mutant of CancelSend: the stream is not closed.
CancelSendOpen ==
    /\ TakeCancel
    /\ send' = "done"
    /\ UNCHANGED <<call, pc, recvVars, isLast, counter,
                         late, closed, failed>>

\* if len(cancel) > 0 { <-cancel; closeStream(); break }
CancelSend ==
    /\ TakeCancel
    /\ closed' = TRUE /\ send' = "done"
    /\ UNCHANGED <<call, pc, recvVars, isLast, counter, late, failed>>

SendCheck ==
    /\ send = "check"
    /\ \/ CancelSend
       \/ /\ cancel = 0 /\ send' = "provide"
          /\ UNCHANGED <<call, pc, timerVars, recvVars, isLast, counter,
                         late, closed, failed>>

\* The message provider has a message, the last one, or ends the stream.
Provide ==
    /\ send = "provide"
    /\ \/ /\ counter < MaxMsgs
          /\ send' = "send" /\ isLast' \in BOOLEAN /\ closed' = closed
       \/ send' = "done" /\ closed' = TRUE /\ isLast' = FALSE
    /\ UNCHANGED <<call, pc, timerVars, recvVars, counter, late, failed>>

\* SendMsg fails, or the message was the last, or it counts.
SendMsg ==
    /\ send = "send"
    /\ late' = IF timer = "end" THEN late + 1 ELSE late
    /\ \/ /\ send' = "done" /\ failed' = TRUE /\ UNCHANGED <<closed, counter>>
       \/ /\ isLast
          /\ send' = "done" /\ closed' = TRUE /\ UNCHANGED <<counter, failed>>
       \/ /\ ~isLast /\ counter' = counter + 1 /\ failed' = failed
          /\ IF call.count > 0 /\ counter + 1 >= call.count
             THEN send' = "done" /\ closed' = TRUE
             ELSE send' = "sent" /\ closed' = closed
    /\ UNCHANGED <<call, pc, timerVars, recvVars, isLast>>

\* The second look at cancel, then the interval if there is one.
SendCheckAfter ==
    /\ send = "sent"
    /\ \/ CancelSend
       \/ /\ cancel = 0 /\ send' = IF call.interval THEN "wait" ELSE "check"
          /\ UNCHANGED <<call, pc, timerVars, recvVars, isLast, counter,
                         late, closed, failed>>

\* The interval elapses or cancel interrupts it (closeStream(); done = true).
SendWait ==
    /\ send = "wait"
    /\ \/ CancelSend
       \/ /\ send' = "check"
          /\ UNCHANGED <<call, pc, timerVars, recvVars, isLast, counter,
                         late, closed, failed>>

-----------------------------------------------------------------------------
(* The worker *)

\* _, _ = <-recvDone, <-sendDone
Join ==
    /\ pc = "join" /\ recv = "done" /\ send = "done"
    /\ pc' = "drain"
    /\ UNCHANGED <<call, timerVars, callVars>>

Drain == DrainCancel("closeDone") /\ UNCHANGED callVars

Finish == CloseChannels /\ UNCHANGED callVars

-----------------------------------------------------------------------------
Send == SendCheck \/ Provide \/ SendMsg \/ SendCheckAfter \/ SendWait
Recv == RecvCheck \/ RecvPush
Worker == Start \/ Join \/ Drain \/ Finish

Next == Send \/ Recv \/ RecvMsg \/ RecvEnd \/ Worker \/ (Timer /\ UNCHANGED callVars)

TypeOK ==
    /\ TimerTypeOK
    /\ pc \in {"begin", "join", "drain", "closeDone", "closeCancel", "returned"}
    /\ recv \in {"off", "recv", "check", "push", "done"}
    /\ interceptCanceled \in BOOLEAN
    /\ received \in 0..MaxMsgs
    /\ send \in {"off", "check", "provide", "send", "sent", "wait", "done"}
    /\ isLast \in BOOLEAN
    /\ counter \in 0..MaxMsgs /\ late \in 0..MaxMsgs
    /\ closed \in BOOLEAN /\ failed \in BOOLEAN
=============================================================================
