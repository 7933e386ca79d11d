------------------------------ MODULE StreamCalls ------------------------------
(***************************************************************************)
(* One streaming call of a worker: makeRequest (runner/worker.go) picks    *)
(* the function for the kind of its method.  The properties here are what  *)
(* the three kinds of call promise alike, and what each must keep to.      *)
(***************************************************************************)
EXTENDS StreamTimer

VARIABLES isLast, counter, late, closed,             \* sending
          done, sent,                                \* client streaming
          ctx,                                       \* server streaming
          interceptCanceled, received,               \* receiving
          recv, send, failed                         \* bidirectional

Client == INSTANCE ClientStream
Server == INSTANCE ServerStream
Bidi   == INSTANCE BidiStream

clientOnly == <<done, sent>>
vars == <<call, pc, timerVars, isLast, counter, late, closed, clientOnly, ctx,
          interceptCanceled, received, recv, send, failed>>

Init == Client!Init /\ Server!Init /\ Bidi!Init

Kind(k) == call.kind = k /\ ~panic
OnlyClient == UNCHANGED <<ctx, interceptCanceled, received, recv, send, failed>>
OnlyServer == UNCHANGED <<isLast, late, closed, clientOnly, recv, send, failed>>
OnlyBidi   == UNCHANGED <<clientOnly, ctx>>

Terminated == (panic \/ Ended) /\ UNCHANGED vars

\* makeRequest: the method is client streaming, server streaming, or both.
Next ==
    \/ Kind("client") /\ Client!Next /\ OnlyClient
    \/ Kind("server") /\ Server!Next /\ OnlyServer
    \/ Kind("bidi") /\ Bidi!Next /\ OnlyBidi
    \/ Terminated

TimerStep   == ~panic /\ Timer /\ UNCHANGED <<isLast, counter, late, closed, clientOnly,
                   ctx, interceptCanceled, received, recv, send, failed>>
WorkerStep  == \/ Kind("client") /\ Client!Worker /\ OnlyClient
               \/ Kind("server") /\ Server!Worker /\ OnlyServer
               \/ Kind("bidi") /\ Bidi!Worker /\ OnlyBidi
SendStep    == Kind("bidi") /\ Bidi!Send /\ OnlyBidi
RecvStep    == Kind("bidi") /\ Bidi!Recv /\ OnlyBidi
\* gRPC makes RecvMsg return an error.
StreamEnds  == \/ /\ Kind("server") /\ Server!RecvEnd /\ OnlyServer
                  /\ call.timeout \/ ctx = "cancelled"
               \/ /\ Kind("bidi") /\ Bidi!RecvEnd /\ OnlyBidi
                  /\ call.timeout \/ closed \/ failed

\* Every goroutine keeps running.  A silent server owes nothing while the stream
\* is open in its direction; gRPC ends the stream of a cancelled context and of
\* one whose timeout has passed, and a server ends a stream that is half closed.
Fairness ==
    /\ WF_vars(TimerStep) /\ WF_vars(WorkerStep)
    /\ WF_vars(SendStep) /\ WF_vars(RecvStep)
    /\ WF_vars(StreamEnds)

Spec == Init /\ [][Next]_vars /\ Fairness

-----------------------------------------------------------------------------
(* Properties *)

TypeOK ==
    /\ call.kind = "client" => Client!TypeOK
    /\ call.kind = "server" => Server!TypeOK
    /\ call.kind = "bidi" => Bidi!TypeOK

\* The call sends no more messages than streamCallCount, whatever the provider
\* offers, and none after the message it called the last.  WithStreamCallDuration
\* sets "the maximum stream call duration at which point the client will close the
\* stream": once the duration's token is in cancel, at most one message, already
\* under way, is sent.
SendsWithinLimits ==
    /\ call.count > 0 => sent <= call.count /\ (call.kind = "bidi" => counter <= call.count)
    /\ isLast => /\ pc \notin {"check", "provide", "wait"}
                 /\ send \notin {"check", "provide", "sent", "wait"}
    /\ late <= 1

\* A server streaming call never waits for another message with a live context
\* once the count is reached, an interceptor has ended the stream, or a cancel
\* token was used: it only drains what is left of the stream.
DrainsOnlyCancelled ==
    call.kind = "server" /\ pc = "recv" /\ ctx = "live" =>
        /\ call.count > 0 => received < call.count
        /\ ~interceptCanceled
        /\ timer = "end" => cancel = 1

\* However the sending side ends, the server learns of it: the stream is closed
\* in that direction, unless it had already ended.  Otherwise the call would wait
\* for a server that waits for the next message.  The cancel channel is closed
\* only when nobody but the timer can use it: both goroutines of a bidirectional
\* call have ended.
SendersCloseStream ==
    /\ send = "done" => closed \/ failed
    /\ call.kind = "client" /\ pc \in {"closeDone", "closeCancel"} => closed
    /\ call.kind = "bidi" /\ cancelCh = "closed" => recv = "done" /\ send = "done"

\* The call returns, unless the process panics, and its timer goroutine ends: no
\* worker is lost in a call.  "Clients can return ErrEndStream to end the call
\* early" (StreamRecvMsgInterceptFunc).
CallReturns == <>(panic \/ Ended)
=============================================================================
