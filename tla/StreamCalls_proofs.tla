--------------------------- MODULE StreamCalls_proofs ---------------------------
(***************************************************************************)
(* Proofs about streaming calls, for every configuration of a call and any *)
(* number of messages: the limits of what is sent, how the context of a    *)
(* server streaming call is cancelled, and who closes what.                *)
(***************************************************************************)
EXTENDS StreamCalls, TLAPS

\* Channels, counters and the timer goroutine, in every kind of call.
CommonInv ==
    /\ call \in Calls
    /\ timer \in {"off", "armed", "fired", "end"}
    /\ cancel \in {0, 1}
    /\ doneCh \in {"none", "open", "closed"}
    /\ counter \in Nat /\ sent \in Nat /\ received \in Nat /\ late \in {0, 1}
    /\ isLast \in BOOLEAN /\ done \in BOOLEAN /\ interceptCanceled \in BOOLEAN
    /\ closed \in BOOLEAN /\ failed \in BOOLEAN
    /\ ctx \in {"live", "cancelled"}

ClientLoop == {"begin", "check", "provide", "send", "sent", "wait"}
ClientEnd == {"drain", "close", "closeDone", "closeCancel", "returned"}

\* In the loop of a client streaming call the counter follows what is sent, and the
\* timer's token is in cancel until the interval has taken it and set done.
ClientInv ==
    /\ pc \in ClientLoop \cup ClientEnd /\ send = "off"
    /\ pc \in ClientLoop =>
          /\ counter = IF pc = "sent" THEN sent - 1 ELSE sent
          /\ call.count > 0 => counter < call.count
          /\ isLast => pc \in {"send", "sent"}
          /\ isLast => pc # "sent"
          /\ late = 0 /\ doneCh # "closed"
          /\ done => pc = "check"
          /\ timer = "end" => cancel = 1 \/ done
    /\ call.count > 0 => sent <= call.count
    /\ pc \in {"closeDone", "closeCancel"} => closed

ServerLoop == {"begin", "check", "recv", "count", "cancel"}

\* A live context means that nothing has asked for its end, or that the token that
\* does is still in cancel.
ServerInv ==
    /\ pc \in ServerLoop \cup {"closeDone", "closeCancel", "returned"} /\ send = "off"
    /\ sent = 0 /\ late = 0 /\ ~isLast
    /\ pc \in ServerLoop /\ ctx = "live" =>
          /\ counter = IF pc = "count" THEN received - 1 ELSE received
          /\ call.count > 0 => counter < call.count
          /\ ~interceptCanceled /\ doneCh # "closed"
          /\ timer = "end" => cancel = 1
    /\ pc \in ServerLoop => doneCh # "closed"

BidiLoop == {"check", "provide", "send", "sent", "wait"}

\* While the send goroutine of a bidirectional call is in its loop nobody else
\* takes the timer's token; the worker goes on when both goroutines have ended.
BidiInv ==
    /\ pc \in {"begin", "join", "drain", "closeDone", "closeCancel", "returned"}
    /\ send \in BidiLoop \cup {"off", "done"}
    /\ recv \in {"off", "recv", "check", "push", "done"}
    /\ sent = 0
    /\ send # "done" => (call.count > 0 => counter < call.count)
    /\ call.count > 0 => counter <= call.count
    /\ isLast => send \in {"send", "done"}
    /\ send \in BidiLoop =>
          /\ pc = "join" /\ doneCh # "closed"
          /\ timer = "end" => cancel = 1
          /\ late = 1 => send = "sent" /\ timer = "end"
    /\ send = "off" => late = 0
    /\ pc = "begin" => recv = "off" /\ send = "off"
    /\ send = "done" => closed \/ failed
    /\ pc \in {"drain", "closeDone", "closeCancel"} \/ cancelCh = "closed" =>
          recv = "done" /\ send = "done"

StreamInv ==
    /\ CommonInv
    /\ call.kind = "client" => ClientInv
    /\ call.kind = "server" => ServerInv
    /\ call.kind = "bidi" => BidiInv

LEMMA StreamInit == Init => StreamInv
  <1> SUFFICES ASSUME Init
               PROVE  StreamInv
    OBVIOUS
  <1>1. /\ call \in Calls /\ pc = "begin" /\ timer = "off" /\ cancel = 0
        /\ doneCh = "none" /\ cancelCh = "none"
        /\ done = FALSE /\ isLast = FALSE /\ counter = 0 /\ sent = 0 /\ late = 0
        /\ closed = FALSE /\ ctx = "live" /\ interceptCanceled = FALSE /\ received = 0
        /\ recv = "off" /\ send = "off" /\ failed = FALSE
    BY DEF Init, Client!Init, Server!Init, Bidi!Init, Client!TimerInit
  <1>2. call.count \in Nat
    BY <1>1, StreamAssumption DEF StreamAssumption
  <1>3. CommonInv
    BY <1>1 DEF CommonInv
  <1>4. ClientInv
    BY <1>1, <1>2 DEF ClientInv, ClientLoop, ClientEnd
  <1>5. ServerInv
    BY <1>1, <1>2 DEF ServerInv, ServerLoop
  <1>6. BidiInv
    BY <1>1, <1>2 DEF BidiInv, BidiLoop
  <1> QED  BY <1>3, <1>4, <1>5, <1>6 DEF StreamInv

-----------------------------------------------------------------------------
(* The steps of each kind of call *)

LEMMA ClientStep ==
    ASSUME CommonInv, ClientInv, call.kind = "client", Client!Next, OnlyClient
    PROVE  CommonInv' /\ ClientInv' /\ call' = call
  <1> USE StreamAssumption
      DEF StreamAssumption, CommonInv, ClientInv, OnlyClient, Client!callVars,
          Client!loopVars, Client!timerVars, ClientLoop, ClientEnd
  <1>0. call.count \in Nat
    OBVIOUS
  <1>1. CASE Client!Start
    BY <1>0, <1>1 DEF Client!Start, Client!Invoke
  <1>2. CASE Client!Check
    BY <1>0, <1>2 DEF Client!Check
  <1>3. CASE Client!Provide
    BY <1>0, <1>3 DEF Client!Provide
  <1>4. CASE Client!Send
    BY <1>0, <1>4 DEF Client!Send
  <1>5. CASE Client!CountSent
    BY <1>0, <1>5 DEF Client!CountSent
  <1>6. CASE Client!Wait
    BY <1>0, <1>6 DEF Client!Wait, Client!TakeCancel
  <1>7. CASE Client!Drain
    BY <1>0, <1>7 DEF Client!Drain, Client!DrainCancel, Client!TakeCancel
  <1>8. CASE Client!CloseStream
    BY <1>0, <1>8 DEF Client!CloseStream
  <1>9. CASE Client!Finish
    BY <1>0, <1>9 DEF Client!Finish, Client!CloseChannels
  <1>10. CASE Client!Timer /\ UNCHANGED Client!callVars
    BY <1>0, <1>10 DEF Client!Timer, Client!TimerFire, Client!TimerSend, Client!TimerQuit
  <1> QED
    BY <1>1, <1>2, <1>3, <1>4, <1>5, <1>6, <1>7, <1>8, <1>9, <1>10
    DEF Client!Next, Client!Worker

LEMMA ServerStep ==
    ASSUME CommonInv, ServerInv, call.kind = "server", Server!Next, OnlyServer
    PROVE  CommonInv' /\ ServerInv' /\ call' = call
  <1> USE StreamAssumption
      DEF StreamAssumption, CommonInv, ServerInv, OnlyServer, Server!callVars,
          Server!timerVars, ServerLoop, clientOnly
  <1>0. call.count \in Nat
    OBVIOUS
  <1>1. CASE Server!Start
    BY <1>0, <1>1 DEF Server!Start, Server!Invoke
  <1>2. CASE Server!Check
    BY <1>0, <1>2 DEF Server!Check, Server!TakeCancel
  <1>3. CASE Server!RecvMsg
    <2>1. /\ UNCHANGED <<call, timer, cancel, doneCh, cancelCh, panic, counter, isLast, late,
                         closed, done, sent, recv, send, failed>>
          /\ pc = "recv" /\ received' = received + 1
      BY <1>3 DEF Server!RecvMsg
    <2>2. \/ pc' = "count" /\ UNCHANGED <<ctx, interceptCanceled>>
          \/ pc' = "count" /\ ctx' = "cancelled" /\ interceptCanceled'
          \/ pc' = "closeDone" /\ UNCHANGED <<ctx, interceptCanceled>>
      BY <1>3 DEF Server!RecvMsg
    <2>3. interceptCanceled' \in BOOLEAN
      BY <2>2
    <2>4. CommonInv'
      BY <2>1, <2>2, <2>3
    <2>5. CASE pc' = "count" /\ UNCHANGED <<ctx, interceptCanceled>>
      BY <1>0, <2>1, <2>5, <2>4
    <2>6. CASE pc' # "count" \/ ctx' = "cancelled"
      BY <1>0, <2>1, <2>2, <2>6, <2>4
    <2> QED  BY <2>2, <2>5, <2>6
  <1>4. CASE Server!RecvEnd
    BY <1>0, <1>4 DEF Server!RecvEnd
  <1>5. CASE Server!CountRecv
    BY <1>0, <1>5 DEF Server!CountRecv
  <1>6. CASE Server!CheckAfter
    BY <1>0, <1>6 DEF Server!CheckAfter, Server!TakeCancel
  <1>7. CASE Server!Finish
    BY <1>0, <1>7 DEF Server!Finish, Server!CloseChannels
  <1>8. CASE Server!Timer /\ UNCHANGED Server!callVars
    BY <1>0, <1>8 DEF Server!Timer, Server!TimerFire, Server!TimerSend, Server!TimerQuit
  <1> QED
    BY <1>1, <1>2, <1>3, <1>4, <1>5, <1>6, <1>7, <1>8 DEF Server!Next, Server!Worker

LEMMA BidiStep ==
    ASSUME CommonInv, BidiInv, call.kind = "bidi", Bidi!Next, OnlyBidi
    PROVE  CommonInv' /\ BidiInv' /\ call' = call
  <1> USE StreamAssumption
      DEF StreamAssumption, CommonInv, BidiInv, OnlyBidi, Bidi!callVars, Bidi!recvVars,
          Bidi!sendVars, Bidi!timerVars, BidiLoop, clientOnly
  <1> DEFINE Frame == UNCHANGED <<call, pc, timer, doneCh, cancelCh, panic, recv, received,
                                  interceptCanceled, done, sent, ctx>>
  <1>0. call.count \in Nat
    OBVIOUS
  <1>1. CASE Bidi!Start
    BY <1>0, <1>1 DEF Bidi!Start, Bidi!Invoke
  <1>2. CASE Bidi!RecvMsg \/ Bidi!RecvEnd
    <2>1. /\ UNCHANGED <<call, pc, timer, cancel, doneCh, cancelCh, panic, counter, isLast,
                         late, closed, done, sent, send, failed, ctx>>
          /\ recv = "recv" /\ recv' \in {"recv", "check", "done"}
          /\ received' \in Nat /\ interceptCanceled' \in BOOLEAN
      <3>1. CASE Bidi!RecvMsg
        <4>1. received \in Nat /\ interceptCanceled \in BOOLEAN
          OBVIOUS
        <4>2. received' = received + 1
          BY <3>1 DEF Bidi!RecvMsg
        <4>3. received' \in Nat
          BY <4>1, <4>2
        <4>4. interceptCanceled' = interceptCanceled \/ interceptCanceled' = TRUE
          BY <3>1 DEF Bidi!RecvMsg
        <4>5. interceptCanceled' \in BOOLEAN
          BY <4>1, <4>4
        <4> QED  BY <3>1, <4>3, <4>5 DEF Bidi!RecvMsg
      <3>2. CASE Bidi!RecvEnd
        BY <3>2 DEF Bidi!RecvEnd
      <3> QED  BY <1>2, <3>1, <3>2
    <2>2. CommonInv'
      BY <2>1
    <2> QED  BY <1>0, <2>1, <2>2
  <1>3. CASE Bidi!Recv
    BY <1>0, <1>3 DEF Bidi!Recv, Bidi!RecvCheck, Bidi!RecvPush
  <1>4. ASSUME Bidi!CancelSend, send \in BidiLoop
        PROVE  CommonInv' /\ BidiInv' /\ call' = call
    <2>1. /\ Frame /\ cancel' = 0 /\ send' = "done" /\ closed' = TRUE
          /\ UNCHANGED <<isLast, counter, late, failed>>
      BY <1>4 DEF Bidi!CancelSend, Bidi!TakeCancel
    <2>2. CommonInv'
      BY <2>1
    <2> QED  BY <1>0, <1>4, <2>1, <2>2
  <1>5. CASE Bidi!SendCheck \/ Bidi!SendCheckAfter \/ Bidi!SendWait
    <2>1. CASE Bidi!CancelSend
      BY <1>4, <1>5, <2>1 DEF Bidi!SendCheck, Bidi!SendCheckAfter, Bidi!SendWait
    <2>2. CASE ~Bidi!CancelSend
      <3>1. /\ Frame /\ UNCHANGED <<cancel, isLast, counter, late, closed, failed>>
            /\ \/ send = "check" /\ send' = "provide"
               \/ send = "sent" /\ cancel = 0 /\ send' \in {"wait", "check"}
               \/ send = "wait" /\ send' = "check"
        BY <1>5, <2>2 DEF Bidi!SendCheck, Bidi!SendCheckAfter, Bidi!SendWait
      <3>2. CommonInv'
        BY <3>1
      <3> QED  BY <1>0, <3>1, <3>2
    <2> QED  BY <2>1, <2>2
  <1>6. CASE Bidi!Provide
    <2>1. /\ Frame /\ UNCHANGED <<cancel, counter, late, failed>>
          /\ send = "provide"
          /\ \/ send' = "send" /\ isLast' \in BOOLEAN /\ closed' = closed
             \/ send' = "done" /\ closed' = TRUE /\ isLast' = FALSE
      BY <1>6 DEF Bidi!Provide
    <2>2. CommonInv'
      BY <2>1
    <2> QED  BY <1>0, <2>1, <2>2
  <1>7. CASE Bidi!SendMsg
    <2>1. /\ Frame /\ UNCHANGED <<cancel, isLast>>
          /\ send = "send" /\ late = 0
          /\ late' = IF timer = "end" THEN 1 ELSE 0
      BY <1>7 DEF Bidi!SendMsg
    <2>2. \/ send' = "done" /\ failed' = TRUE /\ UNCHANGED <<closed, counter>>
          \/ send' = "done" /\ closed' = TRUE /\ UNCHANGED <<counter, failed>>
          \/ /\ counter' = counter + 1 /\ failed' = failed /\ ~isLast
             /\ \/ send' = "done" /\ closed' = TRUE
                \/ /\ send' = "sent" /\ closed' = closed
                   /\ ~(call.count > 0 /\ counter + 1 >= call.count)
      BY <1>7 DEF Bidi!SendMsg
    <2>3. CommonInv'
      <3>1. counter' = counter \/ counter' = counter + 1
        BY <2>2
      <3>2. closed' = closed \/ closed' = TRUE
        BY <2>2
      <3>3. failed' = failed \/ failed' = TRUE
        BY <2>2
      <3>4. counter' \in Nat
        BY <3>1
      <3>5. closed' \in BOOLEAN /\ failed' \in BOOLEAN
        BY <3>2, <3>3
      <3> QED  BY <2>1, <3>4, <3>5
    <2>4. CASE send' = "done"
      BY <1>0, <2>1, <2>2, <2>3, <2>4
    <2>5. CASE send' = "sent"
      BY <1>0, <2>1, <2>2, <2>3, <2>5
    <2> QED  BY <2>2, <2>4, <2>5
  <1>8. CASE Bidi!Join
    BY <1>0, <1>8 DEF Bidi!Join
  <1>9. CASE Bidi!Drain
    BY <1>0, <1>9 DEF Bidi!Drain, Bidi!DrainCancel, Bidi!TakeCancel
  <1>10. CASE Bidi!Finish
    BY <1>0, <1>10 DEF Bidi!Finish, Bidi!CloseChannels
  <1>11. CASE Bidi!Timer /\ UNCHANGED Bidi!callVars
    BY <1>0, <1>11 DEF Bidi!Timer, Bidi!TimerFire, Bidi!TimerSend, Bidi!TimerQuit
  <1> QED
    BY <1>1, <1>2, <1>3, <1>5, <1>6, <1>7, <1>8, <1>9, <1>10, <1>11
    DEF Bidi!Next, Bidi!Send, Bidi!Worker

LEMMA StreamStep ==
    ASSUME StreamInv, [Next]_vars
    PROVE  StreamInv'
  <1>1. CASE Kind("client") /\ Client!Next /\ OnlyClient
    BY <1>1, ClientStep DEF StreamInv, Kind
  <1>2. CASE Kind("server") /\ Server!Next /\ OnlyServer
    BY <1>2, ServerStep DEF StreamInv, Kind
  <1>3. CASE Kind("bidi") /\ Bidi!Next /\ OnlyBidi
    BY <1>3, BidiStep DEF StreamInv, Kind
  <1>4. CASE UNCHANGED vars
    BY <1>4 DEF vars, timerVars, clientOnly, StreamInv, CommonInv, ClientInv, ServerInv,
                BidiInv
  <1> QED  BY <1>1, <1>2, <1>3, <1>4 DEF Next, Terminated

-----------------------------------------------------------------------------
LEMMA StreamCorrect == Spec => []StreamInv
  <1>1. StreamInv /\ [Next]_vars => StreamInv'
    BY StreamStep
  <1> QED  BY StreamInit, <1>1, PTL DEF Spec

\* A call sends no more than its count, nothing after its last message, and one
\* message at most once its duration is over.
THEOREM LimitsCorrect == Spec => []SendsWithinLimits
  <1>1. StreamInv => SendsWithinLimits
    BY StreamAssumption
    DEF StreamAssumption, StreamInv, CommonInv, ClientInv, ServerInv, BidiInv, ClientLoop,
        ClientEnd, ServerLoop, BidiLoop, SendsWithinLimits
  <1> QED  BY StreamCorrect, <1>1, PTL

\* A server streaming call that waits for a message with a live context still has
\* something to end it: messages to count, and the timer or its token.
THEOREM DrainCorrect == Spec => []DrainsOnlyCancelled
  <1>1. StreamInv => DrainsOnlyCancelled
    BY StreamAssumption
    DEF StreamAssumption, StreamInv, CommonInv, ServerInv, ServerLoop, DrainsOnlyCancelled
  <1> QED  BY StreamCorrect, <1>1, PTL

\* Whoever ends the sending side of a call closes the stream, unless it failed, and
\* the cancel channel is closed after both goroutines have ended.
THEOREM SendersCorrect == Spec => []SendersCloseStream
  <1>1. StreamInv => SendersCloseStream
    BY StreamAssumption
    DEF StreamAssumption, StreamInv, CommonInv, ClientInv, ServerInv, BidiInv, ClientLoop,
        ClientEnd, ServerLoop, BidiLoop, SendersCloseStream
  <1> QED  BY StreamCorrect, <1>1, PTL
=============================================================================
