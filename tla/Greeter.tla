------------------------------- MODULE Greeter -------------------------------
(***************************************************************************)
(* The server of the repository's tests (internal/helloworld,              *)
(* greeter_server.go): its handlers, each a goroutine of the server, and   *)
(* the counters they record their calls in, which tests reset and read.    *)
(* A call is known by its id; the messages it sends are recorded as that   *)
(* id.  What a client does to a call (gone) is decided by TestRun.         *)
(***************************************************************************)
EXTENDS Integers, Sequences, FiniteSets

CONSTANTS
    Calls,      \* the calls of every test
    TypeOf,     \* per call: "unary", "ss", "cs" or "bidi"
    Messages,   \* how many messages the client of a stream sends
    Replies     \* len(StreamData)

CallTypes == {"unary", "ss", "cs", "bidi"}

ASSUME GreeterAssumption ==
    /\ TypeOf \in [Calls -> CallTypes]
    /\ Messages \in Nat /\ Replies \in Nat

VARIABLES
    callCounts, \* per type
    calls,      \* per type and call, the messages received
    sendCounts, \* per type and call, the messages sent
    connCount,  \* Stats.connCount
    handler,    \* the point each handler is at
    callIdx,    \* the index it holds, from 1
    streamed,   \* how many messages it has received or, for "ss", sent
    gone,       \* the calls whose client has given them up
    panic       \* a handler has indexed out of range: the process is dead

counters == <<callCounts, calls, sendCounts>>
handlers == <<handler, callIdx, streamed>>
greeterVars == <<counters, connCount, handlers, gone, panic>>

NoCalls == [t \in CallTypes |-> <<>>]

GreeterInit ==
    /\ callCounts = [t \in CallTypes |-> 0]
    /\ calls = NoCalls /\ sendCounts = NoCalls
    /\ connCount = 0
    /\ handler = [c \in Calls |-> "none"]
    /\ callIdx = [c \in Calls |-> 0]
    /\ streamed = [c \in Calls |-> 0]
    /\ gone = {} /\ panic = FALSE

-----------------------------------------------------------------------------
(* The handlers *)

At(c, point) == handler' = [handler EXCEPT ![c] = point]

\* Mutant of RecordCall: the index is the length, not the last position.
RecordCallBeyond(c) ==
    /\ handler[c] = "called"
    /\ LET t == TypeOf[c]
       IN  /\ callCounts' = [callCounts EXCEPT ![t] = @ + 1]
           /\ calls' = [calls EXCEPT ![t] = Append(@, <<>>)]
           /\ callIdx' = [callIdx EXCEPT ![c] = Len(calls'[t]) + 1]
           /\ At(c, IF t \in {"unary", "ss"} THEN "message" ELSE "recv")
    /\ UNCHANGED <<sendCounts, connCount, streamed, gone, panic>>

\* recordCall, under mutex.
RecordCall(c) ==
    /\ handler[c] = "called"
    /\ LET t == TypeOf[c]
       IN  /\ callCounts' = [callCounts EXCEPT ![t] = @ + 1]
           /\ calls' = [calls EXCEPT ![t] = Append(@, <<>>)]
           /\ callIdx' = [callIdx EXCEPT ![c] = Len(calls'[t])]
           /\ At(c, IF t \in {"unary", "ss"} THEN "message" ELSE "recv")
    /\ UNCHANGED <<sendCounts, connCount, streamed, gone, panic>>

\* stream.Recv of SayHelloCS and SayHelloBidi: a message, the end of the stream,
\* or an error once the client is gone.
Recv(c) ==
    /\ handler[c] = "recv"
    /\ \/ /\ streamed[c] < Messages
          /\ At(c, "message") /\ streamed' = [streamed EXCEPT ![c] = @ + 1]
       \/ /\ streamed[c] = Messages \/ c \in gone
          /\ At(c, "end") /\ streamed' = streamed
    /\ UNCHANGED <<counters, connCount, callIdx, gone, panic>>

\* Mutant of RecordMessage: the message goes to the latest call.
RecordMessageLatest(c) ==
    /\ handler[c] = "message"
    /\ calls' = [calls EXCEPT ![TypeOf[c]][Len(calls[TypeOf[c]])] = Append(@, c)]
    /\ At(c, CASE TypeOf[c] = "unary" -> "end" [] TypeOf[c] = "cs" -> "recv"
               [] OTHER -> "send")
    /\ UNCHANGED <<callCounts, sendCounts, connCount, callIdx, streamed, gone, panic>>

\* recordMessage, under mutex: the index was taken in another section.
RecordMessage(c) ==
    /\ handler[c] = "message"
    /\ LET t == TypeOf[c]
       IN  IF callIdx[c] \in DOMAIN calls[t]
           THEN /\ calls' = [calls EXCEPT ![t][callIdx[c]] = Append(@, c)]
                /\ At(c, CASE t = "unary" -> "end" [] t = "cs" -> "recv"
                           [] OTHER -> "send")
                /\ UNCHANGED panic
           ELSE panic' = TRUE /\ UNCHANGED <<calls, handler>>
    /\ UNCHANGED <<callCounts, sendCounts, connCount, callIdx, streamed, gone>>

\* stream.Send of SayHellos, until StreamData is sent, and of SayHelloBidi; it may
\* fail once the client is gone.
Send(c) ==
    /\ handler[c] = "send"
    /\ \/ /\ TypeOf[c] = "ss" /\ streamed[c] < Replies
          /\ At(c, "count") /\ streamed' = [streamed EXCEPT ![c] = @ + 1]
       \/ TypeOf[c] = "bidi" /\ At(c, "count") /\ streamed' = streamed
       \/ /\ c \in gone \/ (TypeOf[c] = "ss" /\ streamed[c] = Replies)
          /\ At(c, "end") /\ streamed' = streamed
    /\ UNCHANGED <<counters, connCount, callIdx, gone, panic>>

\* recordStreamSendCounter, under sendMutex.  SayHelloBidi too counts its sends as
\* those of "ss".
CountSend(c) ==
    /\ handler[c] = "count"
    /\ sendCounts' = [sendCounts EXCEPT !["ss"] = Append(@, callIdx[c])]
    /\ At(c, IF TypeOf[c] = "ss" THEN "send" ELSE "recv")
    /\ UNCHANGED <<callCounts, calls, connCount, callIdx, streamed, gone, panic>>

Handling ==
    /\ ~panic
    /\ \E c \in Calls : \/ RecordCall(c) \/ Recv(c) \/ RecordMessage(c)
                        \/ Send(c) \/ CountSend(c)

-----------------------------------------------------------------------------
(* What the tests read *)

\* GetSendCounts(t)[k - 1]: sendCounts keeps the index of every send.
SendCount(t, k) == Cardinality({j \in DOMAIN sendCounts[t] : sendCounts[t][j] = k})
=============================================================================
