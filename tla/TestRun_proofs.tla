---------------------------- MODULE TestRun_proofs ----------------------------
(***************************************************************************)
(* Proofs about runs against the test server, for any number of            *)
(* connections, any list of tests and any calls of theirs: who closes the  *)
(* connections, which index a handler holds, and what a test counts.       *)
(***************************************************************************)
EXTENDS TestRun, SequenceTheorems, FiniteSetTheorems, WellFoundedInduction, TLAPS

-----------------------------------------------------------------------------
(* The client connections *)

Holding(c) == closer[c] \in {"watch", "close", "recv"}

ConnTypeOK ==
    /\ closer \in [Closers -> {"idle", "lock", "watch", "close", "recv", "done"}]
    /\ cur \in [Closers -> Conns]
    /\ conns \in BOOLEAN
    /\ conn \in [Conns -> {"connecting", "ready", "shutdown"}]
    /\ watcher \in [Conns -> {"none", "check", "get", "wait", "send", "end"}]

\* One caller at a time closes the connections, from the first on; the others find
\* them open until it has the lock and all closed when it has released it.
CloseInv ==
    /\ \A c, d \in Closers : Holding(c) /\ Holding(d) => c = d
    /\ \A c \in Closers :
          /\ closer[c] \in {"idle", "lock"} => cur[c] = 1
          /\ closer[c] = "done" => ~conns
          /\ Holding(c) =>
                /\ conns
                /\ \A n \in Conns : n < cur[c] => conn[n] = "shutdown"
                /\ \A n \in Conns : n > cur[c] => conn[n] # "shutdown"
                /\ conn[cur[c]] = "shutdown" <=> closer[c] = "recv"
    /\ conns /\ (\A c \in Closers : ~Holding(c)) => \A n \in Conns : conn[n] # "shutdown"
    /\ ~conns => \A n \in Conns : conn[n] = "shutdown"

\* Nobody closes connections between two runs.
StageInv ==
    /\ stage \in {"reset", "resetSends", "resetConns", "new", "refused"} =>
           \A c \in Closers : closer[c] \in {"idle", "done"}
    /\ stage = "run" => closer["run"] = "idle"
    /\ stage = "check" => closer["run"] = "done"

\* What closeClientConns does with the connections.
LEMMA ClosingStep ==
    ASSUME ConnTypeOK, CloseInv, NEW c \in Closers,
           Lock(c) \/ Watch(c) \/ CloseConn(c) \/ ReceiveShutdown(c)
    PROVE  ConnTypeOK' /\ CloseInv'
  <1> USE ClientConnsAssumption
      DEF ClientConnsAssumption, Conns, ConnTypeOK, CloseInv, Holding, CloserAt, WatcherAt
  <1>1. CASE Lock(c)
    BY <1>1 DEF Lock, LockFree
  <1>2. CASE Watch(c)
    BY <1>2 DEF Watch
  <1>3. CASE CloseConn(c)
    BY <1>3 DEF CloseConn
  <1>4. CASE ReceiveShutdown(c)
    <2>1. /\ closer[c] = "recv" /\ conn' = conn /\ conns
          /\ cur[c] \in 1..NConns /\ NConns \in Nat
          /\ watcher' \in [Conns -> {"none", "check", "get", "wait", "send", "end"}]
          /\ \A d \in Closers : d # c => ~Holding(d)
      BY <1>4 DEF ReceiveShutdown
    <2>2. CASE cur[c] < NConns
      <3>1. /\ closer' = [closer EXCEPT ![c] = "watch"]
            /\ cur' = [cur EXCEPT ![c] = cur[c] + 1] /\ conns' = conns
        BY <1>4, <2>2 DEF ReceiveShutdown
      <3>2. \A n \in Conns : n < cur[c] + 1 <=> (n < cur[c] \/ n = cur[c])
        BY <2>1
      <3>3. \A n \in Conns : n > cur[c] + 1 => n > cur[c]
        BY <2>1
      <3>4. cur[c] + 1 \in Conns /\ cur[c] + 1 > cur[c]
        BY <2>1, <2>2
      <3> QED  BY <2>1, <2>2, <3>1, <3>2, <3>3, <3>4
    <2>3. CASE ~(cur[c] < NConns)
      <3>1. /\ closer' = [closer EXCEPT ![c] = "done"]
            /\ cur' = cur /\ conns' = FALSE
        BY <1>4, <2>3 DEF ReceiveShutdown
      <3>2. \A n \in Conns : conn[n] = "shutdown"
        <4>1. \A n \in Conns : n < cur[c] \/ n = cur[c]
          BY <2>1, <2>3
        <4> QED  BY <2>1, <4>1
      <3>3. closer \in [Closers -> {"idle", "lock", "watch", "close", "recv", "done"}]
        OBVIOUS
      <3>4. ConnTypeOK'
        BY <2>1, <3>1, <3>3
      <3>5. \A d \in Closers : closer'[d] = IF d = c THEN "done" ELSE closer[d]
        BY <3>1, <3>3
      <3>6. \A d \in Closers : closer'[d] \notin {"watch", "close", "recv"}
        BY <2>1, <3>5
      <3>7. CloseInv'
        BY <2>1, <3>1, <3>2, <3>5, <3>6
      <3> QED  BY <3>4, <3>7
    <2> QED  BY <2>2, <2>3
  <1> QED  BY <1>1, <1>2, <1>3, <1>4

\* A watcher changes nothing but itself.
LEMMA WatchingStep ==
    ASSUME ConnTypeOK, CloseInv, NEW n \in Conns,
           CheckState(n) \/ GetState(n) \/ StateChange(n) \/ Expire(n)
    PROVE  /\ ConnTypeOK' /\ CloseInv'
           /\ UNCHANGED <<closer, cur, conns, conn>>
  <1>1. UNCHANGED <<closer, cur, conns, conn>>
    BY DEF CheckState, GetState, StateChange, Expire
  <1>2. watcher' \in [Conns -> {"none", "check", "get", "wait", "send", "end"}]
    BY DEF CheckState, GetState, StateChange, Expire, WatcherAt, ConnTypeOK
  <1> QED  BY <1>1, <1>2 DEF ConnTypeOK, CloseInv, Holding

\* A caller that asks for the lock is not closing anything yet.
LEMMA CallStep ==
    ASSUME ConnTypeOK, CloseInv, NEW c \in Closers, CallClose(c)
    PROVE  ConnTypeOK' /\ CloseInv'
  BY DEF CallClose, CloserAt, ConnTypeOK, CloseInv, Holding

\* Every step keeps the invariants; the connections are only reset between runs,
\* when nobody closes them.
LEMMA ConnStep ==
    ASSUME ConnTypeOK, CloseInv, StageInv, [Next]_vars
    PROVE  ConnTypeOK' /\ CloseInv' /\ StageInv'
  <1> USE DEF greeterVars, connVars, testVars
  <1>1. CASE ResetCalls \/ ResetSends \/ ResetConns
    BY <1>1 DEF ResetCalls, ResetSends, ResetConns, ConnTypeOK, CloseInv, StageInv, Holding
  <1>2. CASE New
    <2>1. CASE UNCHANGED connVars /\ stage' \in {"new", "refused"}
      BY <1>2, <2>1 DEF New, ConnTypeOK, CloseInv, StageInv, Holding
    <2>2. CASE /\ stage' = "run" /\ conns' = TRUE
               /\ closer' = [c \in Closers |-> "idle"] /\ cur' = [c \in Closers |-> 1]
               /\ conn' = [n \in Conns |-> "connecting"]
               /\ watcher' = [n \in Conns |-> "none"]
      <3>1. 1 \in Conns
        BY ClientConnsAssumption DEF ClientConnsAssumption, Conns
      <3>2. ConnTypeOK'
        BY <2>2, <3>1 DEF ConnTypeOK
      <3>3. CloseInv'
        BY <2>2, <3>1 DEF CloseInv, Holding
      <3>4. StageInv'
        BY <2>2 DEF StageInv, Closers
      <3> QED  BY <3>2, <3>3, <3>4
    <2> HIDE DEF connVars
    <2> QED  BY <1>2, <2>1, <2>2 DEF New
  <1>3. ASSUME NEW n \in Conns, Connect(n)
        PROVE  ConnTypeOK' /\ CloseInv' /\ StageInv'
    BY <1>3 DEF Connect, ConnTypeOK, CloseInv, StageInv, Holding
  <1>4. ASSUME NEW c \in Calls, Call(c) \/ Deliver(c) \/ Return(c) \/ GiveUp(c)
        PROVE  ConnTypeOK' /\ CloseInv' /\ StageInv'
    BY <1>4 DEF Call, Deliver, Return, GiveUp, ConnTypeOK, CloseInv, StageInv, Holding
  <1>5. CASE Stop
    <2>1. CallClose("stop") /\ stage = "run" /\ stage' = "run"
      BY <1>5 DEF Stop
    <2> QED  BY <2>1, CallStep DEF Closers, StageInv, CallClose, CloserAt, ConnTypeOK
  <1>6. CASE RunEnds
    <2>1. CallClose("run") /\ stage' = "closing"
      BY <1>6 DEF RunEnds
    <2> QED  BY <2>1, CallStep DEF Closers, StageInv
  <1>7. CASE Returned \/ NextTest
    BY <1>7 DEF Returned, NextTest, Closers, ConnTypeOK, CloseInv, StageInv, Holding
  <1>8. CASE Handling /\ UNCHANGED <<connVars, testVars>>
    BY <1>8 DEF ConnTypeOK, CloseInv, StageInv, Holding
  <1>9. CASE Closing /\ UNCHANGED <<greeterVars, testVars>>
    <2>1. PICK c \in Closers : Lock(c) \/ Watch(c) \/ CloseConn(c) \/ ReceiveShutdown(c)
      BY <1>9 DEF Closing
    <2>2. StageInv'
      BY <1>9, <2>1 DEF Lock, Watch, CloseConn, ReceiveShutdown, CloserAt, WatcherAt,
                        StageInv, Closers, ConnTypeOK
    <2> QED  BY <2>1, <2>2, ClosingStep
  <1>10. CASE Watching /\ UNCHANGED <<greeterVars, testVars>>
    <2>1. PICK n \in Conns : CheckState(n) \/ GetState(n) \/ StateChange(n) \/ Expire(n)
      BY <1>10 DEF Watching
    <2> QED  BY <1>10, <2>1, WatchingStep DEF StageInv
  <1>11. CASE UNCHANGED vars
    BY <1>11 DEF vars, ConnTypeOK, CloseInv, StageInv, Holding
  <1> QED
    BY <1>1, <1>2, <1>3, <1>4, <1>5, <1>6, <1>7, <1>8, <1>9, <1>10, <1>11
    DEF Next, Terminated

LEMMA ConnInit == Init => ConnTypeOK /\ CloseInv /\ StageInv
  <1>1. 1 \in Conns
    BY ClientConnsAssumption DEF ClientConnsAssumption, Conns
  <1> QED
    BY <1>1 DEF Init, ConnsOpen, ConnTypeOK, CloseInv, StageInv, Holding, Closers

\* The step with which a caller is done changes no connection.
LEMMA DoneKeepsConns ==
    ASSUME ConnTypeOK, [Next]_vars, NEW c \in Closers,
           closer[c] # "done", closer'[c] = "done"
    PROVE  conn' = conn
  <1> USE DEF greeterVars, connVars, testVars
  <1>1. CASE UNCHANGED closer
    BY <1>1
  <1>2. CASE New
    BY <1>2 DEF New
  <1>3. CASE Stop \/ RunEnds
    BY <1>3 DEF Stop, RunEnds, CallClose
  <1>4. CASE Closing
    <2>1. PICK d \in Closers : Lock(d) \/ Watch(d) \/ CloseConn(d) \/ ReceiveShutdown(d)
      BY <1>4 DEF Closing
    <2>2. CASE Lock(d) \/ Watch(d) \/ ReceiveShutdown(d)
      BY <2>2 DEF Lock, Watch, ReceiveShutdown
    <2>3. CASE CloseConn(d)
      <3>1. closer' = [closer EXCEPT ![d] = "recv"]
        BY <2>3 DEF CloseConn, CloserAt
      <3> QED  BY <3>1 DEF ConnTypeOK
    <2> QED  BY <2>1, <2>2, <2>3
  <1>5. CASE Watching
    BY <1>5 DEF Watching, CheckState, GetState, StateChange, Expire
  <1> QED
    BY <1>1, <1>2, <1>3, <1>4, <1>5
    DEF Next, Terminated, vars, ResetCalls, ResetSends, ResetConns, Returned, NextTest,
        Connect, Call, Deliver, Return, GiveUp

\* However many callers close the connections of a run, each connection is closed
\* once, and the first caller that is done leaves none open.
THEOREM CloseCorrect == Spec => ClosedOnce
  <1> DEFINE Step(c) ==
         /\ closer[c] = "close" /\ closer'[c] = "recv" => conn[cur[c]] # "shutdown"
         /\ closer[c] # "done" /\ closer'[c] = "done" =>
                \A n \in Conns : conn[n] = "shutdown"
  <1>1. ConnTypeOK /\ CloseInv /\ StageInv /\ [Next]_vars
        => ConnTypeOK' /\ CloseInv' /\ StageInv'
    BY ConnStep
  <1>2. ASSUME ConnTypeOK, CloseInv, StageInv, [Next]_vars, NEW c \in Closers
        PROVE  Step(c)
    <2>1. closer[c] = "close" => conn[cur[c]] # "shutdown"
      BY <1>2 DEF CloseInv, Holding
    <2>2. ASSUME closer[c] # "done", closer'[c] = "done"
          PROVE  \A n \in Conns : conn[n] = "shutdown"
      <3>1. \A n \in Conns : conn'[n] = "shutdown"
        BY <1>1, <1>2, <2>2 DEF CloseInv
      <3> QED  BY <1>2, <2>2, <3>1, DoneKeepsConns
    <2> QED  BY <2>1, <2>2
  <1>3. ConnTypeOK /\ CloseInv /\ StageInv /\ [Next]_vars => [\A c \in Closers : Step(c)]_vars
    BY <1>2
  <1> QED  BY ConnInit, <1>1, <1>3, PTL DEF Spec, ClosedOnce

-----------------------------------------------------------------------------
(* The calls and the rows of the counters *)

Inside == {"message", "recv", "send", "count"}

CallTypeOK ==
    /\ tests \in TestLists /\ test \in DOMAIN tests
    /\ handler \in [Calls -> {"none", "called", "end"} \cup Inside]
    /\ callIdx \in [Calls -> Nat]
    /\ calls \in [CallTypes -> Seq(Seq(Calls))]
    /\ client \in [Calls -> {"none", "running", "done", "failed"}]
    /\ gone \subseteq Calls

\* Which calls there can be, and how far the server can be with them.
ClientInv ==
    \A c \in Calls :
        /\ client[c] # "none" => c \in Current.calls \cup Earlier
        /\ c \in Earlier => client[c] # "running"
        /\ handler[c] # "none" => client[c] \in {"running", "done"}
        /\ client[c] = "done" /\ c \notin gone => handler[c] = "end"
        /\ client[c] = "failed" => c \in gone

\* A test has made no call before its run, and waits for none after it.
PhaseInv ==
    /\ stage \in {"reset", "resetSends", "resetConns", "new", "refused"} =>
           \A c \in Current.calls : client[c] = "none"
    /\ stage \in {"closing", "check"} =>
           \A c \in Current.calls : client[c] \in {"done", "failed"}

\* A handler's index is that of a row, or it was taken before a reset.
IndexInv ==
    \A c \in Calls :
        handler[c] \in Inside =>
            \/ callIdx[c] \in 1..Len(calls[TypeOf[c]])
            \/ c \in gone \cap Earlier

ServerInv == CallTypeOK /\ ClientInv /\ PhaseInv /\ IndexInv /\ PanicOnlyIfLate

LEMMA TestsDisjoint ==
    ASSUME CallTypeOK
    PROVE  /\ Current.calls \subseteq Calls
           /\ Current.calls \cap Earlier = {}
           /\ DOMAIN tests = 1..Len(tests) /\ Len(tests) \in Nat \ {0}
  <1>1. \A l \in TestLists : Len(l) \in Nat \ {0} /\ DOMAIN l = 1..Len(l)
    BY TestRunAssumption DEF TestRunAssumption
  <1>2. \A l \in TestLists : \A t \in DOMAIN l :
           /\ l[t].calls \subseteq Calls
           /\ \A u \in DOMAIN l : t # u => l[t].calls \cap l[u].calls = {}
    BY TestRunAssumption DEF TestRunAssumption
  <1> QED  BY <1>1, <1>2 DEF CallTypeOK, Current, Earlier

\* Before a run whoever is in a handler was given up by an earlier test, which is
\* why a reset spoils no other index.
LEMMA OnlyLateInside ==
    ASSUME ServerInv, stage \in {"reset", "resetSends", "resetConns", "new", "refused"},
           NEW c \in Calls, handler[c] \in Inside
    PROVE  c \in gone \cap Earlier
  <1>1. client[c] \in {"running", "done"}
    BY DEF ServerInv, ClientInv, Inside
  <1>2. c \in Earlier
    BY <1>1 DEF ServerInv, ClientInv, PhaseInv
  <1>3. client[c] = "done" /\ handler[c] # "end"
    BY <1>1, <1>2 DEF ServerInv, ClientInv, Inside
  <1> QED  BY <1>2, <1>3 DEF ServerInv, ClientInv

LEMMA ServerInit == Init => ServerInv
  <1>1. ASSUME Init
        PROVE  CallTypeOK
    <2>1. tests \in TestLists /\ test \in DOMAIN tests
      BY <1>1, TestRunAssumption DEF Init, TestRunAssumption
    <2>2. calls \in [CallTypes -> Seq(Seq(Calls))]
      BY <1>1 DEF Init, GreeterInit, NoCalls
    <2> QED  BY <1>1, <2>1, <2>2 DEF Init, GreeterInit, CallTypeOK
  <1>2. ASSUME Init
        PROVE  ServerInv
    BY <1>1, <1>2, TestsDisjoint
    DEF Init, GreeterInit, ServerInv, ClientInv, PhaseInv, IndexInv, PanicOnlyIfLate, Inside
  <1> QED  BY <1>2

\* A step of a handler.
LEMMA HandlingStep ==
    ASSUME ServerInv, Handling, UNCHANGED <<connVars, testVars>>
    PROVE  ServerInv'
  <1> USE DEF testVars, counters, handlers
  <1>1. PICK c \in Calls : \/ RecordCall(c) \/ Recv(c) \/ RecordMessage(c)
                           \/ Send(c) \/ CountSend(c)
    BY DEF Handling
  <1>2. Current' = Current /\ Earlier' = Earlier /\ gone' = gone
    BY <1>1 DEF Current, Earlier, RecordCall, Recv, RecordMessage, Send, CountSend
  <1>3. /\ handler' \in [Calls -> {"none", "called", "end"} \cup Inside]
        /\ handler[c] \in {"called"} \cup Inside
        /\ \A d \in Calls : d # c => handler'[d] = handler[d]
        /\ handler'[c] \in Inside \cup {"end"}
    BY <1>1 DEF ServerInv, CallTypeOK, Inside, At, RecordCall, Recv, RecordMessage, Send,
                CountSend
  <1>4. ClientInv' /\ PhaseInv'
    BY <1>2, <1>3 DEF ServerInv, CallTypeOK, ClientInv, PhaseInv, Inside
  <1>5. ~panic
    BY DEF Handling
  <1>6. TypeOf[c] \in CallTypes /\ \A d \in Calls : TypeOf[d] \in CallTypes
    BY GreeterAssumption DEF GreeterAssumption
  <1>7. CASE RecordCall(c)
    <2> DEFINE t == TypeOf[c]
    <2>1. calls' = [calls EXCEPT ![t] = Append(calls[t], <<>>)]
      BY <1>7 DEF RecordCall
    <2>2. /\ calls[t] \in Seq(Seq(Calls)) /\ <<>> \in Seq(Calls)
          /\ calls \in [CallTypes -> Seq(Seq(Calls))]
      BY <1>6 DEF ServerInv, CallTypeOK
    <2>3. /\ Append(calls[t], <<>>) \in Seq(Seq(Calls))
          /\ Len(Append(calls[t], <<>>)) = Len(calls[t]) + 1
          /\ Len(calls[t]) \in Nat
      BY <2>2, AppendProperties, LenProperties
    <2>4. /\ calls' \in [CallTypes -> Seq(Seq(Calls))]
          /\ Len(calls'[t]) = Len(calls[t]) + 1
          /\ \A u \in CallTypes : u # t => calls'[u] = calls[u]
      BY <1>6, <2>1, <2>2, <2>3
    <2>5. callIdx' = [callIdx EXCEPT ![c] = Len(calls'[t])] /\ panic' = panic
      BY <1>7 DEF RecordCall
    <2>6. CallTypeOK'
      BY <1>2, <1>3, <2>3, <2>4, <2>5 DEF ServerInv, CallTypeOK
    <2>7. ASSUME NEW d \in Calls, handler'[d] \in Inside
          PROVE  callIdx'[d] \in 1..Len(calls'[TypeOf[d]]) \/ d \in gone \cap Earlier
      <3>1. CASE d = c
        BY <2>3, <2>4, <2>5, <3>1 DEF ServerInv, CallTypeOK
      <3>2. CASE d # c
        <4>1. callIdx[d] \in 1..Len(calls[TypeOf[d]]) \/ d \in gone \cap Earlier
          BY <1>3, <2>7, <3>2 DEF ServerInv, IndexInv
        <4>2. callIdx'[d] = callIdx[d] /\ callIdx[d] \in Nat
          BY <2>5, <3>2 DEF ServerInv, CallTypeOK
        <4>3. TypeOf[d] = t \/ calls'[TypeOf[d]] = calls[TypeOf[d]]
          BY <1>6, <2>4
        <4> QED  BY <2>3, <2>4, <4>1, <4>2, <4>3
      <3> QED  BY <3>1, <3>2
    <2> QED
      BY <1>2, <1>4, <1>5, <2>5, <2>6, <2>7 DEF ServerInv, IndexInv, PanicOnlyIfLate
  <1>8. CASE RecordMessage(c)
    <2> DEFINE t == TypeOf[c]
    <2>1. /\ calls \in [CallTypes -> Seq(Seq(Calls))] /\ callIdx' = callIdx
          /\ calls[t] \in Seq(Seq(Calls))
          /\ handler[c] = "message"
      BY <1>6, <1>8 DEF ServerInv, CallTypeOK, RecordMessage
    <2>2. /\ calls' \in [CallTypes -> Seq(Seq(Calls))]
          /\ \A u \in CallTypes : Len(calls'[u]) = Len(calls[u])
      <3>1. CASE callIdx[c] \in DOMAIN calls[t]
        <4> DEFINE k == callIdx[c]
                   s == [calls[t] EXCEPT ![k] = Append(calls[t][k], c)]
        <4>1. calls' = [calls EXCEPT ![t] = s]
          BY <1>8, <3>1 DEF RecordMessage
        <4>2. k \in 1..Len(calls[t]) /\ calls[t][k] \in Seq(Calls)
          BY <2>1, <3>1
        <4>3. Append(calls[t][k], c) \in Seq(Calls)
          BY <4>2
        <4>4. s \in Seq(Seq(Calls)) /\ Len(s) = Len(calls[t])
          BY <2>1, <4>2, <4>3, ExceptSeq
        <4> HIDE DEF s
        <4> QED  BY <1>6, <2>1, <4>1, <4>4
      <3>2. CASE callIdx[c] \notin DOMAIN calls[t]
        BY <1>8, <2>1, <3>2 DEF RecordMessage
      <3> QED  BY <3>1, <3>2
    <2>3. CallTypeOK'
      BY <1>2, <1>3, <2>1, <2>2 DEF ServerInv, CallTypeOK
    <2>4. handler[c] \in Inside
      BY <2>1 DEF Inside
    <2>5. IndexInv'
      BY <1>2, <1>3, <1>6, <2>1, <2>2, <2>4 DEF ServerInv, IndexInv
    <2>6. PanicOnlyIfLate'
      <3>1. CASE callIdx[c] \in DOMAIN calls[t]
        BY <1>5, <1>8, <3>1 DEF RecordMessage, PanicOnlyIfLate
      <3>2. CASE callIdx[c] \notin DOMAIN calls[t]
        <4>1. handler' = handler
          BY <1>8, <3>2 DEF RecordMessage
        <4>2. callIdx[c] \notin 1..Len(calls[t])
          BY <2>1, <3>2
        <4>3. c \in gone \cap Earlier
          BY <2>4, <4>2 DEF ServerInv, IndexInv
        <4> QED  BY <1>2, <2>1, <4>1, <4>3 DEF PanicOnlyIfLate
      <3> QED  BY <3>1, <3>2
    <2> QED  BY <1>4, <2>3, <2>5, <2>6 DEF ServerInv
  <1>9. CASE Recv(c) \/ Send(c) \/ CountSend(c)
    <2>1. calls' = calls /\ callIdx' = callIdx /\ panic' = panic /\ handler[c] \in Inside
      BY <1>9 DEF Recv, Send, CountSend, Inside
    <2> QED
      BY <1>2, <1>3, <1>4, <1>5, <2>1
      DEF ServerInv, CallTypeOK, IndexInv, PanicOnlyIfLate
  <1> QED  BY <1>1, <1>7, <1>8, <1>9

LEMMA ServerStep ==
    ASSUME ServerInv, [Next]_vars
    PROVE  ServerInv'
  <1> USE DEF greeterVars, handlers, counters, testVars
  <1>1. CASE ~panic /\ ResetCalls
    <2>1. calls' \in [CallTypes -> Seq(Seq(Calls))]
      BY <1>1 DEF ResetCalls, NoCalls
    <2>2. UNCHANGED <<handler, callIdx, gone, panic, tests, test, client>>
      BY <1>1 DEF ResetCalls
    <2>3. stage = "reset" /\ stage' = "resetSends"
      BY <1>1 DEF ResetCalls
    <2>4. \A c \in Calls : handler[c] \in Inside => c \in gone \cap Earlier
      BY <2>3, OnlyLateInside
    <2> QED
      BY <1>1, <2>1, <2>2, <2>3, <2>4
      DEF ServerInv, CallTypeOK, ClientInv, PhaseInv, IndexInv, PanicOnlyIfLate, Current,
          Earlier
  <1>2. CASE ~panic /\ (ResetSends \/ ResetConns)
    <2>1. /\ UNCHANGED <<calls, handler, callIdx, gone, panic, tests, test, client>>
          /\ stage \in {"resetSends", "resetConns"} /\ stage' \in {"resetConns", "new"}
      BY <1>2 DEF ResetSends, ResetConns
    <2> QED
      BY <1>2, <2>1 DEF ServerInv, CallTypeOK, ClientInv, PhaseInv, IndexInv,
                        PanicOnlyIfLate, Current, Earlier
  <1>3. CASE ~panic /\ New
    <2>1. /\ UNCHANGED <<calls, handler, callIdx, gone, tests, test, client>>
          /\ stage = "new"
          /\ (stage' \in {"run", "refused"} /\ panic' = panic) \/ stage' = "new"
      BY <1>3 DEF New
    <2> QED
      BY <1>3, <2>1 DEF ServerInv, CallTypeOK, ClientInv, PhaseInv, IndexInv,
                        PanicOnlyIfLate, Current, Earlier
  <1>4. ASSUME ~panic, NEW n \in Conns, Connect(n)
        PROVE  ServerInv'
    BY <1>4 DEF Connect, ServerInv, CallTypeOK, ClientInv, PhaseInv, IndexInv,
                PanicOnlyIfLate, Current, Earlier
  <1>5. ASSUME ~panic, NEW c \in Calls, Call(c)
        PROVE  ServerInv'
    <2>1. UNCHANGED <<calls, handler, callIdx, panic, tests, test, stage>>
      BY <1>5 DEF Call
    <2>2. /\ stage = "run" /\ c \in Current.calls /\ client[c] = "none"
          /\ \/ client' = [client EXCEPT ![c] = "running"] /\ gone' = gone
             \/ client' = [client EXCEPT ![c] = "failed"] /\ gone' = gone \cup {c}
      BY <1>5 DEF Call
    <2>3. handler[c] = "none" /\ c \notin Earlier
      BY <2>2, TestsDisjoint DEF ServerInv, ClientInv
    <2>4. Current' = Current /\ Earlier' = Earlier
      BY <2>1 DEF Current, Earlier
    <2>5. CallTypeOK'
      BY <2>1, <2>2 DEF ServerInv, CallTypeOK
    <2>6. ClientInv'
      BY <2>1, <2>2, <2>3, <2>4 DEF ServerInv, CallTypeOK, ClientInv
    <2> QED
      BY <1>5, <2>1, <2>2, <2>4, <2>5, <2>6
      DEF ServerInv, PhaseInv, IndexInv, PanicOnlyIfLate
  <1>6. ASSUME ~panic, NEW c \in Calls, Deliver(c)
        PROVE  ServerInv'
    <2>1. UNCHANGED <<calls, callIdx, gone, panic, tests, test, stage, client>>
      BY <1>6 DEF Deliver
    <2>2. /\ client[c] \in {"running", "done"} /\ handler[c] = "none"
          /\ handler' = [handler EXCEPT ![c] = "called"]
      BY <1>6 DEF Deliver, At
    <2>3. Current' = Current /\ Earlier' = Earlier
      BY <2>1 DEF Current, Earlier
    <2>4. CallTypeOK'
      BY <2>1, <2>2 DEF ServerInv, CallTypeOK
    <2>5. ClientInv'
      BY <2>1, <2>2, <2>3 DEF ServerInv, CallTypeOK, ClientInv
    <2>6. IndexInv'
      BY <2>1, <2>2, <2>3 DEF ServerInv, CallTypeOK, IndexInv, Inside
    <2> QED
      BY <1>6, <2>1, <2>3, <2>4, <2>5, <2>6 DEF ServerInv, PhaseInv, PanicOnlyIfLate
  <1>7. ASSUME ~panic, NEW c \in Calls, Return(c) \/ GiveUp(c)
        PROVE  ServerInv'
    <2>1. UNCHANGED <<calls, handler, callIdx, panic, tests, test, stage>>
      BY <1>7 DEF Return, GiveUp
    <2>2. /\ client[c] = "running" /\ c \notin gone
          /\ client' = [client EXCEPT ![c] = "done"]
          /\ \/ gone' = gone /\ handler[c] = "end"
             \/ gone' = gone \cup {c}
      BY <1>7 DEF Return, GiveUp
    <2>3. Current' = Current /\ Earlier' = Earlier
      BY <2>1 DEF Current, Earlier
    <2>4. CallTypeOK'
      BY <2>1, <2>2 DEF ServerInv, CallTypeOK
    <2>5. ClientInv'
      BY <2>1, <2>2, <2>3 DEF ServerInv, CallTypeOK, ClientInv
    <2>6. PhaseInv'
      BY <2>1, <2>2, <2>3, TestsDisjoint DEF ServerInv, CallTypeOK, PhaseInv
    <2> QED
      BY <1>7, <2>1, <2>2, <2>3, <2>4, <2>5, <2>6
      DEF ServerInv, IndexInv, PanicOnlyIfLate
  <1>8. CASE ~panic /\ Stop
    BY <1>8 DEF Stop, ServerInv, CallTypeOK, ClientInv, PhaseInv, IndexInv, PanicOnlyIfLate,
                Current, Earlier
  <1>9. CASE ~panic /\ (RunEnds \/ Returned)
    <2>1. /\ UNCHANGED <<calls, handler, callIdx, gone, panic, tests, test, client>>
          /\ stage' \in {"closing", "check"}
          /\ stage = "closing" \/ \A c \in Current.calls : client[c] \in {"done", "failed"}
      BY <1>9 DEF RunEnds, Returned
    <2> QED
      BY <1>9, <2>1 DEF ServerInv, CallTypeOK, ClientInv, PhaseInv, IndexInv,
                        PanicOnlyIfLate, Current, Earlier
  <1>10. CASE ~panic /\ NextTest
    <2>1. UNCHANGED <<calls, handler, callIdx, gone, panic, client, tests>>
      BY <1>10 DEF NextTest
    <2>2. /\ stage \in {"check", "refused"} /\ stage' = "reset"
          /\ test < Len(tests) /\ test' = test + 1
      BY <1>10 DEF NextTest
    <2>3. CallTypeOK'
      BY <2>1, <2>2, TestsDisjoint DEF ServerInv, CallTypeOK
    <2>4. Earlier' = Earlier \cup Current.calls
      <3>1. test \in Nat /\ 1..test' - 1 = (1..test - 1) \cup {test}
        BY <2>2, TestsDisjoint DEF ServerInv, CallTypeOK
      <3>2. Earlier' = UNION {tests[t].calls : t \in (1..test - 1) \cup {test}}
        BY <2>1, <3>1 DEF Earlier
      <3> QED  BY <3>2 DEF Earlier, Current
    <2>5. (Current.calls)' \cap Earlier' = {} /\ (Current.calls)' \subseteq Calls
      <3>1. /\ test' \in DOMAIN tests /\ tests' = tests /\ tests \in TestLists
            /\ 1..test' - 1 \subseteq DOMAIN tests \ {test'}
        BY <2>1, <2>2, <2>3, TestsDisjoint DEF ServerInv, CallTypeOK
      <3>2. /\ tests[test'].calls \subseteq Calls
            /\ \A t \in 1..test' - 1 : tests[t].calls \cap tests[test'].calls = {}
        BY <3>1, TestRunAssumption DEF TestRunAssumption
      <3> QED  BY <3>1, <3>2 DEF Current, Earlier
    <2>6. \A c \in Current.calls : client[c] # "running"
      BY <2>2 DEF ServerInv, PhaseInv
    <2>7. ClientInv'
      BY <2>1, <2>4, <2>6 DEF ServerInv, ClientInv
    <2>8. PhaseInv'
      BY <2>1, <2>2, <2>4, <2>5 DEF ServerInv, ClientInv, PhaseInv
    <2> QED
      BY <1>10, <2>1, <2>3, <2>4, <2>7, <2>8 DEF ServerInv, IndexInv, PanicOnlyIfLate
  <1>11. CASE Handling /\ UNCHANGED <<connVars, testVars>>
    BY <1>11, HandlingStep
  <1>12. CASE (Closing \/ Watching) /\ UNCHANGED <<greeterVars, testVars>>
    BY <1>12 DEF ServerInv, CallTypeOK, ClientInv, PhaseInv, IndexInv, PanicOnlyIfLate,
                 Current, Earlier
  <1>13. CASE UNCHANGED vars
    BY <1>13 DEF vars, ServerInv, CallTypeOK, ClientInv, PhaseInv, IndexInv,
                 PanicOnlyIfLate, Current, Earlier
  <1> QED
    BY <1>1, <1>2, <1>3, <1>4, <1>5, <1>6, <1>7, <1>8, <1>9, <1>10, <1>11, <1>12, <1>13
    DEF Next, Terminated

\* A handler of the test server indexes out of range only for a call that a test
\* gave up and that a later test's reset has overtaken, however many tests there
\* are and whatever they call.
THEOREM PanicCorrect == Spec => []PanicOnlyIfLate
  <1>1. ServerInv /\ [Next]_vars => ServerInv'
    BY ServerStep
  <1>2. ServerInv => PanicOnlyIfLate
    BY DEF ServerInv
  <1> QED  BY ServerInit, <1>1, <1>2, PTL DEF Spec
-----------------------------------------------------------------------------
(* What the tests count, while no call was given up *)

Recorded(c) == handler[c] \notin {"none", "called"}
Begun(t) == {c \in OfType(t) : Recorded(c)}

Streams(c) == TypeOf[c] \in {"cs", "bidi"}
Got(c) == IF Streams(c) THEN IF handler[c] = "message" THEN streamed[c] - 1 ELSE streamed[c]
          ELSE IF handler[c] = "message" THEN 0 ELSE 1
Sent(c) == IF handler[c] = "count" THEN streamed[c] - 1 ELSE streamed[c]

CountTypeOK ==
    /\ callCounts \in [CallTypes -> Nat] /\ streamed \in [Calls -> Nat]
    /\ sendCounts \in [CallTypes -> Seq(Nat)]
    /\ connCount \in Nat

\* Where a handler is, and how many messages it has been through.
ProgressInv ==
    \A c \in Calls :
        /\ handler[c] \in {"none", "called"} => streamed[c] = 0
        /\ handler[c] = "recv" => Streams(c)
        /\ handler[c] = "message" /\ Streams(c) => streamed[c] > 0
        /\ handler[c] = "message" /\ ~Streams(c) => streamed[c] = 0
        /\ handler[c] \in {"send", "count"} => TypeOf[c] \in {"ss", "bidi"}
        /\ handler[c] = "count" => streamed[c] > 0
        /\ handler[c] = "send" /\ Streams(c) => streamed[c] > 0
        /\ handler[c] = "end" /\ c \notin gone =>
              /\ Streams(c) => streamed[c] = Messages
              /\ TypeOf[c] = "ss" => streamed[c] = Replies

\* The row of a call from which n messages were recorded.
Row(c, n) == [k \in 1..n |-> c]

\* Every handler of the test has a row of its own, with its messages alone.
RowsInv ==
    stage # "reset" /\ gone = {} =>
        \A t \in CallTypes :
            /\ IsFiniteSet(Begun(t))
            /\ callCounts[t] = Cardinality(Begun(t))
            /\ Len(calls[t]) = Cardinality(Begun(t))
            /\ \A c \in Begun(t) :
                  /\ callIdx[c] \in 1..Len(calls[t])
                  /\ calls[t][callIdx[c]] = Row(c, Got(c))
                  /\ \A d \in Begun(t) : callIdx[c] = callIdx[d] => c = d

\* How many places of a sequence hold k.
CountIn(s, k) == Cardinality({j \in DOMAIN s : s[j] = k})

\* The replies of server streaming calls, which bidirectional ones are counted among.
SendsInv ==
    stage \notin {"reset", "resetSends"} /\ gone = {} /\ OfType("bidi") = {} =>
        /\ \A j \in DOMAIN sendCounts["ss"] : sendCounts["ss"][j] \in 1..Len(calls["ss"])
        /\ \A c \in Begun("ss") : CountIn(sendCounts["ss"], callIdx[c]) = Sent(c)

\* The connections that are up, or were when a call was made on them.
Used == {ConnOf[c] : c \in {d \in Current.calls : client[d] \in {"running", "done"}}}
Up == {n \in Conns : conn[n] = "ready"} \cup Used
Tried == {n \in Conns : conn[n] # "connecting"}
Own == connCount - (IF Reflects THEN 1 ELSE 0)

ConnsInv ==
    /\ stage = "new" /\ ~panic => connCount = 0
    /\ stage \in {"run", "closing", "check"} =>
          /\ Up \subseteq Tried
          /\ Cardinality(Up) <= Own /\ Own <= Cardinality(Tried)

CountInv == CountTypeOK /\ ProgressInv /\ RowsInv /\ SendsInv /\ ConnsInv

\* While no call was given up, the handlers that run are those of the current calls.
LEMMA OnlyCurrentInside ==
    ASSUME ServerInv, gone = {}, NEW c \in Calls, handler[c] \notin {"none", "end"}
    PROVE  /\ c \in Current.calls
           /\ stage \notin {"reset", "resetSends", "resetConns", "new", "refused"}
  <1>1. client[c] = "running"
    BY DEF ServerInv, ClientInv
  <1>2. c \in Current.calls
    BY <1>1 DEF ServerInv, ClientInv
  <1> QED  BY <1>1, <1>2 DEF ServerInv, PhaseInv

\* Steps that leave the counters and the handlers alone.
LEMMA SameCounts ==
    ASSUME ProgressInv, RowsInv, SendsInv,
           UNCHANGED <<counters, handlers, tests, test>>, gone \subseteq gone',
           stage' = stage \/ stage \notin {"reset", "resetSends"}
    PROVE  ProgressInv' /\ RowsInv' /\ SendsInv'
  <1>1. Current' = Current
    BY DEF Current
  <1>2. \A t : OfType(t)' = OfType(t) /\ Begun(t)' = Begun(t)
    BY <1>1 DEF OfType, Begun, Recorded, handlers
  <1>3. \A c : Got(c)' = Got(c) /\ Sent(c)' = Sent(c)
    BY DEF Got, Sent, handlers, Streams
  <1>4. gone' = {} => gone = {}
    OBVIOUS
  <1>6. ProgressInv'
    BY DEF ProgressInv, handlers, Streams
  <1>7. RowsInv'
    BY <1>2, <1>3, <1>4 DEF RowsInv, counters, handlers
  <1>8. SendsInv'
    BY <1>2, <1>3, <1>4 DEF SendsInv, counters, handlers
  <1> QED  BY <1>6, <1>7, <1>8

\* What a handler that is given its row does to the counters, and to the rows.
LEMMA RecordCallCounts ==
    ASSUME ServerInv, CountTypeOK, ProgressInv, RowsInv, SendsInv,
           NEW c \in Calls, RecordCall(c), UNCHANGED testVars
    PROVE  CountTypeOK' /\ ProgressInv' /\ RowsInv' /\ SendsInv'
  <1> DEFINE t == TypeOf[c]
  <1>1. /\ handler[c] = "called" /\ t \in CallTypes
        /\ handler \in [Calls -> {"none", "called", "end"} \cup Inside]
        /\ calls \in [CallTypes -> Seq(Seq(Calls))] /\ callIdx \in [Calls -> Nat]
        /\ streamed[c] = 0
    BY GreeterAssumption
    DEF GreeterAssumption, RecordCall, ServerInv, CallTypeOK, ProgressInv
  <1>2. /\ callCounts' = [callCounts EXCEPT ![t] = callCounts[t] + 1]
        /\ calls' = [calls EXCEPT ![t] = Append(calls[t], <<>>)]
        /\ callIdx' = [callIdx EXCEPT ![c] = Len(calls'[t])]
        /\ handler' = [handler EXCEPT ![c] = IF t \in {"unary", "ss"} THEN "message"
                                             ELSE "recv"]
        /\ UNCHANGED <<sendCounts, connCount, streamed, gone, tests, test, stage>>
    BY DEF RecordCall, At, testVars
  <1>3. /\ Len(calls[t]) \in Nat /\ Len(Append(calls[t], <<>>)) = Len(calls[t]) + 1
        /\ \A k \in 1..Len(calls[t]) : Append(calls[t], <<>>)[k] = calls[t][k]
        /\ Append(calls[t], <<>>)[Len(calls[t]) + 1] = <<>>
    <2>1. calls[t] \in Seq(Seq(Calls)) /\ <<>> \in Seq(Calls)
      BY <1>1
    <2> QED  BY <2>1, AppendProperties, LenProperties
  <1>4. /\ calls'[t] = Append(calls[t], <<>>) /\ callIdx'[c] = Len(calls[t]) + 1
        /\ \A u \in CallTypes : u # t => calls'[u] = calls[u] /\ callCounts'[u] = callCounts[u]
        /\ \A d \in Calls : d # c => callIdx'[d] = callIdx[d] /\ handler'[d] = handler[d]
        /\ callCounts'[t] = callCounts[t] + 1
        /\ handler'[c] = IF t \in {"unary", "ss"} THEN "message" ELSE "recv"
    BY <1>1, <1>2, <1>3 DEF CountTypeOK
  <1>5. CountTypeOK'
    BY <1>1, <1>2 DEF CountTypeOK
  <1>6. ProgressInv'
    BY <1>1, <1>2, <1>4 DEF ProgressInv, Streams, CallTypes
  <1>7. Current' = Current /\ \A u : OfType(u)' = OfType(u)
    BY <1>2 DEF Current, OfType
  <1>8. ASSUME gone = {}
        PROVE  /\ c \in OfType(t) /\ c \notin Begun(t) /\ Begun(t)' = Begun(t) \cup {c}
               /\ \A u : u # t => Begun(u)' = Begun(u)
               /\ \A u : Begun(u) \subseteq Calls
               /\ stage \notin {"reset", "resetSends"}
    <2>1. c \in Current.calls /\ stage \notin {"reset", "resetSends"} /\ Current.calls \subseteq Calls
      BY <1>1, <1>8, OnlyCurrentInside, TestsDisjoint DEF ServerInv
    <2> QED
      BY <1>1, <1>4, <1>7, <2>1 DEF OfType, Begun, Recorded
  <1>9. Got(c)' = 0 /\ Sent(c)' = 0
    BY <1>1, <1>2, <1>4 DEF Got, Sent, Streams, CallTypes
  <1>10. \A d \in Calls : d # c => Got(d)' = Got(d) /\ Sent(d)' = Sent(d)
    BY <1>2, <1>4 DEF Got, Sent, Streams
  <1>11. RowsInv'
    <2> SUFFICES ASSUME gone = {}, NEW u \in CallTypes
                 PROVE  /\ IsFiniteSet(Begun(u)')
                        /\ callCounts'[u] = Cardinality(Begun(u)')
                        /\ Len(calls'[u]) = Cardinality(Begun(u)')
                        /\ \A d \in Begun(u)' :
                              /\ callIdx'[d] \in 1..Len(calls'[u])
                              /\ calls'[u][callIdx'[d]] = Row(d, Got(d)')
                              /\ \A e \in Begun(u)' : callIdx'[d] = callIdx'[e] => d = e
      BY <1>2 DEF RowsInv
    <2>1. /\ IsFiniteSet(Begun(u))
          /\ callCounts[u] = Cardinality(Begun(u))
          /\ Len(calls[u]) = Cardinality(Begun(u))
          /\ \A d \in Begun(u) :
                /\ callIdx[d] \in 1..Len(calls[u])
                /\ calls[u][callIdx[d]] = Row(d, Got(d))
                /\ \A e \in Begun(u) : callIdx[d] = callIdx[e] => d = e
      BY <1>8 DEF RowsInv
    <2>2. CASE u # t
      <3>1. c \notin Begun(u) /\ Begun(u) \subseteq Calls
        BY <1>8, <2>2 DEF Begun, OfType
      <3> QED  BY <1>4, <1>8, <1>10, <2>1, <2>2, <3>1
    <2>3. CASE u = t
      <3>1. /\ IsFiniteSet(Begun(t)') /\ Cardinality(Begun(t)') = Cardinality(Begun(t)) + 1
        BY <1>8, <2>1, <2>3, FS_AddElement
      <3>2. /\ calls'[t][callIdx'[c]] = <<>> /\ callIdx'[c] = Len(calls[t]) + 1
            /\ Row(c, Got(c)') = <<>>
        BY <1>3, <1>4, <1>9 DEF Row
      <3>3. \A d \in Begun(t) : /\ d \in Calls /\ d # c /\ callIdx'[d] = callIdx[d]
                                /\ Got(d)' = Got(d) /\ callIdx[d] \in 1..Len(calls[t])
                                /\ calls'[t][callIdx[d]] = calls[t][callIdx[d]]
        <4> TAKE d \in Begun(t)
        <4>1. d \in Calls /\ d # c
          BY <1>8
        <4>2. callIdx[d] \in 1..Len(calls[t])
          BY <2>1, <2>3
        <4> QED  BY <1>3, <1>4, <1>10, <4>1, <4>2
      <3>4. Len(calls'[t]) = Len(calls[t]) + 1
        BY <1>3, <1>4
      <3>5. \A d \in Begun(t) : /\ callIdx'[d] \in 1..Len(calls[t])
                                /\ calls'[t][callIdx'[d]] = Row(d, Got(d)')
                                /\ callIdx'[d] # callIdx'[c]
        BY <1>3, <2>1, <2>3, <3>2, <3>3
      <3>6. \A d, e \in Begun(t)' : callIdx'[d] = callIdx'[e] => d = e
        <4> TAKE d, e \in Begun(t)'
        <4>1. \A x \in Begun(t)' : x = c \/ x \in Begun(t)
          BY <1>8
        <4>2. CASE d \in Begun(t) /\ e \in Begun(t)
          BY <2>1, <2>3, <3>3, <4>2
        <4> QED  BY <3>5, <4>1, <4>2
      <3>7. \A d \in Begun(t)' : /\ callIdx'[d] \in 1..Len(calls'[t])
                                 /\ calls'[t][callIdx'[d]] = Row(d, Got(d)')
        <4> TAKE d \in Begun(t)'
        <4>1. CASE d = c
          BY <1>3, <3>2, <3>4, <4>1
        <4>2. CASE d \in Begun(t)
          BY <1>3, <3>4, <3>5, <4>2
        <4> QED  BY <1>8, <4>1, <4>2
      <3> QED  BY <1>4, <2>1, <2>3, <3>1, <3>4, <3>6, <3>7
    <2> QED  BY <2>2, <2>3
  <1>12. SendsInv'
    <2> SUFFICES ASSUME gone = {}, OfType("bidi") = {}
                 PROVE  /\ \A j \in DOMAIN sendCounts["ss"] :
                               sendCounts["ss"][j] \in 1..Len(calls'["ss"])
                        /\ \A d \in Begun("ss")' : CountIn(sendCounts["ss"], callIdx'[d]) = Sent(d)'
      BY <1>2, <1>7 DEF SendsInv
    <2>1. /\ \A j \in DOMAIN sendCounts["ss"] : sendCounts["ss"][j] \in 1..Len(calls["ss"])
          /\ \A d \in Begun("ss") : CountIn(sendCounts["ss"], callIdx[d]) = Sent(d)
      BY <1>8 DEF SendsInv
    <2>3. CASE t # "ss"
      <3>1. c \notin Begun("ss") /\ Begun("ss") \subseteq Calls
        BY <1>8, <2>3 DEF Begun, OfType
      <3> QED  BY <1>4, <1>8, <1>10, <2>1, <2>3, <3>1 DEF CallTypes
    <2>4. CASE t = "ss"
      <3>1. \A j \in DOMAIN sendCounts["ss"] :
               sendCounts["ss"][j] \in 1..Len(calls'["ss"]) /\ sendCounts["ss"][j] # callIdx'[c]
        BY <1>3, <1>4, <2>1, <2>4
      <3>2. {j \in DOMAIN sendCounts["ss"] : sendCounts["ss"][j] = callIdx'[c]} = {}
        BY <3>1
      <3>3. CountIn(sendCounts["ss"], callIdx'[c]) = 0
        BY <3>2, FS_EmptySet DEF CountIn
      <3>4. \A d \in Begun("ss") : d \in Calls /\ d # c
        BY <1>8, <2>4
      <3> QED  BY <1>4, <1>8, <1>9, <1>10, <2>1, <2>4, <3>3, <3>4
    <2> QED  BY <2>3, <2>4
  <1> QED  BY <1>5, <1>6, <1>11, <1>12

\* A step of a handler that keeps the counters, what it has recorded and what it has
\* sent.
LEMMA MoveCounts ==
    ASSUME RowsInv, SendsInv, NEW c \in Calls,
           CallTypeOK, CountTypeOK,
           UNCHANGED <<counters, callIdx, tests, test, stage, gone>>,
           \A d \in Calls : d # c => handler'[d] = handler[d] /\ streamed'[d] = streamed[d],
           Recorded(c) = Recorded(c)',
           Recorded(c) => Got(c)' = Got(c) /\ (TypeOf[c] = "ss" => Sent(c)' = Sent(c))
    PROVE  RowsInv' /\ SendsInv'
  <1>1. Current' = Current /\ \A t : OfType(t)' = OfType(t)
    BY DEF Current, OfType
  <1>2. Current.calls \subseteq Calls
    BY TestsDisjoint
  <1>3. \A t : Begun(t)' = Begun(t) /\ Begun(t) \subseteq Calls
    BY <1>1, <1>2 DEF Begun, Recorded, OfType
  <1>4. \A d \in Calls : Recorded(d) => Got(d)' = Got(d)
    BY DEF Got, Streams
  <1>5. \A d \in Calls : Recorded(d) /\ TypeOf[d] = "ss" => Sent(d)' = Sent(d)
    BY DEF Sent
  <1>6. \A t : \A d \in Begun(t) : d \in Calls /\ Recorded(d) /\ TypeOf[d] = t
    BY <1>3 DEF Begun, OfType
  <1>7. RowsInv'
    BY <1>3, <1>4, <1>6 DEF RowsInv, counters
  <1>8. SendsInv'
    BY <1>1, <1>3, <1>5, <1>6 DEF SendsInv, counters
  <1> QED  BY <1>7, <1>8

\* What a message recorded does to the rows.
LEMMA RecordMessageCounts ==
    ASSUME ServerInv, CountTypeOK, ProgressInv, RowsInv, SendsInv,
           NEW c \in Calls, RecordMessage(c), UNCHANGED testVars
    PROVE  CountTypeOK' /\ ProgressInv' /\ RowsInv' /\ SendsInv'
  <1> DEFINE t == TypeOf[c]
             i == callIdx[c]
  <1>1. /\ handler[c] = "message" /\ t \in CallTypes
        /\ handler \in [Calls -> {"none", "called", "end"} \cup Inside]
        /\ calls \in [CallTypes -> Seq(Seq(Calls))] /\ streamed \in [Calls -> Nat]
        /\ UNCHANGED <<callCounts, sendCounts, connCount, callIdx, streamed, gone,
                       tests, test, stage>>
    BY GreeterAssumption
    DEF GreeterAssumption, RecordMessage, ServerInv, CallTypeOK, CountTypeOK, testVars
  <1>2. CountTypeOK'
    BY <1>1 DEF CountTypeOK
  <1>3. Current' = Current /\ \A u : OfType(u)' = OfType(u)
    BY <1>1 DEF Current, OfType
  <1>4. CASE i \notin DOMAIN calls[t]
    <2>1. UNCHANGED <<calls, handler>>
      BY <1>4 DEF RecordMessage
    <2> QED  BY <1>1, <1>2, <2>1, SameCounts DEF counters, handlers
  <1>5. CASE i \in DOMAIN calls[t]
    <2>1. /\ calls' = [calls EXCEPT ![t] = [calls[t] EXCEPT ![i] = Append(calls[t][i], c)]]
          /\ handler' = [handler EXCEPT ![c] = CASE t = "unary" -> "end" [] t = "cs" -> "recv"
                                                 [] OTHER -> "send"]
      BY <1>5 DEF RecordMessage, At
    <2>2. /\ \A d \in Calls : d # c => handler'[d] = handler[d]
          /\ handler'[c] = CASE t = "unary" -> "end" [] t = "cs" -> "recv" [] OTHER -> "send"
      BY <1>1, <2>1
    <2>3. /\ t = "unary" => handler'[c] = "end"
          /\ t = "cs" => handler'[c] = "recv"
          /\ t \in {"ss", "bidi"} => handler'[c] = "send"
      BY <2>2
    <2>4. ProgressInv'
      BY <1>1, <2>2, <2>3 DEF ProgressInv, Streams, CallTypes
    <2>5. Got(c)' = Got(c) + 1 /\ Got(c) \in Nat /\ (t = "ss" => Sent(c)' = Sent(c))
      BY <1>1, <2>3 DEF Got, Sent, Streams, CallTypes, ProgressInv
    <2>6. \A d \in Calls : d # c => Got(d)' = Got(d) /\ Sent(d)' = Sent(d)
      BY <1>1, <2>2 DEF Got, Sent, Streams
    <2>7. ASSUME gone = {}
          PROVE  /\ c \in Begun(t)
                 /\ \A u : Begun(u)' = Begun(u) /\ Begun(u) \subseteq Calls
                 /\ stage \notin {"reset", "resetSends"}
      <3>1. c \in Current.calls /\ stage \notin {"reset", "resetSends"} /\ Current.calls \subseteq Calls
        BY <1>1, <2>7, OnlyCurrentInside, TestsDisjoint DEF ServerInv
      <3>2. Recorded(c) /\ Recorded(c)' /\ \A d \in Calls : d # c => Recorded(d)' = Recorded(d)
        BY <1>1, <2>2, <2>3 DEF Recorded, CallTypes
      <3> QED  BY <1>3, <3>1, <3>2 DEF OfType, Begun
    <2>8. /\ \A u \in CallTypes : u # t => calls'[u] = calls[u]
          /\ calls'[t] = [calls[t] EXCEPT ![i] = Append(calls[t][i], c)]
      BY <1>1, <2>1
    <2>9. /\ Len(calls'[t]) = Len(calls[t])
          /\ calls'[t][i] = Append(calls[t][i], c)
          /\ \A k \in 1..Len(calls[t]) : k # i => calls'[t][k] = calls[t][k]
      <3>1. calls[t] \in Seq(Seq(Calls)) /\ i \in 1..Len(calls[t])
        BY <1>1, <1>5
      <3>2. calls[t][i] \in Seq(Calls)
        BY <3>1
      <3>3. Append(calls[t][i], c) \in Seq(Calls)
        BY <3>2
      <3> QED  BY <2>8, <3>1, <3>3, ExceptSeq
    <2>10. RowsInv'
      <3> SUFFICES ASSUME gone = {}, NEW u \in CallTypes
                   PROVE  /\ IsFiniteSet(Begun(u)')
                          /\ callCounts'[u] = Cardinality(Begun(u)')
                          /\ Len(calls'[u]) = Cardinality(Begun(u)')
                          /\ \A d \in Begun(u)' :
                                /\ callIdx'[d] \in 1..Len(calls'[u])
                                /\ calls'[u][callIdx'[d]] = Row(d, Got(d)')
                                /\ \A e \in Begun(u)' : callIdx'[d] = callIdx'[e] => d = e
        BY <1>1 DEF RowsInv
      <3>1. /\ IsFiniteSet(Begun(u))
            /\ callCounts[u] = Cardinality(Begun(u))
            /\ Len(calls[u]) = Cardinality(Begun(u))
            /\ \A d \in Begun(u) :
                  /\ callIdx[d] \in 1..Len(calls[u])
                  /\ calls[u][callIdx[d]] = Row(d, Got(d))
                  /\ \A e \in Begun(u) : callIdx[d] = callIdx[e] => d = e
        BY <2>7 DEF RowsInv
      <3>2. Len(calls'[u]) = Len(calls[u])
        BY <2>8, <2>9
      <3>3. ASSUME NEW d \in Begun(u)
            PROVE  calls'[u][callIdx[d]] = Row(d, Got(d)')
        <4>1. d \in Calls /\ callIdx[d] \in 1..Len(calls[u]) /\ TypeOf[d] = u
          BY <2>7, <3>1 DEF Begun, OfType
        <4>2. CASE d = c
          <5>1. calls[t][i] = Row(c, Got(c))
            BY <3>1, <4>1, <4>2
          <5>2. Append(Row(c, Got(c)), c) = Row(c, Got(c) + 1)
            BY <2>5 DEF Row
          <5> QED  BY <2>5, <2>9, <4>1, <4>2, <5>1, <5>2
        <4>3. CASE d # c
          <5>1. u = t => callIdx[d] # i
            BY <2>7, <3>1, <4>3
          <5>2. calls'[u][callIdx[d]] = calls[u][callIdx[d]]
            BY <2>8, <2>9, <4>1, <5>1
          <5> QED  BY <2>6, <3>1, <4>1, <4>3, <5>2
        <4> QED  BY <4>2, <4>3
      <3> QED  BY <1>1, <2>7, <3>1, <3>2, <3>3
    <2>11. SendsInv'
      <3>1. "ss" \in CallTypes
        BY DEF CallTypes
      <3>2. Len(calls'["ss"]) = Len(calls["ss"])
        BY <2>8, <2>9, <3>1
      <3>3. gone = {} => \A d \in Begun("ss") : Sent(d)' = Sent(d)
        BY <2>5, <2>6, <2>7 DEF Begun, OfType
      <3> QED  BY <1>1, <1>3, <2>7, <3>2, <3>3 DEF SendsInv
    <2> QED  BY <1>2, <2>4, <2>10, <2>11
  <1> QED  BY <1>4, <1>5

LEMMA CountInAppend ==
    ASSUME NEW s \in Seq(Nat), NEW x \in Nat, IsFiniteSet(DOMAIN s)
    PROVE  /\ CountIn(Append(s, x), x) = CountIn(s, x) + 1
           /\ \A k \in Nat \ {x} : CountIn(Append(s, x), k) = CountIn(s, k)
  <1> DEFINE Places(r, k) == {j \in DOMAIN r : r[j] = k}
             n == Len(s) + 1
  <1>1. /\ n \notin DOMAIN s /\ DOMAIN Append(s, x) = DOMAIN s \cup {n}
        /\ Append(s, x)[n] = x
        /\ \A j \in DOMAIN s : Append(s, x)[j] = s[j]
    OBVIOUS
  <1>2. Places(Append(s, x), x) = Places(s, x) \cup {n} /\ n \notin Places(s, x)
    BY <1>1
  <1>3. \A k \in Nat \ {x} : Places(Append(s, x), k) = Places(s, k)
    BY <1>1
  <1>4. IsFiniteSet(Places(s, x))
    BY FS_Subset
  <1>5. Cardinality(Places(Append(s, x), x)) = Cardinality(Places(s, x)) + 1
    BY <1>2, <1>4, FS_AddElement
  <1> QED  BY <1>3, <1>5 DEF CountIn

LEMMA CountSendCounts ==
    ASSUME ServerInv, CountTypeOK, ProgressInv, RowsInv, SendsInv,
           NEW c \in Calls, CountSend(c), UNCHANGED testVars
    PROVE  CountTypeOK' /\ ProgressInv' /\ RowsInv' /\ SendsInv'
  <1> DEFINE t == TypeOf[c]
             s == sendCounts["ss"]
             i == callIdx[c]
  <1>1. /\ handler[c] = "count" /\ t \in {"ss", "bidi"} /\ streamed[c] > 0
        /\ handler \in [Calls -> {"none", "called", "end"} \cup Inside]
        /\ streamed \in [Calls -> Nat] /\ callIdx \in [Calls -> Nat]
        /\ UNCHANGED <<callCounts, calls, connCount, callIdx, streamed, gone,
                       tests, test, stage>>
    BY DEF CountSend, ServerInv, CallTypeOK, CountTypeOK, ProgressInv, testVars
  <1>2. /\ sendCounts \in [CallTypes -> Seq(Nat)] /\ s \in Seq(Nat) /\ i \in Nat
        /\ IsFiniteSet(DOMAIN s)
    <2>1. s \in Seq(Nat)
      BY DEF CountTypeOK, CallTypes
    <2>2. DOMAIN s = 1..Len(s) /\ Len(s) \in Int
      BY <2>1
    <2>3. IsFiniteSet(1..Len(s))
      BY <2>2, FS_Interval
    <2> QED  BY <1>1, <2>1, <2>2, <2>3 DEF CountTypeOK
  <1>3. /\ sendCounts' = [sendCounts EXCEPT !["ss"] = Append(s, i)]
        /\ handler' = [handler EXCEPT ![c] = IF t = "ss" THEN "send" ELSE "recv"]
    BY DEF CountSend, At
  <1>4. /\ sendCounts'["ss"] = Append(s, i) /\ Append(s, i) \in Seq(Nat)
        /\ handler'[c] = IF t = "ss" THEN "send" ELSE "recv"
        /\ \A d \in Calls : d # c => handler'[d] = handler[d]
    BY <1>1, <1>2, <1>3 DEF CallTypes
  <1>5. CountTypeOK'
    BY <1>1, <1>2, <1>3, <1>4 DEF CountTypeOK
  <1>6. ProgressInv'
    BY <1>1, <1>4 DEF ProgressInv, Streams
  <1>7. Current' = Current /\ \A u : OfType(u)' = OfType(u)
    BY <1>1 DEF Current, OfType
  <1>8. /\ \A d \in Calls : Got(d)' = Got(d)
        /\ \A d \in Calls : d # c => Sent(d)' = Sent(d)
        /\ t = "ss" => Sent(c)' = Sent(c) + 1 /\ Sent(c) \in Nat
    BY <1>1, <1>4 DEF Got, Sent, Streams
  <1>9. ASSUME gone = {}
        PROVE  /\ c \in Current.calls /\ c \in Begun(t)
               /\ \A u : Begun(u)' = Begun(u) /\ Begun(u) \subseteq Calls
               /\ stage \notin {"reset", "resetSends"}
    <2>1. c \in Current.calls /\ stage \notin {"reset", "resetSends"} /\ Current.calls \subseteq Calls
      BY <1>1, <1>9, OnlyCurrentInside, TestsDisjoint DEF ServerInv
    <2>2. Recorded(c) /\ Recorded(c)' /\ \A d \in Calls : d # c => Recorded(d)' = Recorded(d)
      BY <1>1, <1>4 DEF Recorded
    <2> QED  BY <1>7, <2>1, <2>2 DEF OfType, Begun
  <1>10. RowsInv'
    BY <1>1, <1>8, <1>9 DEF RowsInv
  <1>11. SendsInv'
    <2> SUFFICES ASSUME gone = {}, OfType("bidi") = {}
                 PROVE  /\ \A j \in DOMAIN sendCounts'["ss"] :
                               sendCounts'["ss"][j] \in 1..Len(calls["ss"])
                        /\ \A d \in Begun("ss") : CountIn(sendCounts'["ss"], callIdx[d]) = Sent(d)'
      BY <1>1, <1>7, <1>9 DEF SendsInv
    <2>1. t = "ss"
      BY <1>1, <1>9 DEF OfType
    <2>2. /\ \A j \in DOMAIN s : s[j] \in 1..Len(calls["ss"])
          /\ \A d \in Begun("ss") : CountIn(s, callIdx[d]) = Sent(d)
      BY <1>9 DEF SendsInv
    <2>3. i \in 1..Len(calls["ss"]) /\ \A d \in Begun("ss") : callIdx[d] = i => d = c
      BY <1>9, <2>1 DEF RowsInv, CallTypes
    <2>4. \A j \in DOMAIN Append(s, i) : Append(s, i)[j] \in 1..Len(calls["ss"])
      BY <1>2, <2>2, <2>3
    <2>5. CountIn(Append(s, i), i) = Sent(c)'
      BY <1>2, <1>8, <1>9, <2>1, <2>2, CountInAppend
    <2>6. ASSUME NEW d \in Begun("ss"), d # c
          PROVE  CountIn(Append(s, i), callIdx[d]) = Sent(d)'
      <3>1. d \in Calls /\ callIdx[d] \in Nat \ {i}
        BY <1>1, <1>9, <2>3, <2>6
      <3> QED  BY <1>2, <1>8, <2>2, <2>6, <3>1, CountInAppend
    <2> QED  BY <1>4, <2>4, <2>5, <2>6
  <1> QED  BY <1>5, <1>6, <1>10, <1>11

LEMMA HandlingCounts ==
    ASSUME ServerInv, CountTypeOK, ProgressInv, RowsInv, SendsInv,
           Handling, UNCHANGED <<connVars, testVars>>
    PROVE  CountTypeOK' /\ ProgressInv' /\ RowsInv' /\ SendsInv'
  <1>1. PICK c \in Calls : \/ RecordCall(c) \/ Recv(c) \/ RecordMessage(c)
                           \/ Send(c) \/ CountSend(c)
    BY DEF Handling
  <1>2. CASE Recv(c) \/ Send(c)
    <2>1. /\ UNCHANGED <<counters, connCount, callIdx, gone, tests, test, stage>>
          /\ handler[c] \in {"recv", "send"}
          /\ handler \in [Calls -> {"none", "called", "end"} \cup Inside]
          /\ streamed \in [Calls -> Nat]
          /\ UNCHANGED <<calls, callCounts, sendCounts>>
      BY <1>2 DEF Recv, Send, testVars, ServerInv, CallTypeOK, CountTypeOK, counters
    <2>2. /\ handler' = [handler EXCEPT ![c] = handler'[c]]
          /\ streamed' = [streamed EXCEPT ![c] = streamed'[c]]
          /\ \/ handler'[c] = "message" /\ handler[c] = "recv" /\ streamed'[c] = streamed[c] + 1
             \/ /\ handler'[c] = "count" /\ handler[c] = "send"
                /\ streamed'[c] = IF TypeOf[c] = "ss" THEN streamed[c] + 1 ELSE streamed[c]
                /\ TypeOf[c] \in {"ss", "bidi"}
             \/ /\ handler'[c] = "end" /\ streamed'[c] = streamed[c]
                /\ \/ c \in gone
                   \/ handler[c] = "recv" /\ streamed[c] = Messages
                   \/ handler[c] = "send" /\ TypeOf[c] = "ss" /\ streamed[c] = Replies
      BY <1>2, <2>1 DEF Recv, Send, At
    <2>3. \A d \in Calls : d # c => handler'[d] = handler[d] /\ streamed'[d] = streamed[d]
      BY <2>1, <2>2
    <2>4. /\ handler[c] = "recv" => Streams(c)
          /\ handler[c] = "send" => TypeOf[c] \in {"ss", "bidi"}
          /\ TypeOf[c] = "ss" => ~Streams(c)
      BY <2>1 DEF ProgressInv, Streams
    <2>5. CountTypeOK'
      <3>1. streamed'[c] \in Nat
        BY <2>1, <2>2
      <3> QED  BY <2>1, <2>2, <3>1 DEF CountTypeOK
    <2>6. ProgressInv'
      <3>1. streamed[c] \in Nat /\ TypeOf[c] \in CallTypes
        BY <2>1, GreeterAssumption DEF GreeterAssumption
      <3>2. handler[c] = "send" /\ TypeOf[c] = "bidi" => streamed[c] > 0
        BY <2>1 DEF ProgressInv, Streams
      <3> QED  BY <2>1, <2>2, <2>3, <2>4, <3>1, <3>2 DEF ProgressInv, Streams
    <2>7. /\ Recorded(c) = Recorded(c)' /\ Got(c)' = Got(c)
          /\ TypeOf[c] = "ss" => Sent(c)' = Sent(c)
      BY <2>1, <2>2, <2>4 DEF Recorded, Got, Sent, Streams
    <2>8. RowsInv' /\ SendsInv'
      BY <2>1, <2>3, <2>7, MoveCounts DEF ServerInv
    <2> QED  BY <2>5, <2>6, <2>8
  <1> QED  BY <1>1, <1>2, RecordCallCounts, RecordMessageCounts, CountSendCounts

\* The resets, between runs: no call of the test has begun.
LEMMA ResetCounts ==
    ASSUME ServerInv, CountTypeOK, ProgressInv, RowsInv, SendsInv,
           ResetCalls \/ ResetSends \/ ResetConns
    PROVE  CountTypeOK' /\ ProgressInv' /\ RowsInv' /\ SendsInv'
  <1> USE DEF counters, handlers, CallTypes
  <1>1. /\ UNCHANGED <<handler, callIdx, streamed, gone, tests, test, client>>
        /\ stage \in {"reset", "resetSends", "resetConns"} /\ stage' # "reset"
    BY DEF ResetCalls, ResetSends, ResetConns
  <1>2. CountTypeOK'
    <2>1. <<>> \in Seq(Nat)
      OBVIOUS
    <2>2. callCounts' \in [CallTypes -> Nat]
      BY DEF ResetCalls, ResetSends, ResetConns, CountTypeOK
    <2>3. sendCounts' \in [CallTypes -> Seq(Nat)]
      BY <2>1 DEF ResetCalls, ResetSends, ResetConns, CountTypeOK, NoCalls
    <2>4. connCount' \in Nat
      BY DEF ResetCalls, ResetSends, ResetConns, CountTypeOK
    <2> QED  BY <1>1, <2>2, <2>3, <2>4 DEF CountTypeOK
  <1>3. ProgressInv'
    BY <1>1 DEF ProgressInv, Streams
  <1>4. \A u : Begun(u) = {} /\ Begun(u)' = {}
    <2>1. Current.calls \subseteq Calls /\ Current' = Current
      BY <1>1, TestsDisjoint DEF ServerInv, Current
    <2>2. \A c \in Current.calls : handler[c] = "none" /\ handler'[c] = "none"
      BY <1>1, <2>1 DEF ServerInv, PhaseInv, ClientInv
    <2> QED  BY <2>1, <2>2 DEF Begun, OfType, Recorded
  <1>5. CASE ResetCalls
    <2>1. /\ callCounts' = [u \in CallTypes |-> 0] /\ calls' = [u \in CallTypes |-> <<>>]
          /\ stage' = "resetSends"
      BY <1>5 DEF ResetCalls, NoCalls
    <2> QED  BY <1>2, <1>3, <1>4, <2>1, FS_EmptySet DEF RowsInv, SendsInv
  <1>6. CASE ResetSends \/ ResetConns
    <2>1. UNCHANGED <<callCounts, calls>> /\ stage # "reset"
      BY <1>6 DEF ResetSends, ResetConns
    <2>2. RowsInv'
      BY <1>1, <1>4, <2>1 DEF RowsInv
    <2>3. CASE ResetSends
      <3>1. sendCounts'["ss"] = <<>>
        BY <2>3 DEF ResetSends, NoCalls
      <3> QED  BY <1>2, <1>3, <1>4, <2>2, <3>1 DEF SendsInv
    <2>4. CASE ResetConns
      <3>1. sendCounts' = sendCounts /\ stage = "resetConns" /\ Current' = Current
        BY <1>1, <2>4 DEF ResetConns, Current
      <3> QED  BY <1>1, <1>2, <1>3, <1>4, <2>1, <2>2, <3>1 DEF SendsInv, OfType
    <2> QED  BY <1>6, <2>3, <2>4
  <1> QED  BY <1>5, <1>6

LEMMA CountStep ==
    ASSUME ServerInv, CountTypeOK, ProgressInv, RowsInv, SendsInv, [Next]_vars
    PROVE  CountTypeOK' /\ ProgressInv' /\ RowsInv' /\ SendsInv'
  <1> USE DEF greeterVars, testVars
  <1>1. CASE New \/ Stop \/ RunEnds \/ Returned
    <2>1. UNCHANGED <<counters, handlers, gone, tests, test>>
      BY <1>1 DEF New, Stop, RunEnds, Returned
    <2>2. stage \notin {"reset", "resetSends"} /\ connCount' \in Nat
      BY <1>1 DEF New, Stop, RunEnds, Returned, CountTypeOK
    <2> QED  BY <2>1, <2>2, SameCounts DEF CountTypeOK, counters, handlers
  <1>2. ASSUME NEW n \in Conns, Connect(n)
        PROVE  CountTypeOK' /\ ProgressInv' /\ RowsInv' /\ SendsInv'
    BY <1>2, SameCounts DEF Connect, CountTypeOK, counters, handlers
  <1>3. ASSUME NEW c \in Calls, Call(c) \/ Return(c) \/ GiveUp(c)
        PROVE  CountTypeOK' /\ ProgressInv' /\ RowsInv' /\ SendsInv'
    BY <1>3, SameCounts DEF Call, Return, GiveUp, CountTypeOK, counters, handlers
  <1>4. ASSUME NEW c \in Calls, Deliver(c)
        PROVE  CountTypeOK' /\ ProgressInv' /\ RowsInv' /\ SendsInv'
    <2>1. /\ UNCHANGED <<counters, callIdx, streamed, gone, connCount, tests, test, stage>>
          /\ handler[c] = "none"
          /\ handler' = [handler EXCEPT ![c] = "called"]
          /\ handler \in [Calls -> {"none", "called", "end"} \cup Inside]
      BY <1>4 DEF Deliver, At, ServerInv, CallTypeOK
    <2>2. /\ \A d \in Calls : d # c => handler'[d] = handler[d] /\ streamed'[d] = streamed[d]
          /\ handler'[c] = "called"
      BY <2>1
    <2>3. CountTypeOK'
      BY <2>1 DEF CountTypeOK, counters
    <2>4. ProgressInv'
      BY <2>1, <2>2 DEF ProgressInv, Streams
    <2>5. ~Recorded(c) /\ ~(Recorded(c)')
      BY <2>1, <2>2 DEF Recorded
    <2>6. Recorded(c) = Recorded(c)'
      BY <2>5 DEF Recorded
    <2> QED  BY <2>1, <2>2, <2>3, <2>4, <2>5, <2>6, MoveCounts DEF ServerInv
  <1>5. CASE NextTest
    <2>1. /\ UNCHANGED <<counters, handlers, connCount, gone>>
          /\ stage' = "reset"
      BY <1>5 DEF NextTest
    <2> QED
      BY <2>1 DEF CountTypeOK, ProgressInv, RowsInv, SendsInv, Streams, counters, handlers
  <1>6. CASE Handling /\ UNCHANGED <<connVars, testVars>>
    BY <1>6, HandlingCounts
  <1>7. CASE (Closing \/ Watching) /\ UNCHANGED <<greeterVars, testVars>>
    BY <1>7, SameCounts DEF CountTypeOK, counters, handlers
  <1>8. CASE UNCHANGED vars
    BY <1>8, SameCounts DEF vars, CountTypeOK, counters, handlers
  <1> QED
    BY <1>1, <1>2, <1>3, <1>4, <1>5, <1>6, <1>7, <1>8, ResetCounts DEF Next, Terminated

LEMMA CountInit == Init => CountTypeOK /\ ProgressInv /\ RowsInv /\ SendsInv
  <1>1. \A t \in CallTypes : <<>> \in Seq(Nat)
    OBVIOUS
  <1> QED
    BY <1>1 DEF Init, GreeterInit, NoCalls, CountTypeOK, ProgressInv, RowsInv, SendsInv, Streams

-----------------------------------------------------------------------------
(* The connections of a run *)

LEMMA UpIsFinite ==
    ASSUME ServerInv
    PROVE  /\ Used \subseteq Conns /\ Up \subseteq Conns /\ Tried \subseteq Conns
           /\ \A S \in SUBSET Conns : IsFiniteSet(S) /\ Cardinality(S) \in Nat
           /\ Cardinality(Conns) = NConns
  <1>1. Current.calls \subseteq Calls
    BY TestsDisjoint DEF ServerInv
  <1>2. Used \subseteq Conns
    BY <1>1, TestRunAssumption DEF TestRunAssumption, Used
  <1>3. IsFiniteSet(Conns) /\ Cardinality(Conns) = NConns
    BY ClientConnsAssumption, FS_Interval DEF ClientConnsAssumption, Conns
  <1>4. \A S \in SUBSET Conns : IsFiniteSet(S) /\ Cardinality(S) \in Nat
    BY <1>3, FS_Subset, FS_CardinalityType
  <1> QED  BY <1>2, <1>3, <1>4 DEF Up, Tried

\* Steps that close or open no connection and make no call.
LEMMA SameConns ==
    ASSUME ConnsInv, UNCHANGED <<tests, test, connCount, conn>>, panic => panic',
           {c \in Current.calls : client[c] \in {"running", "done"}}
           = {c \in Current.calls : client'[c] \in {"running", "done"}},
           stage' \in {"reset", "resetSends", "resetConns", "refused", stage}
           \/ {stage, stage'} \subseteq {"run", "closing", "check"}
    PROVE  ConnsInv'
  <1>1. Current' = Current /\ Reflects' = Reflects
    BY DEF Current, Reflects
  <1>2. Used' = Used
    BY <1>1 DEF Used
  <1>3. Up' = Up /\ Tried' = Tried /\ Own' = Own
    BY <1>1, <1>2 DEF Up, Tried, Own
  <1> QED  BY <1>3 DEF ConnsInv

LEMMA ConnsStep ==
    ASSUME ServerInv, ConnTypeOK, CountTypeOK, ConnsInv, [Next]_vars, ServerInv'
    PROVE  ConnsInv'
  <1> USE DEF greeterVars, testVars, connVars
  <1>1. CASE ResetCalls \/ ResetSends \/ NextTest
    <2>1. stage' \in {"reset", "resetSends", "resetConns"}
      BY <1>1 DEF ResetCalls, ResetSends, NextTest
    <2> QED  BY <2>1 DEF ConnsInv
  <1>2. CASE ResetConns
    <2>1. stage' = "new" /\ connCount' = 0
      BY <1>2 DEF ResetConns
    <2> QED  BY <2>1 DEF ConnsInv
  <1>3. CASE New /\ ~panic
    <2>1. stage = "new" /\ connCount = 0 /\ UNCHANGED <<tests, test, client>>
      BY <1>3 DEF New, ConnsInv
    <2>2. CASE stage' = "run" /\ conn' = [n \in Conns |-> "connecting"]
      <3>1. Used' = {}
        BY <2>1 DEF Used, Current, ServerInv, PhaseInv
      <3>2. Up' = {} /\ Tried' = {}
        BY <2>2, <3>1 DEF Up, Tried
      <3>3. Own' = 0
        <4>1. Reflects' = Reflects
          BY <2>1 DEF Reflects, Current
        <4>2. connCount' = IF Reflects THEN 1 ELSE 0
          BY <1>3, <2>1 DEF New
        <4> QED  BY <4>1, <4>2 DEF Own
      <3> QED  BY <2>2, <3>2, <3>3, FS_EmptySet DEF ConnsInv
    <2>3. CASE stage' = "refused"
      BY <2>3 DEF ConnsInv
    <2>4. CASE stage' = stage /\ panic'
      BY <2>1, <2>4 DEF ConnsInv
    <2> QED  BY <1>3, <2>2, <2>3, <2>4 DEF New
  <1>4. ASSUME NEW n \in Conns, Connect(n)
        PROVE  ConnsInv'
    <2>1. /\ stage = "run" /\ stage' = "run" /\ conn[n] = "connecting"
          /\ conn' = [conn EXCEPT ![n] = "ready"] /\ connCount' = connCount + 1
          /\ UNCHANGED <<tests, test, client>>
      BY <1>4 DEF Connect
    <2>2. conn'[n] = "ready" /\ \A m \in Conns : m # n => conn'[m] = conn[m]
      BY <2>1 DEF ConnTypeOK
    <2>3. Used' = Used /\ Own' = Own + 1
      BY <2>1 DEF Used, Current, Own, Reflects, CountTypeOK
    <2>4. Up' = Up \cup {n} /\ Tried' = Tried \cup {n}
      BY <2>1, <2>2, <2>3 DEF Up, Tried
    <2>5. n \notin Tried /\ n \notin Up
      BY <2>1 DEF ConnsInv, Tried
    <2>6. Cardinality(Up') = Cardinality(Up) + 1 /\ Cardinality(Tried') = Cardinality(Tried) + 1
      BY <2>4, <2>5, UpIsFinite, FS_AddElement
    <2>7. /\ Up \subseteq Tried /\ Cardinality(Up) <= Own /\ Own <= Cardinality(Tried)
          /\ Cardinality(Up) \in Nat /\ Cardinality(Tried) \in Nat
          /\ connCount \in Nat /\ Own \in Int
      BY <2>1, UpIsFinite DEF ConnsInv, CountTypeOK, Own
    <2> QED  BY <2>1, <2>3, <2>4, <2>6, <2>7 DEF ConnsInv
  <1>5. ASSUME NEW c \in Calls, Call(c)
        PROVE  ConnsInv'
    <2>1. /\ stage = "run" /\ stage' = "run" /\ c \in Current.calls
          /\ UNCHANGED <<tests, test, conn, connCount, panic>>
          /\ Current.calls \subseteq Calls
      BY <1>5, TestsDisjoint DEF Call, ServerInv
    <2>2. CASE client' = [client EXCEPT ![c] = "failed"] /\ client[c] = "none"
      <3>1. \A d \in Calls : client'[d] \in {"running", "done"} <=> client[d] \in {"running", "done"}
        BY <2>2 DEF ServerInv, CallTypeOK
      <3> QED  BY <2>1, <3>1, SameConns
    <2>3. CASE client' = [client EXCEPT ![c] = "running"] /\ conn[ConnOf[c]] = "ready"
      <3>1. \A d \in Calls : client'[d] = IF d = c THEN "running" ELSE client[d]
        BY <2>3 DEF ServerInv, CallTypeOK
      <3>2. Current' = Current /\ Own' = Own /\ Tried' = Tried
        BY <2>1 DEF Current, Own, Reflects, Tried
      <3>3. Used \subseteq Used' /\ Used' \subseteq Used \cup {ConnOf[c]}
        BY <2>1, <3>1, <3>2 DEF Used
      <3>4. ConnOf[c] \in Up
        BY <2>3, TestRunAssumption DEF TestRunAssumption, Up
      <3>5. Up' = Up
        BY <2>1, <3>3, <3>4 DEF Up
      <3> QED  BY <2>1, <3>2, <3>5 DEF ConnsInv
    <2> QED  BY <1>5, <2>2, <2>3 DEF Call
  <1>6. ASSUME NEW c \in Calls, Return(c) \/ GiveUp(c)
        PROVE  ConnsInv'
    <2>1. /\ stage' = stage /\ UNCHANGED <<tests, test, conn, connCount, panic>>
          /\ client[c] = "running" /\ client' = [client EXCEPT ![c] = "done"]
      BY <1>6 DEF Return, GiveUp
    <2>2. \A d : d \in Current.calls => d \in Calls
      BY TestsDisjoint DEF ServerInv
    <2>3. \A d \in Calls : client'[d] \in {"running", "done"} <=> client[d] \in {"running", "done"}
      BY <2>1 DEF ServerInv, CallTypeOK
    <2> QED  BY <2>1, <2>2, <2>3, SameConns
  <1>7. CASE Stop \/ RunEnds \/ Returned \/ \E c \in Calls : Deliver(c)
    <2>1. /\ UNCHANGED <<tests, test, conn, connCount, client, panic>>
          /\ stage' = stage \/ {stage, stage'} \subseteq {"run", "closing", "check"}
      BY <1>7 DEF Stop, RunEnds, Returned, CallClose, Deliver
    <2> QED  BY <2>1, SameConns
  <1>8. CASE Handling /\ UNCHANGED <<connVars, testVars>>
    <2>1. UNCHANGED <<tests, test, conn, connCount, client, stage>> /\ (panic => panic')
      BY <1>8 DEF Handling, RecordCall, Recv, RecordMessage, Send, CountSend
    <2> QED  BY <2>1, SameConns
  <1>9. CASE (Closing \/ Watching) /\ UNCHANGED <<greeterVars, testVars>>
    <2>1. UNCHANGED <<tests, test, connCount, client, stage, panic>>
      BY <1>9
    <2>2. CASE conn' = conn
      BY <2>1, <2>2, SameConns
    <2>3. CASE \E c \in Closers : CloseConn(c)
      <3>1. PICK c \in Closers : CloseConn(c)
        BY <2>3
      <3>2. \A n \in Conns : conn'[n] \in {conn[n], "shutdown"}
        BY <3>1 DEF CloseConn, ConnTypeOK
      <3>3. Used' = Used /\ Own' = Own
        BY <2>1 DEF Used, Current, Own, Reflects
      <3>4. Up' \subseteq Up /\ Tried \subseteq Tried'
        BY <3>2, <3>3 DEF Up, Tried
      <3>5. /\ Tried' \subseteq Conns /\ Up \subseteq Conns
            /\ Cardinality(Up') <= Cardinality(Up)
            /\ Cardinality(Tried) <= Cardinality(Tried')
            /\ Cardinality(Up') \in Nat /\ Cardinality(Tried') \in Nat
            /\ Cardinality(Up) \in Nat /\ Cardinality(Tried) \in Nat
        <4>1. /\ Up' \subseteq Conns /\ Up \subseteq Conns
              /\ Tried' \subseteq Conns /\ Tried \subseteq Conns
              /\ \A S \in SUBSET Conns : IsFiniteSet(S) /\ Cardinality(S) \in Nat
          BY <3>4, UpIsFinite DEF Tried
        <4> QED  BY <3>4, <4>1, FS_Subset
      <3>6. Own \in Int
        BY DEF Own, CountTypeOK
      <3>7. stage \in {"run", "closing", "check"} => Up' \subseteq Tried'
        BY <3>4 DEF ConnsInv
      <3>8. stage \in {"run", "closing", "check"} =>
                Cardinality(Up') <= Own' /\ Own' <= Cardinality(Tried')
        <4>1. SUFFICES ASSUME Cardinality(Up) <= Own, Own <= Cardinality(Tried)
                       PROVE  Cardinality(Up') <= Own' /\ Own' <= Cardinality(Tried')
          BY DEF ConnsInv
        <4> QED  BY <3>3, <3>5, <3>6, <4>1
      <3> QED  BY <2>1, <3>7, <3>8 DEF ConnsInv
    <2> QED
      BY <1>9, <2>2, <2>3 DEF Closing, Watching, Lock, Watch, ReceiveShutdown, CheckState,
                              GetState, StateChange, Expire
  <1>10. CASE UNCHANGED vars
    BY <1>10, SameConns DEF vars
  <1> QED
    BY <1>1, <1>2, <1>3, <1>4, <1>5, <1>6, <1>7, <1>8, <1>9, <1>10 DEF Next, Terminated

LEMMA ConnsInit == Init => ConnsInv
  BY DEF Init, ConnsInv

\* What the invariants say of a test that is checked.
LEMMA CountsFollow ==
    ASSUME ServerInv, CountTypeOK, ProgressInv, RowsInv, SendsInv, ConnsInv
    PROVE  CountsExact
  <1> SUFFICES ASSUME stage = "check", gone = {}
               PROVE  /\ \A t \in CallTypes :
                            /\ callCounts[t] = Cardinality(OfType(t))
                            /\ Len(calls[t]) = Cardinality(OfType(t))
                            /\ \A c \in OfType(t) :
                                  calls[t][callIdx[c]] = [k \in 1..Received(t) |-> c]
                      /\ OfType("bidi") = {} =>
                            \A c \in OfType("ss") : SendCount("ss", callIdx[c]) = Replies
                      /\ Cardinality({ConnOf[c] : c \in Current.calls}) <= Own
                      /\ Own <= NConns
    BY DEF CountsExact, Own
  <1>1. Current.calls \subseteq Calls
    BY TestsDisjoint DEF ServerInv
  <1>2. \A c \in Current.calls : client[c] = "done" /\ handler[c] = "end"
    BY <1>1 DEF ServerInv, PhaseInv, ClientInv, CallTypeOK
  <1>3. \A t : Begun(t) = OfType(t)
    BY <1>2 DEF Begun, OfType, Recorded
  <1>4. ASSUME NEW t \in CallTypes, NEW c \in OfType(t)
        PROVE  /\ Got(c) = Received(t)
               /\ t = "ss" => Sent(c) = Replies
    <2>1. c \in Calls /\ TypeOf[c] = t /\ handler[c] = "end"
      BY <1>1, <1>2 DEF OfType
    <2> QED  BY <2>1 DEF ProgressInv, Got, Sent, Received, Streams, CallTypes
  <1>5. ASSUME NEW t \in CallTypes
        PROVE  /\ callCounts[t] = Cardinality(OfType(t))
               /\ Len(calls[t]) = Cardinality(OfType(t))
               /\ \A c \in OfType(t) : calls[t][callIdx[c]] = [k \in 1..Received(t) |-> c]
    <2>1. /\ callCounts[t] = Cardinality(Begun(t)) /\ Len(calls[t]) = Cardinality(Begun(t))
          /\ \A c \in Begun(t) : calls[t][callIdx[c]] = Row(c, Got(c))
      BY DEF RowsInv
    <2>2. \A c \in OfType(t) : calls[t][callIdx[c]] = Row(c, Received(t))
      BY <1>3, <1>4, <2>1
    <2> QED  BY <1>3, <2>1, <2>2 DEF Row
  <1>6. ASSUME OfType("bidi") = {}, NEW c \in OfType("ss")
        PROVE  SendCount("ss", callIdx[c]) = Replies
    <2>1. CountIn(sendCounts["ss"], callIdx[c]) = Sent(c)
      BY <1>3, <1>6 DEF SendsInv
    <2>2. Sent(c) = Replies
      BY <1>4 DEF CallTypes
    <2> QED  BY <2>1, <2>2 DEF SendCount, CountIn
  <1>7. Cardinality({ConnOf[c] : c \in Current.calls}) <= Own /\ Own <= NConns
    <2>1. {ConnOf[c] : c \in Current.calls} = Used /\ Used \subseteq Up
      BY <1>2 DEF Used, Up
    <2>2. /\ IsFiniteSet(Up) /\ IsFiniteSet(Conns)
          /\ {Cardinality(Used), Cardinality(Up), Cardinality(Tried), NConns} \subseteq Nat
      BY UpIsFinite
    <2>3. Cardinality(Used) <= Cardinality(Up) /\ Cardinality(Tried) <= NConns
      BY <2>1, <2>2, UpIsFinite, FS_Subset
    <2>4. Cardinality(Up) <= Own /\ Own <= Cardinality(Tried) /\ Own \in Int
      BY DEF ConnsInv, Own, CountTypeOK
    <2> QED  BY <2>1, <2>2, <2>3, <2>4
  <1> QED  BY <1>5, <1>6, <1>7

\* Whatever the tests and however their calls interleave: a test none of whose calls,
\* nor an earlier test's, was given up reads counters that are exactly those of its
\* calls.
THEOREM CountsCorrect == Spec => []CountsExact
  <1> DEFINE Counted == CountTypeOK /\ ProgressInv /\ RowsInv /\ SendsInv /\ ConnsInv
  <1>1. Init => ServerInv /\ ConnTypeOK /\ CloseInv /\ StageInv /\ Counted
    BY ServerInit, ConnInit, CountInit, ConnsInit
  <1>2. ServerInv /\ ConnTypeOK /\ CloseInv /\ StageInv /\ Counted /\ [Next]_vars
        => (ServerInv /\ ConnTypeOK /\ CloseInv /\ StageInv /\ Counted)'
    BY ServerStep, ConnStep, CountStep, ConnsStep
  <1>3. ServerInv /\ Counted => CountsExact
    BY CountsFollow
  <1> HIDE DEF Counted
  <1> QED  BY <1>1, <1>2, <1>3, PTL DEF Spec
-----------------------------------------------------------------------------
(* Induction *)

LessThan == {ss \in Nat \X Nat : ss[1] < ss[2]}

\* A set of numbers that is not empty has a least one.
LEMMA LeastNumber ==
    ASSUME NEW T \in SUBSET Nat, T # {}
    PROVE  \E x \in T : \A y \in T : x <= y
  <1>1. IsWellFoundedOn(LessThan, Nat)
    BY NatLessThanWellFounded DEF OpToRel, LessThan
  <1>2. PICK x \in T : \A y \in T : <<y, x>> \notin LessThan
    BY <1>1, WFMin
  <1>3. ASSUME NEW y \in T  PROVE x <= y
    <2>1. <<y, x>> \notin LessThan
      BY <1>2
    <2>2. x \in Nat /\ y \in Nat
      OBVIOUS
    <2>3. ~ (y < x)
      BY <2>1, <2>2 DEF LessThan
    <2> QED  BY <2>2, <2>3
  <1> QED  BY <1>3

\* A set of numbers that has 0 and every next one has them all.
LEMMA InductionOnSet ==
    ASSUME NEW S, 0 \in S, \A n \in Nat : n \in S => n + 1 \in S
    PROVE  Nat \subseteq S
  <1> DEFINE T == {n \in Nat : n \notin S}
  <1>1. SUFFICES ASSUME T # {}  PROVE FALSE
    OBVIOUS
  <1>2. PICK x \in T : \A y \in T : x <= y
    <2>1. T \in SUBSET Nat
      OBVIOUS
    <2> HIDE DEF T
    <2> QED  BY <1>1, <2>1, LeastNumber
  <1>3. x \in Nat /\ x # 0 /\ x \notin S
    OBVIOUS
  <1>4. x - 1 \in Nat /\ x - 1 \in S
    BY <1>2, <1>3
  <1> QED  BY <1>3, <1>4

-----------------------------------------------------------------------------
(* The method lookup *)

\* The names of the files, and that they have an order in which imports come first.
NamesOf(files) == {f.name : f \in Range(files)}

Ordered(files) == \E rank \in [NamesOf(files) -> 1..Len(files)] :
                          \A f \in Range(files) : \A d \in Range(f.deps) :
                              d \in NamesOf(files) /\ rank[d] < rank[f.name]

\* What the resolution makes of a file of some imports, when level is the outcome of
\* what it can import.
Outcome(level, deps, names) ==
    LET of(k) == IF deps[k] \in names THEN level[deps[k]] ELSE "error"
        bad == {k \in DOMAIN deps : of(k) # "found"}
    IN  IF bad = {} THEN "found"
        ELSE of(CHOOSE k \in bad : \A j \in bad : k <= j)

\* A file is resolved when all its imports are.
LEMMA OutcomeRight ==
    ASSUME NEW level, NEW names, NEW deps,
           Len(deps) \in Nat, DOMAIN deps = 1..Len(deps)
    PROVE  Outcome(level, deps, names) = "found"
           <=> \A d \in Range(deps) : d \in names /\ level[d] = "found"
  <1> DEFINE of(k) == IF deps[k] \in names THEN level[deps[k]] ELSE "error"
             bad == {k \in DOMAIN deps : of(k) # "found"}
             first == CHOOSE k \in bad : \A j \in bad : k <= j
  <1>1. Outcome(level, deps, names) = IF bad = {} THEN "found" ELSE of(first)
    BY DEF Outcome
  <1>2. ASSUME bad # {}  PROVE of(first) # "found"
    <2>1. bad \in SUBSET Nat
      OBVIOUS
    <2>2. \E k \in bad : \A j \in bad : k <= j
      <3> HIDE DEF bad
      <3> QED  BY <1>2, <2>1, LeastNumber
    <2>3. first \in bad
      <3> HIDE DEF bad
      <3> QED  BY <2>2
    <2> QED  BY <2>3
  <1>3. bad = {} <=> \A d \in Range(deps) : d \in names /\ level[d] = "found"
    BY DEF Range
  <1> HIDE DEF of, bad, first
  <1> QED  BY <1>1, <1>2, <1>3

\* The files, by name.
LEMMA FilesByName ==
    ASSUME NEW files, FileList(files)
    PROVE  /\ \A f \in Range(files) : (CHOOSE g \in Range(files) : g.name = f.name) = f
           /\ IsFiniteSet(NamesOf(files)) /\ Cardinality(NamesOf(files)) = Len(files)
  <1>1. \A f, g \in Range(files) : f.name = g.name => f = g
    BY DEF Range, FileList
  <1>2. ASSUME NEW f \in Range(files)
        PROVE  (CHOOSE g \in Range(files) : g.name = f.name) = f
    BY <1>1
  <1> DEFINE name == [k \in 1..Len(files) |-> files[k].name]
  <1>3. name \in Bijection(1..Len(files), NamesOf(files))
    <2>1. name \in Injection(1..Len(files), NamesOf(files))
      BY DEF FileList, NamesOf, Range, Injection, IsInjective
    <2>2. name \in Surjection(1..Len(files), NamesOf(files))
      BY DEF FileList, NamesOf, Range, Surjection
    <2> QED  BY <2>1, <2>2 DEF Bijection
  <1>4. IsFiniteSet(1..Len(files)) /\ Cardinality(1..Len(files)) = Len(files)
    BY FS_Interval DEF FileList
  <1> HIDE DEF name
  <1>5. IsFiniteSet(NamesOf(files)) /\ Cardinality(NamesOf(files)) = Len(files)
    <2>1. ExistsBijection(1..Len(files), NamesOf(files))
      BY <1>3 DEF ExistsBijection
    <2> QED  BY <1>4, <2>1, FS_Bijection
  <1> QED  BY <1>2, <1>5

\* The levels of the resolution.
Level(r, files, m) ==
    /\ r[0] = [n \in NamesOf(files) |-> "overflow"]
    /\ \A k \in 1..m : \A f \in Range(files) :
          r[k][f.name] = "found" <=> \A d \in Range(f.deps) :
                                        d \in NamesOf(files) /\ r[k - 1][d] = "found"

LEMMA ResolutionLevels ==
    ASSUME NEW files, FileList(files)
    PROVE  \E r : /\ Resolution(files) = r[Len(files) + 1]
                  /\ Level(r, files, Len(files) + 1)
  <1> DEFINE Names == {f.name : f \in Range(files)}
             named(n) == CHOOSE f \in Range(files) : f.name = n
             Solves(f, m) ==
                f = [depth \in 0..m |->
                        [n \in Names |->
                            IF depth = 0 THEN "overflow"
                            ELSE LET deps == named(n).deps
                                     of(k) == IF deps[k] \in Names THEN f[depth - 1][deps[k]]
                                              ELSE "error"
                                     bad == {k \in DOMAIN deps : of(k) # "found"}
                                 IN  IF bad = {} THEN "found"
                                     ELSE of(CHOOSE k \in bad : \A j \in bad : k <= j)]]
             r == CHOOSE f : Solves(f, Cardinality(Names) + 1)
  <1>1. Resolution(files) = r[Cardinality(Names) + 1]
    BY DEF Resolution
  <1>2. Names = NamesOf(files) /\ Cardinality(Names) = Len(files) /\ Len(files) \in Nat
    BY FilesByName DEF NamesOf, FileList
  <1> HIDE DEF Names
  <1>3. ASSUME NEW f, NEW m
        PROVE  Solves(f, m) <=>
                 f = [depth \in 0..m |->
                         [n \in Names |->
                             IF depth = 0 THEN "overflow"
                             ELSE Outcome(f[depth - 1], named(n).deps, Names)]]
    BY DEF Outcome
  <1> HIDE DEF Solves, named
  <1>4. \E f : Solves(f, Cardinality(Names) + 1)
    <2> DEFINE S == {m \in Nat : \E f : Solves(f, m)}
    <2>1. 0 \in S
      <3>1. Solves([depth \in 0..0 |-> [n \in Names |-> "overflow"]], 0)
        BY <1>3
      <3> QED  BY <3>1
    <2>2. ASSUME NEW m \in Nat, m \in S  PROVE m + 1 \in S
      <3>1. PICK f : Solves(f, m)
        BY <2>2
      <3> DEFINE top == [n \in Names |-> Outcome(f[m], named(n).deps, Names)]
                 g == [depth \in 0..m + 1 |-> IF depth = m + 1 THEN top ELSE f[depth]]
                 Next1(h, depth) == [n \in Names |->
                             IF depth = 0 THEN "overflow"
                             ELSE Outcome(h[depth - 1], named(n).deps, Names)]
      <3>2. ASSUME NEW depth \in 0..m + 1  PROVE g[depth] = Next1(g, depth)
        <4>1. CASE depth = m + 1
          <5>1. g[depth] = top /\ depth # 0 /\ g[depth - 1] = f[m]
            BY <4>1
          <5> QED  BY <5>1
        <4>2. CASE depth # m + 1
          <5>1. depth \in 0..m /\ g[depth] = f[depth] /\ (depth # 0 => g[depth - 1] = f[depth - 1])
            BY <4>2
          <5>2. f[depth] = Next1(f, depth)
            <6>1. f = [d \in 0..m |-> Next1(f, d)]
              BY <1>3, <3>1
            <6> HIDE DEF Next1
            <6> QED  BY <5>1, <6>1
          <5> HIDE DEF g
          <5> QED  BY <5>1, <5>2
        <4> QED  BY <4>1, <4>2
      <3>3. g = [depth \in 0..m + 1 |-> Next1(g, depth)]
        <4>1. g = [depth \in 0..m + 1 |-> g[depth]]
          <5> HIDE DEF top
          <5> QED  OBVIOUS
        <4> HIDE DEF g, Next1
        <4> QED  BY <3>2, <4>1
      <3>4. Solves(g, m + 1)
        <4> HIDE DEF g
        <4> QED  BY <1>3, <3>3
      <3> HIDE DEF g
      <3> QED  BY <3>4
    <2>3. Nat \subseteq S
      <3> HIDE DEF S
      <3> QED  BY <2>1, <2>2, InductionOnSet
    <2> QED  BY <1>2, <2>3
  <1>5. Solves(r, Len(files) + 1)
    BY <1>2, <1>4
  <1> HIDE DEF r
  <1>6. ASSUME NEW k \in 0..Len(files) + 1
        PROVE  r[k] = [n \in Names |->
                          IF k = 0 THEN "overflow"
                          ELSE Outcome(r[k - 1], named(n).deps, Names)]
    <2> DEFINE Next1(d) == [n \in Names |->
                             IF d = 0 THEN "overflow"
                             ELSE Outcome(r[d - 1], named(n).deps, Names)]
    <2>1. r = [d \in 0..Len(files) + 1 |-> Next1(d)]
      BY <1>3, <1>5
    <2>2. r[k] = Next1(k)
      <3> HIDE DEF Next1
      <3> QED  BY <2>1
    <2> QED  BY <2>2
  <1>7. Level(r, files, Len(files) + 1)
    <2>1. r[0] = [n \in Names |-> "overflow"]
      BY <1>2, <1>6
    <2>2. ASSUME NEW k \in 1..Len(files) + 1, NEW f \in Range(files)
          PROVE  r[k][f.name] = "found" <=> \A d \in Range(f.deps) :
                                               d \in Names /\ r[k - 1][d] = "found"
      <3>1. f.name \in Names /\ named(f.name) = f
        BY FilesByName DEF Names, named
      <3>2. k \in 0..Len(files) + 1 /\ k # 0
        BY <1>2
      <3>3. r[k][f.name] = Outcome(r[k - 1], f.deps, Names)
        <4>1. r[k] = [n \in Names |-> IF k = 0 THEN "overflow"
                                      ELSE Outcome(r[k - 1], named(n).deps, Names)]
          BY <1>6, <3>2
        <4>2. r[k][f.name] = Outcome(r[k - 1], named(f.name).deps, Names)
          BY <3>1, <3>2, <4>1
        <4> QED  BY <3>1, <4>2
      <3>4. Len(f.deps) \in Nat /\ DOMAIN f.deps = 1..Len(f.deps)
        BY DEF FileList, Range
      <3> QED  BY <3>3, <3>4, OutcomeRight
    <2> QED  BY <1>2, <2>1, <2>2 DEF Level
  <1> QED  BY <1>1, <1>2, <1>7

\* The outcome is that of an order: all files are resolved when and only when they can
\* be put in one in which every import comes first.
LEMMA ResolutionOrders ==
    ASSUME NEW files, FileList(files)
    PROVE  Ordered(files) <=> \A n \in NamesOf(files) : Resolution(files)[n] = "found"
  <1> DEFINE N == NamesOf(files)
             top == Len(files) + 1
  <1>1. PICK r : Resolution(files) = r[top] /\ Level(r, files, top)
    BY ResolutionLevels
  <1>2. /\ Len(files) \in Nat /\ IsFiniteSet(N) /\ Cardinality(N) = Len(files)
        /\ \A n \in N : \E f \in Range(files) : f.name = n
        /\ \A f \in Range(files) : f.name \in N
    BY FilesByName DEF NamesOf, FileList
  <1> HIDE DEF N
  <1>3. /\ \A n \in N : r[0][n] = "overflow"
        /\ \A k \in 1..top : \A f \in Range(files) :
              r[k][f.name] = "found" <=> \A d \in Range(f.deps) :
                                            d \in N /\ r[k - 1][d] = "found"
    BY <1>1 DEF Level, N
  <1>4. ASSUME NEW rank \in [N -> 1..Len(files)],
               \A f \in Range(files) : \A d \in Range(f.deps) :
                   d \in N /\ rank[d] < rank[f.name]
        PROVE  \A n \in N : r[top][n] = "found"
    <2> DEFINE S == {k \in Nat : k <= top => \A n \in N : rank[n] <= k => r[k][n] = "found"}
    <2>1. 0 \in S
      BY <1>2
    <2>2. ASSUME NEW k \in Nat, k \in S  PROVE k + 1 \in S
      <3>1. SUFFICES ASSUME k + 1 <= top, NEW f \in Range(files), rank[f.name] <= k + 1
                     PROVE  r[k + 1][f.name] = "found"
        BY <1>2
      <3>2. ASSUME NEW d \in Range(f.deps)  PROVE d \in N /\ r[k][d] = "found"
        <4>1. d \in N /\ rank[d] < rank[f.name] /\ rank[d] \in Int /\ rank[f.name] \in Int
          BY <1>2, <1>4
        <4>2. rank[d] <= k /\ k <= top
          BY <1>2, <3>1, <4>1
        <4> QED  BY <2>2, <4>1, <4>2
      <3>3. k + 1 \in 1..top /\ (k + 1) - 1 = k
        BY <1>2, <3>1
      <3> QED  BY <1>3, <3>2, <3>3
    <2>3. top \in S
      <3> HIDE DEF S
      <3> QED  BY <1>2, <2>1, <2>2, InductionOnSet
    <2> QED  BY <1>2, <2>3
  <1>5. ASSUME \A n \in N : r[top][n] = "found"
        PROVE  \E rank \in [N -> 1..Len(files)] :
                  \A f \in Range(files) : \A d \in Range(f.deps) :
                      d \in N /\ rank[d] < rank[f.name]
    <2> DEFINE FoundAt(n) == {k \in 1..top : r[k][n] = "found"}
               level == [n \in N |-> CHOOSE k \in FoundAt(n) : \A j \in FoundAt(n) : k <= j]
    <2>1. ASSUME NEW n \in N
          PROVE  level[n] \in FoundAt(n) /\ \A j \in FoundAt(n) : level[n] <= j
      <3>1. FoundAt(n) \in SUBSET Nat /\ top \in FoundAt(n)
        BY <1>2, <1>5
      <3> HIDE DEF FoundAt
      <3>2. \E k \in FoundAt(n) : \A j \in FoundAt(n) : k <= j
        BY <3>1, LeastNumber
      <3> QED  BY <3>2
    <2>2. ASSUME NEW f \in Range(files), NEW d \in Range(f.deps)
          PROVE  d \in N /\ level[d] < level[f.name]
      <3> DEFINE k == level[f.name]
      <3>1. k \in 1..top /\ r[k][f.name] = "found"
        BY <1>2, <2>1
      <3> HIDE DEF level
      <3>2. d \in N /\ r[k - 1][d] = "found"
        BY <1>3, <3>1
      <3>3. k - 1 # 0
        BY <1>3, <3>2
      <3>4. k - 1 \in FoundAt(d)
        BY <1>2, <3>1, <3>2, <3>3
      <3>5. level[d] <= k - 1 /\ level[d] \in Int /\ k \in Int
        BY <1>2, <2>1, <3>1, <3>2, <3>4
      <3> QED  BY <3>2, <3>5
    <2>3. \A n \in N : level[n] \in Nat
      BY <1>2, <2>1
    <2> HIDE DEF FoundAt, level
    <2> DEFINE upto(n) == {m \in N : level[m] <= level[n]}
               rank == [n \in N |-> Cardinality(upto(n))]
    <2>4. ASSUME NEW n \in N
          PROVE  /\ IsFiniteSet(upto(n)) /\ Cardinality(upto(n)) \in 1..Len(files)
                 /\ n \in upto(n)
      <3>1. upto(n) \in SUBSET N /\ n \in upto(n)
        BY <2>3
      <3> HIDE DEF upto
      <3>2. IsFiniteSet(upto(n)) /\ Cardinality(upto(n)) <= Len(files)
        BY <1>2, <3>1, FS_Subset
      <3>3. Cardinality(upto(n)) \in Nat /\ Cardinality(upto(n)) # 0
        BY <3>1, <3>2, FS_CardinalityType, FS_EmptySet
      <3> QED  BY <1>2, <3>1, <3>2, <3>3
    <2>5. rank \in [N -> 1..Len(files)]
      <3> HIDE DEF upto
      <3> QED  BY <2>4
    <2>6. ASSUME NEW f \in Range(files), NEW d \in Range(f.deps)
          PROVE  d \in N /\ rank[d] < rank[f.name]
      <3>1. d \in N /\ f.name \in N /\ level[d] < level[f.name]
        BY <1>2, <2>2
      <3>2. upto(d) \in SUBSET upto(f.name) /\ f.name \notin upto(d)
        BY <2>3, <3>1
      <3>3. rank[d] = Cardinality(upto(d)) /\ rank[f.name] = Cardinality(upto(f.name))
        BY <3>1
      <3> HIDE DEF rank, upto
      <3>4. /\ IsFiniteSet(upto(f.name)) /\ f.name \in upto(f.name)
            /\ Cardinality(upto(d)) \in 1..Len(files) /\ Cardinality(upto(f.name)) \in 1..Len(files)
        BY <2>4, <3>1
      <3>5. Cardinality(upto(d)) <= Cardinality(upto(f.name))
            /\ Cardinality(upto(d)) # Cardinality(upto(f.name))
        BY <3>2, <3>4, FS_Subset
      <3>6. Cardinality(upto(d)) < Cardinality(upto(f.name))
        BY <1>2, <3>4, <3>5
      <3> QED  BY <3>1, <3>3, <3>6
    <2> HIDE DEF rank
    <2> QED  BY <2>5, <2>6
  <1>6. Ordered(files) <=> \E rank \in [N -> 1..Len(files)] :
                              \A f \in Range(files) : \A d \in Range(f.deps) :
                                  d \in N /\ rank[d] < rank[f.name]
    BY DEF Ordered, N
  <1>7. (\A n \in NamesOf(files) : Resolution(files)[n] = "found")
        <=> \A n \in N : r[top][n] = "found"
    BY <1>1 DEF N
  <1> QED  BY <1>4, <1>5, <1>6, <1>7

\* Once the files are resolved, a set finds a method in those that have its service.
LEMMA SetLookup ==
    ASSUME NEW files, FileList(files), NEW call,
           \A n \in NamesOf(files) : Resolution(files)[n] = "found"
    PROVE  FromProtoSet(call, files) = MethodIn(call, Range(files))
  <1>1. \A k \in DOMAIN files : Resolution(files)[files[k].name] = "found"
    BY DEF NamesOf, Range
  <1> QED  BY <1>1 DEF FromProtoSet

\* A file has the method of a call.
HasMethod(call, f) == call.service \in DOMAIN f.services /\ call.method \in f.services[call.service]

\* What may be found among files is what one of them has.
LEMMA MethodFound ==
    ASSUME NEW call, ValidCall(call), NEW among
    PROVE  /\ "found" \in MethodIn(call, among) <=> \E f \in among : HasMethod(call, f)
           /\ MethodIn(call, among) \in SUBSET {"found", "error"}
  <1>1. CASE Holders(call, among) = {}
    <2>1. MethodIn(call, among) = {"error"}
      BY <1>1 DEF MethodIn
    <2>2. \A f \in among : ~HasMethod(call, f)
      BY <1>1 DEF Holders, HasMethod
    <2> QED  BY <2>1, <2>2
  <1>2. CASE Holders(call, among) # {}
    <2>1. MethodIn(call, among)
          = {IF HasMethod(call, f) THEN "found" ELSE "error" : f \in Holders(call, among)}
      BY <1>2 DEF MethodIn, HasMethod
    <2>2. \A f \in among : HasMethod(call, f) => f \in Holders(call, among)
      BY DEF Holders, HasMethod
    <2>3. \A f \in Holders(call, among) : f \in among
      BY DEF Holders
    <2> QED  BY <2>1, <2>2, <2>3
  <1> QED  BY <1>1, <1>2

\* What reflection finds is what one of the server's files has, unless it is asked with
\* the leading ".".
LEMMA ReflectLookup ==
    ASSUME NEW files, NEW call, ValidCall(call)
    PROVE  FromReflect(call, files) = {"found"}
           <=> ~call.dot /\ \E f \in Range(files) : HasMethod(call, f)
  <1> DEFINE symbol == [dot |-> call.dot, service |-> call.service, method |-> call.method,
                        separator |-> IF call.separator = "none" THEN "none" ELSE "."]
             answers == {f \in Range(files) : ~call.dot /\ HasMethod(call, f)}
  <1>1. FromReflect(call, files) = IF answers = {} THEN {"error"}
                                   ELSE UNION {MethodIn(symbol, {f}) : f \in answers}
    BY DEF FromReflect, HasMethod
  <1>2. ValidCall(symbol)
    BY DEF ValidCall
  <1>3. ASSUME NEW f \in answers  PROVE MethodIn(symbol, {f}) = {"found"}
    <2>1. HasMethod(symbol, f)
      BY <1>3 DEF HasMethod
    <2>2. Holders(symbol, {f}) = {f}
      BY <2>1 DEF Holders, HasMethod
    <2> HIDE DEF symbol
    <2> QED  BY <1>2, <2>1, <2>2 DEF MethodIn, HasMethod
  <1>4. answers # {} <=> ~call.dot /\ \E f \in Range(files) : HasMethod(call, f)
    OBVIOUS
  <1> HIDE DEF answers, symbol
  <1>5. CASE answers = {}
    BY <1>1, <1>4, <1>5
  <1>6. CASE answers # {}
    <2>1. UNION {MethodIn(symbol, {f}) : f \in answers} = {"found"}
      BY <1>3, <1>6
    <2> QED  BY <1>1, <1>4, <1>6, <2>1
  <1> QED  BY <1>5, <1>6

\* What the proto file has, the set has; reflection finds what the set may have, but not
\* with a leading "."; and the set leaves it to chance only if two files declare the service.
LEMMA LookupRight ==
    ASSUME NEW files, FileList(files), NEW call, ValidCall(call),
           \A n \in NamesOf(files) : Resolution(files)[n] = "found"
    PROVE  /\ FromProto(call, files) = {"found"} => "found" \in FromProtoSet(call, files)
           /\ FromReflect(call, files) = {"found"}
              <=> ~call.dot /\ "found" \in FromProtoSet(call, files)
           /\ Cardinality(FromProtoSet(call, files)) > 1 =>
                 \E f, g \in Holders(call, Range(files)) : f # g
  <1> DEFINE f1 == files[1]
             set == FromProtoSet(call, files)
  <1>1. f1 \in Range(files) /\ f1.name \in NamesOf(files)
    BY DEF Range, NamesOf, FileList
  <1>2. set = MethodIn(call, Range(files))
    BY SetLookup
  <1>3. "found" \in set <=> \E f \in Range(files) : HasMethod(call, f)
    BY <1>2, MethodFound
  <1>4. FromProto(call, files) = {"found"} => "found" \in set
    <2>1. FromProto(call, files) = MethodIn(call, {f1})
      BY <1>1 DEF FromProto
    <2>2. "found" \in MethodIn(call, {f1}) => HasMethod(call, f1)
      BY MethodFound
    <2> HIDE DEF f1, set
    <2> QED  BY <1>1, <1>3, <2>1, <2>2
  <1>5. FromReflect(call, files) = {"found"} <=> ~call.dot /\ "found" \in set
    <2> HIDE DEF set
    <2> QED  BY <1>3, ReflectLookup
  <1>6. ASSUME \A f, g \in Holders(call, Range(files)) : f = g
        PROVE  ~(Cardinality(set) > 1)
    <2> DEFINE H == Holders(call, Range(files))
               v(f) == IF HasMethod(call, f) THEN "found" ELSE "error"
    <2>1. set = IF H = {} THEN {"error"} ELSE {v(f) : f \in H}
      BY <1>2 DEF MethodIn, HasMethod
    <2>2. \E x : set = {x}
      <3>1. CASE H = {}
        BY <2>1, <3>1
      <3>2. CASE H # {}
        <4>1. PICK f : f \in H
          BY <3>2
        <4>2. H = {f}
          BY <1>6, <4>1
        <4> HIDE DEF H, v, set
        <4>3. set = {v(f)}
          BY <2>1, <4>2
        <4> QED  BY <4>3
      <3> QED  BY <3>1, <3>2
    <2> HIDE DEF set
    <2>3. PICK x : set = {x}
      BY <2>2
    <2>4. Cardinality(set) = 1
      BY <2>3, FS_Singleton
    <2> QED  BY <2>4
  <1> QED  BY <1>4, <1>5, <1>6

\* Whatever files there are and whatever they import, for every call: the files of a set
\* are resolved when and only when the imports can be put in an order, and then, for a
\* valid call, a method of the proto file may be found in the set; reflection finds what
\* may be found in the set, but nothing for a call with a leading "."; and the lookup
\* in the set is left to chance only if two of its files declare the service.
THEOREM LookupsCorrect == Spec => []LookupsAgree
  <1>1. ASSUME CallTypeOK  PROVE LookupsAgree
    <2> DEFINE l == Current.lookup
               names == {f.name : f \in Range(l.files)}
    <2>1. FileList(l.files)
      BY <1>1, TestRunAssumption DEF TestRunAssumption, CallTypeOK, Current
    <2>2. names = NamesOf(l.files)
      BY DEF NamesOf
    <2>3. (\E rank \in [names -> 1..Len(l.files)] :
              \A f \in Range(l.files) : \A d \in Range(f.deps) :
                  d \in names /\ rank[d] < rank[f.name])
          <=> Ordered(l.files)
      BY <2>2 DEF Ordered
    <2> DEFINE found == \A n \in names : Resolution(l.files)[n] = "found"
    <2>4. Ordered(l.files) <=> found
      BY <2>1, <2>2, ResolutionOrders
    <2>5. ValidCall(l.call) /\ found =>
             /\ FromProto(l.call, l.files) = {"found"} => "found" \in FromProtoSet(l.call, l.files)
             /\ FromReflect(l.call, l.files) = {"found"}
                <=> ~l.call.dot /\ "found" \in FromProtoSet(l.call, l.files)
             /\ Cardinality(FromProtoSet(l.call, l.files)) > 1 =>
                   \E f, g \in Holders(l.call, Range(l.files)) : f # g
      <3> HIDE DEF l, names
      <3> QED  BY <2>1, <2>2, LookupRight
    <2> QED  BY <2>3, <2>4, <2>5 DEF LookupsAgree
  <1>2. ServerInv /\ [Next]_vars => ServerInv'
    BY ServerStep
  <1>3. ServerInv => LookupsAgree
    BY <1>1 DEF ServerInv
  <1> QED  BY ServerInit, <1>2, <1>3, PTL DEF Spec
=============================================================================
