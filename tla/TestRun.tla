------------------------------- MODULE TestRun -------------------------------
(***************************************************************************)
(* A run against a real server: the tests of runner/run_test.go reset the  *)
(* counters of the Greeter, which they share, make a run, and read them.   *)
(* A run creates a requester (NewRequester), opens its connections, makes  *)
(* its calls and closes the connections (ClientConns) at its end, or when  *)
(* Stop does while calls are made (zstop is "close").  The order of calls  *)
(* is free here: it is Requester's.                                        *)
(***************************************************************************)
EXTENDS Greeter, ClientConns, MethodDesc

CONSTANTS
    TestLists,  \* lists of tests: [lookup, calls, stops, timeouts] records
    ConnOf      \* the connection each call is made on

\* lookup is [source, call, files]: the method, and where it is looked up.

ASSUME TestRunAssumption ==
    /\ \A l \in TestLists : Len(l) \in Nat \ {0} /\ DOMAIN l = 1..Len(l)
    /\ \A l \in TestLists : \A t \in DOMAIN l :
          /\ l[t].calls \subseteq Calls
          /\ {l[t].stops, l[t].timeouts} \subseteq BOOLEAN
          /\ FileList(l[t].lookup.files)
          /\ \A u \in DOMAIN l : t # u => l[t].calls \cap l[u].calls = {}
    /\ ConnOf \in [Calls -> Conns]

VARIABLES
    tests,      \* the tests, in order
    test,       \* the current one
    stage,      \* "reset", "resetSends", "resetConns", "new", "run", "closing",
                \*   "check", or "refused" by NewRequester
    client      \* per call: "none", "running", "done" or "failed" (not sent)

testVars == <<tests, test, stage, client>>
vars == <<greeterVars, connVars, testVars>>

Current == tests[test]
Reflects == Current.lookup.source = "reflect"

Init ==
    /\ GreeterInit /\ ConnsOpen
    /\ tests \in TestLists /\ test = 1 /\ stage = "reset"
    /\ client = [c \in Calls |-> "none"]

-----------------------------------------------------------------------------
(* ResetCounters: three sections, of three mutexes *)

ResetCalls ==
    /\ stage = "reset" /\ stage' = "resetSends"
    /\ callCounts' = [t \in CallTypes |-> 0] /\ calls' = NoCalls
    /\ UNCHANGED <<sendCounts, connCount, handlers, gone, panic, connVars, tests, test, client>>

ResetSends ==
    /\ stage = "resetSends" /\ stage' = "resetConns"
    /\ sendCounts' = NoCalls
    /\ UNCHANGED <<callCounts, calls, connCount, handlers, gone, panic, connVars,
                   tests, test, client>>

ResetConns ==
    /\ stage = "resetConns" /\ stage' = "new"
    /\ connCount' = 0
    /\ UNCHANGED <<counters, handlers, gone, panic, connVars, tests, test, client>>

-----------------------------------------------------------------------------
(* The run *)

\* NewRequester: the method is looked up, by reflection over a connection of its
\* own.  Run then opens the connections.
New ==
    /\ stage = "new"
    /\ connCount' = connCount + (IF Reflects THEN 1 ELSE 0)
    /\ LET l == Current.lookup
       IN  \/ /\ "found" \in MethodDescriptor(l.source, l.call, l.files)
              /\ stage' = "run"
              /\ closer' = [c \in Closers |-> "idle"] /\ cur' = [c \in Closers |-> 1]
              /\ conns' = TRUE
              /\ conn' = [n \in Conns |-> "connecting"]
              /\ watcher' = [n \in Conns |-> "none"]
              /\ seen' = [n \in Conns |-> "none"]
              /\ expired' = [n \in Conns |-> FALSE]
              /\ panic' = panic
           \/ /\ "error" \in MethodDescriptor(l.source, l.call, l.files)
              /\ stage' = "refused"
              /\ UNCHANGED <<connVars, panic>>
           \/ /\ "overflow" \in MethodDescriptor(l.source, l.call, l.files)
              /\ panic' = TRUE
              /\ UNCHANGED <<connVars, stage>>
    /\ UNCHANGED <<counters, handlers, gone, tests, test, client>>

\* A dial does not block: a connection is up later, and TagConn counts it.
Connect(n) ==
    /\ stage = "run" /\ conn[n] = "connecting"
    /\ conn' = [conn EXCEPT ![n] = "ready"]
    /\ connCount' = connCount + 1
    /\ UNCHANGED <<counters, handlers, gone, panic, closer, cur, conns, watcher,
                   seen, expired, testVars>>

\* A call waits for its connection; on one that is shut down it fails.
Call(c) ==
    /\ stage = "run" /\ c \in Current.calls /\ client[c] = "none"
    /\ \/ /\ conn[ConnOf[c]] = "ready"
          /\ client' = [client EXCEPT ![c] = "running"] /\ gone' = gone
       \/ /\ conn[ConnOf[c]] = "shutdown"
          /\ client' = [client EXCEPT ![c] = "failed"] /\ gone' = gone \cup {c}
    /\ UNCHANGED <<counters, connCount, handlers, panic, connVars, tests, test, stage>>

\* The server starts the handler, at any time later.
Deliver(c) ==
    /\ client[c] \in {"running", "done"} /\ handler[c] = "none"
    /\ At(c, "called")
    /\ UNCHANGED <<counters, connCount, callIdx, streamed, gone, panic, connVars,
                   testVars>>

Return(c) ==
    /\ client[c] = "running" /\ c \notin gone /\ handler[c] = "end"
    /\ client' = [client EXCEPT ![c] = "done"]
    /\ UNCHANGED <<greeterVars, connVars, tests, test, stage>>

\* The call's timeout, or the shutdown of its connection; its handler goes on.
GiveUp(c) ==
    /\ client[c] = "running" /\ c \notin gone
    /\ Current.timeouts \/ conn[ConnOf[c]] = "shutdown"
    /\ gone' = gone \cup {c}
    /\ client' = [client EXCEPT ![c] = "done"]
    /\ UNCHANGED <<counters, connCount, handlers, panic, connVars, tests, test, stage>>

Stop ==
    /\ stage = "run" /\ Current.stops
    /\ CallClose("stop")
    /\ UNCHANGED <<greeterVars, testVars>>

RunEnds ==
    /\ stage = "run" /\ \A c \in Current.calls : client[c] \in {"done", "failed"}
    /\ CallClose("run")
    /\ stage' = "closing"
    /\ UNCHANGED <<greeterVars, tests, test, client>>

Returned ==
    /\ stage = "closing" /\ closer["run"] = "done"
    /\ stage' = "check"
    /\ UNCHANGED <<greeterVars, connVars, tests, test, client>>

\* Stop is no longer running: see Requester for a Stop that comes late.
NextTest ==
    /\ stage \in {"check", "refused"} /\ test < Len(tests) /\ closer["stop"] \in {"idle", "done"}
    /\ test' = test + 1 /\ stage' = "reset"
    /\ UNCHANGED <<greeterVars, connVars, tests, client>>

-----------------------------------------------------------------------------
Terminated ==
    /\ panic \/ (stage \in {"check", "refused"} /\ test = Len(tests))
    /\ UNCHANGED vars

Next ==
    \/ /\ ~panic
       /\ \/ ResetCalls \/ ResetSends \/ ResetConns \/ New \/ Stop \/ RunEnds
          \/ Returned \/ NextTest
          \/ \E n \in Conns : Connect(n)
          \/ \E c \in Calls : Call(c) \/ Deliver(c) \/ Return(c) \/ GiveUp(c)
          \/ Handling /\ UNCHANGED <<connVars, testVars>>
          \/ (Closing \/ Watching) /\ UNCHANGED <<greeterVars, testVars>>
    \/ Terminated

Spec == Init /\ [][Next]_vars

FairSpec == Spec /\ ConnFairness /\ WF_vars(Returned)

-----------------------------------------------------------------------------
(* Properties *)

Earlier == UNION {tests[t].calls : t \in 1..test - 1}
OfType(t) == {c \in Current.calls : TypeOf[c] = t}
Received(t) == IF t \in {"unary", "ss"} THEN 1 ELSE Messages

\* What a test reads after its run is exact, as the assertions of run_test.go have
\* it, if no call of it or of an earlier test was given up: one count and one row
\* per call, with the messages of that call alone, the replies of every
\* server-streaming call (bidirectional calls apart), and the connections it used,
\* one more for reflection.
CountsExact ==
    stage = "check" /\ gone = {} =>
        /\ \A t \in CallTypes :
              /\ callCounts[t] = Cardinality(OfType(t))
              /\ Len(calls[t]) = Cardinality(OfType(t))
              /\ \A c \in OfType(t) :
                    calls[t][callIdx[c]] = [k \in 1..Received(t) |-> c]
        /\ OfType("bidi") = {} =>
              \A c \in OfType("ss") : SendCount("ss", callIdx[c]) = Replies
        /\ LET used == {ConnOf[c] : c \in Current.calls}
               own == connCount - (IF Reflects THEN 1 ELSE 0)
           IN  Cardinality(used) <= own /\ own <= NConns

\* The index a handler holds is out of range only when the counters were reset
\* since it was taken, and so for a call that an earlier test gave up.
PanicOnlyIfLate ==
    panic /\ stage # "new" => \E c \in gone \cap Earlier : handler[c] = "message"

\* Run returns from closeClientConns, whatever its watchers miss and whatever Stop
\* closes at the same time.
CloseReturns == stage = "closing" ~> (stage = "check" \/ panic)

\* However many callers close the connections, each is closed once, and all of
\* them are when the first is done.
ClosedOnce ==
    [][\A c \in Closers :
           /\ closer[c] = "close" /\ closer'[c] = "recv" => conn[cur[c]] # "shutdown"
           /\ closer[c] # "done" /\ closer'[c] = "done" =>
                  \A n \in Conns : conn[n] = "shutdown"]_vars

\* The files of a set resolve exactly when none lacks an import and they can be
\* put in an order in which every import comes first.  Then, for every call that
\* parseServiceMethod takes, a method found in the proto file may be found in the
\* set (not the converse: a proto file's imports are not searched); reflection finds
\* what may be found in the set, but for the calls with a leading ".", none of
\* which it finds although they are documented as valid (protodesc.go:158-164 and
\* 84-85); and it is left to chance, the order of a map (protodesc.go:147), whether
\* the set has the method only if two of its files declare the name of the service.
LookupsAgree ==
    stage = "new" =>
        LET l == Current.lookup
            all == Range(l.files)
            names == {f.name : f \in all}
            ordered == \E rank \in [names -> 1..Len(l.files)] :
                          \A f \in all : \A d \in Range(f.deps) :
                              d \in names /\ rank[d] < rank[f.name]
            proto == FromProto(l.call, l.files)
            set == FromProtoSet(l.call, l.files)
            reflected == FromReflect(l.call, l.files)
        IN  /\ ordered <=> \A n \in names : Resolution(l.files)[n] = "found"
            /\ ordered /\ ValidCall(l.call) =>
                  /\ proto = {"found"} => "found" \in set
                  /\ reflected = {"found"} <=> ~l.call.dot /\ "found" \in set
                  /\ Cardinality(set) > 1 => \E f, g \in Holders(l.call, all) : f # g
=============================================================================
